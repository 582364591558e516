---------------------------- MODULE BondingProofs ----------------------------
(***************************************************************************)
(* What the atoms of Molecule print, proved for any finite sets of atoms:  *)
(* which molecule a line names, how the lines are numbered, when a surplus *)
(* atom is let go; where no counter's update is disturbed, the barrier of  *)
(* a molecule, the refinement of Bonding and that nobody is stuck.         *)
(***************************************************************************)
EXTENDS MoleculeProofs

\* The atom has not printed "creating molecule", or not "molecule created".
Unannounced(a) ==
  \/ pc[a] \in {"unborn", "started", "queue", "count", "countStore", "classify",
                "surplus", "enter", "number"}
  \/ pc[a] = "creating" /\ step[a] # "post"

Uncreated(a) ==
  \/ Unannounced(a)
  \/ pc[a] \in {"creating", "admit", "join", "joinStore", "joinTest", "release",
                "barrier"}
  \/ pc[a] = "created" /\ step[a] # "post"

\* An atom inside a molecule has printed the current number or nothing yet.
AtomLines ==
  \A a \in Atoms :
    /\ creating[a] <= shm.IDMolecule
    /\ Unannounced(a) => creating[a] = 0
    /\ ~Unannounced(a) /\ pc[a] # "gone" =>
         creating[a] = shm.IDMolecule /\ shm.IDMolecule > 0
    /\ created[a] \in {0, creating[a]}
    /\ Uncreated(a) => created[a] = 0
    /\ ~Uncreated(a) /\ pc[a] # "gone" => created[a] = shm.IDMolecule

\* The oxygen is the first to announce a number, and announces it alone.
OxygenLines ==
  /\ \A o \in Oxygens : pc[o] = "creating" /\ step[o] # "post" =>
       \A a \in Atoms : creating[a] # shm.IDMolecule
  /\ \A o, q \in Oxygens : creating[o] = creating[q] /\ creating[o] # 0 => o = q

BaseInv == StopInv /\ MoleculeInv

LineInv == BaseInv /\ AtomLines /\ OxygenLines

\* Initially every part of the base invariant holds.
LEMMA BaseInit == Init => BaseInv
BY StopInit, MoleculeInit DEF BaseInv

\* Every step keeps the base invariant: its parts are those of MoleculeProofs.
LEMMA BaseStep == BaseInv /\ [Next]_vars => BaseInv'
BY StopStep, MoleculeStep DEF BaseInv

\* While a hydrogen is inside, the oxygen that admitted it is, and has a number.
LEMMA HydrogenNumbered ==
  ASSUME BaseInv, NEW h \in HInside
  PROVE  /\ shm.IDMolecule > 0
         /\ \E o \in Oxygens : pc[o] \in {"admit", "barrier", "created", "collect"}
<1> USE DEF BaseInv, MoleculeInv, OneMoleculeAtATime
<1>1. Cardinality(HInside) > 0
  BY InsideFinite, FS_EmptySet
<1>2. PICK o \in OInside : TRUE
  OBVIOUS
<1>3. sem["semap_H"] \in Nat /\ sem["sem_ready"] \in Nat
  BY DEF PlaceInv, TypeInv, TypeOK, Semaphores
<1>4. Owed(o) # 0
  BY <1>1, <1>2, <1>3, InsideFinite
<1>5. pc[o] \in {"admit", "barrier", "created", "collect"}
  BY <1>4 DEF Owed
<1> QED BY <1>2, <1>5 DEF OInside, OxygenPlaces, StopInv, StopSchedule

\* At ++IDMolecule the oxygen is alone: no hydrogen inside and none admitted.
LEMMA NumberIdle ==
  ASSUME BaseInv, NEW a \in Atoms, NumberMolecule(a)
  PROVE  /\ a \in Oxygens /\ HInside = {}
         /\ \A o \in OInside : o = a
         /\ sem["semap_H"] = 0
<1> USE DEF BaseInv, MoleculeInv, PlaceInv, TypeInv, TypeOK
<1>1. a \in OInside /\ Owed(a) = 0
  BY DEF NumberMolecule, At, Kinds, OInside, OxygenPlaces, Owed, Atoms
<1>2. Cardinality(HInside) = 0 /\ sem["semap_H"] = 0
  BY <1>1, InsideFinite DEF OneMoleculeAtATime, Semaphores
<1> QED BY <1>1, <1>2, InsideFinite, FS_EmptySet DEF OxygenLock, OInside

\* Nobody has announced anything.
LEMMA LineInit == Init => LineInv
<1>1. Init => AtomLines /\ OxygenLines
  BY AtomsAssumption DEF Init, AtomLines, OxygenLines, Unannounced, Uncreated, ShmZero, Atoms
<1> QED BY <1>1, BaseInit DEF LineInv

\* Every step keeps what an atom has announced within the molecule it is in.
LEMMA LineStep == LineInv /\ [Next]_vars => LineInv'
<1> SUFFICES ASSUME LineInv, [Next]_vars PROVE (AtomLines /\ OxygenLines)'
  BY BaseStep DEF LineInv
<1> DEFINE Goal == AtomLines /\ OxygenLines
<1>0. BaseInv /\ BaseInv' /\ PlaceInv /\ PlaceInv'
  BY BaseStep DEF LineInv, BaseInv, MoleculeInv
<1> USE DEF LineInv, PlaceInv, TypeInv, TypeOK, Kinds, StepIdle, Goto, At, Prints, Atoms,
        AtomLines, OxygenLines, Unannounced, Uncreated
<1>1. CASE MainStart \/ MainReap \/ CrashAndRerun
  BY <1>0, <1>1 DEF MainStart, MainReap, CrashAndRerun, atomVars, outVars
<1>2. ASSUME NEW a \in Atoms, Fork(a) \/ ForkFails(a) PROVE Goal'
  BY <1>0, <1>2 DEF Fork, ForkFails, ForkOrder, outVars
<1>3. ASSUME NEW a \in Atoms, PrintStep(a) PROVE Goal'
  <2>1. CASE PrintWait(a) \/ PrintLoad(a) \/ PrintStore(a)
    BY <1>0, <2>1 DEF PrintWait, PrintLoad, PrintStore, Printing, outVars
  <2>2. CASE PrintLine(a)
    <3>1. pc[a] = "creating" => shm.IDMolecule > 0
      <4>1. CASE a \in Oxygens
        BY <1>0, <4>1 DEF BaseInv, StopInv, StopSchedule, OxygenPlaces
      <4>2. CASE a \in Hydrogens
        BY <1>0, <4>2, HydrogenNumbered DEF HInside, HydrogenPlaces
      <4> QED BY <4>1, <4>2
    <3>2. pc[a] = "creating" /\ a \in Hydrogens =>
             \A o \in Oxygens : pc[o] # "creating"
      <4> SUFFICES ASSUME pc[a] = "creating", a \in Hydrogens, NEW q \in Oxygens,
                          pc[q] = "creating"
                   PROVE FALSE
        OBVIOUS
      <4>1. PICK o \in Oxygens : pc[o] \in {"admit", "barrier", "created", "collect"}
        BY <1>0, HydrogenNumbered DEF HInside, HydrogenPlaces
      <4>2. o = q
        BY <1>0, <4>1 DEF BaseInv, StopInv, OxygenLock, OxygenPlaces
      <4> QED BY <4>1, <4>2
    <3>3. a \in Oxygens => \A o \in Oxygens : pc[o] = "creating" /\ pc[a] = "creating" => o = a
      BY <1>0 DEF BaseInv, StopInv, OxygenLock, OxygenPlaces
    <3>4. AtomLines'
      BY <1>0, <2>2, <3>1 DEF PrintLine, Printing
    <3>5. OxygenLines'
      BY <1>0, <2>2, <3>1, <3>2, <3>3, AtomsAssumption DEF PrintLine, Printing
    <3> QED BY <3>4, <3>5
  <2>3. CASE PrintPost(a)
    <3>1. /\ step[a] = "post" /\ step' = [step EXCEPT ![a] = "wait"]
          /\ UNCHANGED <<shm, creating, created>>
      BY <2>3 DEF PrintPost, outVars
    <3>2. /\ pc[a] \in Prints /\ pc' = [pc EXCEPT ![a] = AfterPrint(a)]
      BY <2>3 DEF PrintPost, Printing
    <3>3. /\ pc[a] \in {"started", "queue"} => AfterPrint(a) \in {"queue", "count"}
          /\ pc[a] = "creating" => AfterPrint(a) \in {"admit", "join"}
          /\ pc[a] = "created" => AfterPrint(a) \in {"collect", "part"}
          /\ pc[a] = "surplus" => AfterPrint(a) = "gone"
      BY DEF AfterPrint
    <3> HIDE DEF Goto
    <3> QED BY <1>0, <3>1, <3>2, <3>3
  <2> QED BY <1>3, <2>1, <2>2, <2>3 DEF PrintStep
<1>4. ASSUME NEW a \in Atoms, CountStep(a) PROVE Goal'
  BY <1>0, <1>4 DEF CountStep, CountLoad, CountStore, Classify, Counter, outVars
<1>5. ASSUME NEW a \in Atoms, BondStep(a) PROVE Goal'
  <2>1. CASE EnterH(a) \/ EnterO(a) \/ Admit(a)
    BY <1>0, <2>1, AtomsAssumption DEF EnterH, EnterO, Admit, outVars
  <2>2. CASE NumberMolecule(a)
    <3>1. a \in Oxygens /\ HInside = {} /\ \A o \in OInside : o = a
      BY <1>0, <2>2, NumberIdle
    <3>2. \A b \in Atoms : b # a => Unannounced(b) \/ pc[b] = "gone"
      BY <1>0, <3>1 DEF HInside, OInside, HydrogenPlaces, OxygenPlaces, Places
    <3> QED BY <1>0, <2>2, <3>1, <3>2 DEF NumberMolecule, outVars
  <2>3. CASE JoinLoad(a) \/ JoinStore(a) \/ JoinTest(a)
    BY <1>0, <2>3 DEF JoinLoad, JoinStore, JoinTest, outVars
  <2>4. CASE Release(a) \/ PassBarrier(a)
    BY <1>0, <2>4 DEF Release, PassBarrier, outVars
  <2>5. CASE PartLoad(a) \/ PartStore(a) \/ Ready(a)
    BY <1>0, <2>5 DEF PartLoad, PartStore, Ready, outVars
  <2>6. CASE Collect(a) \/ LastMolecule(a) \/ Leave(a)
    BY <1>0, <2>6 DEF Collect, LastMolecule, Leave, outVars
  <2> QED BY <1>5, <2>1, <2>2, <2>3, <2>4, <2>5, <2>6 DEF BondStep
<1>6. CASE UNCHANGED vars
  BY <1>6 DEF vars
<1> QED BY <1>1, <1>2, <1>3, <1>4, <1>5, <1>6 DEF Next, Main, Atom

-----------------------------------------------------------------------------
(* Counting lines.  f is creating or created: each hydrogen the oxygen has *)
(* admitted is a permit of semap_H, inside and silent, or has printed the  *)
(* number of the molecule.                                                 *)

Untold(f) == {h \in HInside : f[h] = 0}
Told(f, n) == {h \in Hydrogens : f[h] = n}

Admitted(o) ==
  CASE pc[o] = "creating" -> 0
    [] pc[o] = "admit" -> 2 - left[o]
    [] OTHER -> 2

Accounted(f) ==
  \A o \in OInside : pc[o] # "number" =>
    sem["semap_H"] + Cardinality(Untold(f)) + Cardinality(Told(f, shm.IDMolecule))
      = Admitted(o)

HydrogenLines ==
  /\ Accounted(creating)
  /\ Accounted(created)
  /\ \A n \in Nat \ {0} : Cardinality(Told(creating, n)) <= 2

CountInv == LineInv /\ HydrogenLines

\* The sets of announcements that are counted are finite.
LEMMA ToldFinite ==
  ASSUME NEW f, NEW n
  PROVE  /\ IsFiniteSet(Untold(f)) /\ Cardinality(Untold(f)) \in Nat
         /\ IsFiniteSet(Told(f, n)) /\ Cardinality(Told(f, n)) \in Nat
<1>1. Untold(f) \subseteq Hydrogens /\ Told(f, n) \subseteq Hydrogens
  BY DEF Untold, Told, HInside
<1> QED BY <1>1, AtomsAssumption, FS_Subset, FS_CardinalityType

\* A step that admits nobody and prints neither of the two lines.
LEMMA LinesKept ==
  ASSUME HydrogenLines, UNCHANGED <<creating, created>>,
         Untold(creating)' = Untold(creating), Untold(created)' = Untold(created),
         shm'.IDMolecule = shm.IDMolecule, sem'["semap_H"] = sem["semap_H"],
         OInside' \subseteq OInside,
         \A o \in OInside' : Admitted(o)' = Admitted(o) /\ (pc'[o] # "number" => pc[o] # "number")
  PROVE  HydrogenLines'
BY DEF HydrogenLines, Accounted, Told

\* Nothing is announced and nothing is due.
LEMMA CountInit == Init => CountInv
<1> SUFFICES ASSUME Init PROVE HydrogenLines
  BY LineInit DEF CountInv
<1>1. OInside = {}
  BY DEF Init, OInside, OxygenPlaces, Atoms
<1>2. \A n \in Nat \ {0} : Told(creating, n) = {}
  BY DEF Init, Told, Atoms
<1> QED BY <1>1, <1>2, FS_EmptySet DEF HydrogenLines, Accounted

\* Every step keeps the two counts: announcements made, and still due, of the open molecule.
LEMMA LinesStep == CountInv /\ [Next]_vars => CountInv'
<1> SUFFICES ASSUME CountInv, [Next]_vars PROVE HydrogenLines'
  BY LineStep DEF CountInv
<1>0. BaseInv /\ BaseInv' /\ PlaceInv /\ PlaceInv' /\ LineInv'
  BY LineStep DEF LineInv, CountInv, BaseInv, MoleculeInv
<1> USE DEF CountInv, LineInv, PlaceInv, TypeInv, TypeOK, LeftOK, Kinds, Goto, At, Semaphores, Atoms
<1>1. CASE MainStart
  BY <1>0, <1>1, LinesKept DEF MainStart, Post, atomVars, outVars, OInside, HInside, Untold, Admitted
<1>2. CASE MainReap
  BY <1>0, <1>2, LinesKept DEF MainReap, atomVars, outVars, OInside, HInside, Untold, Admitted
<1>3. CASE CrashAndRerun
  <2>1. OInside' = {}
    BY <1>3 DEF CrashAndRerun, OInside, OxygenPlaces
  <2>2. \A n \in Nat \ {0} : Told(creating, n)' = {}
    BY <1>3 DEF CrashAndRerun, Told
  <2> QED BY <2>1, <2>2, FS_EmptySet DEF HydrogenLines, Accounted
<1>4. ASSUME NEW a \in Atoms, Fork(a) \/ ForkFails(a) PROVE HydrogenLines'
  BY <1>0, <1>4, LinesKept DEF Fork, ForkFails, ForkOrder, outVars, OInside, HInside, Untold,
     Admitted, OxygenPlaces, HydrogenPlaces
<1>5. ASSUME NEW a \in Atoms, PrintStep(a) PROVE HydrogenLines'
  <2>1. CASE PrintWait(a) \/ PrintLoad(a) \/ PrintStore(a)
    BY <1>0, <2>1, LinesKept DEF PrintWait, PrintLoad, PrintStore, Wait, Guard,
       outVars, OInside, HInside, Untold, Admitted
  <2>2. CASE PrintPost(a)
    <3>1. pc[a] \in Prints /\ pc' = [pc EXCEPT ![a] = AfterPrint(a)]
      BY <2>2 DEF PrintPost, Printing
    <3>2. OInside' = OInside /\ HInside' = HInside
      BY <1>0, <3>1, AtomsAssumption DEF AfterPrint, Prints, OInside, HInside, OxygenPlaces, HydrogenPlaces
    <3>3. \A o \in OInside : Admitted(o)' = Admitted(o) /\ (pc'[o] # "number" => pc[o] # "number")
      BY <1>0, <2>2, <3>1, AtomsAssumption DEF AfterPrint, Prints, PrintPost, OInside, OxygenPlaces, Admitted
    <3> QED BY <1>0, <2>2, <3>2, <3>3, LinesKept DEF PrintPost, Post, Guard, outVars, Untold
  <2>3. CASE PrintLine(a)
    <3>1. CASE a \in Oxygens \/ pc[a] \notin {"creating", "created"}
      <4>1. /\ \A h \in Hydrogens : creating'[h] = creating[h] /\ created'[h] = created[h]
            /\ UNCHANGED <<sem, shm, pc, left>>
        BY <2>3, <3>1, AtomsAssumption DEF PrintLine
      <4>2. \A n : Told(creating, n)' = Told(creating, n) /\ Told(created, n)' = Told(created, n)
        BY <4>1 DEF Told
      <4>3. /\ Untold(creating)' = Untold(creating) /\ Untold(created)' = Untold(created)
            /\ OInside' = OInside
        BY <4>1 DEF Untold, HInside, OInside
      <4>4. \A o \in OInside : Admitted(o)' = Admitted(o)
        BY <4>1 DEF Admitted
      <4> QED BY <4>1, <4>2, <4>3, <4>4 DEF HydrogenLines, Accounted
    <3>2. CASE a \in Hydrogens /\ pc[a] = "creating"
      <4> DEFINE n == shm.IDMolecule
      <4>1. /\ a \in HInside /\ n > 0 /\ n \in Nat
            /\ \E o \in OInside : pc[o] # "number"
        BY <1>0, <3>2, HydrogenNumbered DEF HInside, HydrogenPlaces, OInside, OxygenPlaces
      <4>2. /\ creating[a] = 0 /\ creating' = [creating EXCEPT ![a] = n]
            /\ UNCHANGED <<sem, shm, pc, left, created>>
        BY <1>0, <2>3, <3>2 DEF PrintLine, Printing, AtomLines, Unannounced
      <4>3. Told(creating, n)' = Told(creating, n) \cup {a} /\ a \notin Told(creating, n)
        BY <1>0, <3>2, <4>1, <4>2 DEF Told
      <4>4. \A m \in Nat \ {0, n} : Told(creating, m)' = Told(creating, m)
        BY <1>0, <4>1, <4>2 DEF Told
      <4>5. Untold(creating)' = Untold(creating) \ {a} /\ a \in Untold(creating)
        BY <1>0, <4>1, <4>2 DEF Untold, HInside
      <4>6. Cardinality(Told(creating, n))' = Cardinality(Told(creating, n)) + 1
        BY <4>3, ToldFinite, FS_AddElement
      <4>7. Cardinality(Untold(creating))' = Cardinality(Untold(creating)) - 1
        BY <4>5, ToldFinite, FS_RemoveElement
      <4>8. OInside' = OInside /\ \A o \in OInside : Admitted(o)' = Admitted(o) /\ pc'[o] = pc[o]
        BY <4>2 DEF OInside, Admitted
      <4>9. Accounted(creating)'
        <5> SUFFICES ASSUME NEW o \in OInside, pc[o] # "number"
                     PROVE  sem["semap_H"] + Cardinality(Untold(creating))' + Cardinality(Told(creating, n))'
                              = Admitted(o)
          BY <4>2, <4>8 DEF Accounted
        <5>1. sem["semap_H"] + Cardinality(Untold(creating)) + Cardinality(Told(creating, n)) = Admitted(o)
          BY DEF HydrogenLines, Accounted
        <5>2. /\ sem["semap_H"] \in Nat
              /\ Cardinality(Untold(creating)) \in Nat /\ Cardinality(Told(creating, n)) \in Nat
          BY <1>0, ToldFinite
        <5> HIDE DEF n
        <5> QED BY <4>6, <4>7, <5>1, <5>2
      <4>10. Accounted(created)'
        <5>1. Untold(created)' = Untold(created) /\ Told(created, n)' = Told(created, n)
          BY <4>2 DEF Untold, HInside, Told
        <5> QED BY <5>1, <4>2, <4>8 DEF HydrogenLines, Accounted
      <4>11. Cardinality(Told(creating, n))' <= 2
        <5>1. PICK o \in OInside : pc[o] # "number"
          BY <4>1
        <5>2. Admitted(o) <= 2 /\ Admitted(o) \in Nat
          BY <1>0 DEF Admitted, OInside
        <5>3. sem["semap_H"] + Cardinality(Untold(creating)) + Cardinality(Told(creating, n)) = Admitted(o)
          BY <5>1 DEF HydrogenLines, Accounted
        <5>4. /\ sem["semap_H"] \in Nat
              /\ Cardinality(Untold(creating)) \in Nat /\ Cardinality(Told(creating, n)) \in Nat
          BY <1>0, ToldFinite
        <5>5. Cardinality(Untold(creating)) > 0
          BY <4>5, ToldFinite, FS_EmptySet
        <5> HIDE DEF n
        <5> QED BY <4>6, <5>2, <5>3, <5>4, <5>5
      <4>12. \A m \in Nat \ {0} : Cardinality(Told(creating, m))' <= 2
        <5>1. \A m \in Nat \ {0} : Cardinality(Told(creating, m)) <= 2
          BY DEF HydrogenLines
        <5>2. n' = n
          BY <4>2
        <5> HIDE DEF n
        <5> QED BY <4>4, <4>11, <5>1, <5>2
      <4> QED BY <4>9, <4>10, <4>12 DEF HydrogenLines
    <3>3. CASE a \in Hydrogens /\ pc[a] = "created"
      <4> DEFINE n == shm.IDMolecule
      <4>1. a \in HInside /\ n > 0 /\ n \in Nat
        BY <1>0, <3>3, HydrogenNumbered DEF HInside, HydrogenPlaces, OInside, OxygenPlaces
      <4>2. /\ created[a] = 0 /\ created' = [created EXCEPT ![a] = n]
            /\ UNCHANGED <<sem, shm, pc, left, creating>>
        BY <1>0, <2>3, <3>3 DEF PrintLine, Printing, AtomLines, Uncreated
      <4>3. Told(created, n)' = Told(created, n) \cup {a} /\ a \notin Told(created, n)
        BY <1>0, <3>3, <4>1, <4>2 DEF Told
      <4>5. Untold(created)' = Untold(created) \ {a} /\ a \in Untold(created)
        BY <1>0, <4>1, <4>2 DEF Untold, HInside
      <4>6. Cardinality(Told(created, n))' = Cardinality(Told(created, n)) + 1
        BY <4>3, ToldFinite, FS_AddElement
      <4>7. Cardinality(Untold(created))' = Cardinality(Untold(created)) - 1
        BY <4>5, ToldFinite, FS_RemoveElement
      <4>8. OInside' = OInside /\ \A o \in OInside : Admitted(o)' = Admitted(o) /\ pc'[o] = pc[o]
        BY <4>2 DEF OInside, Admitted
      <4>9. Accounted(created)'
        <5> SUFFICES ASSUME NEW o \in OInside, pc[o] # "number"
                     PROVE  sem["semap_H"] + Cardinality(Untold(created))' + Cardinality(Told(created, n))'
                              = Admitted(o)
          BY <4>2, <4>8 DEF Accounted
        <5>1. sem["semap_H"] + Cardinality(Untold(created)) + Cardinality(Told(created, n)) = Admitted(o)
          BY DEF HydrogenLines, Accounted
        <5>2. /\ sem["semap_H"] \in Nat
              /\ Cardinality(Untold(created)) \in Nat /\ Cardinality(Told(created, n)) \in Nat
          BY <1>0, ToldFinite
        <5> HIDE DEF n
        <5> QED BY <4>6, <4>7, <5>1, <5>2
      <4>10. /\ Untold(creating)' = Untold(creating)
             /\ \A m : Told(creating, m)' = Told(creating, m)
        BY <4>2 DEF Untold, HInside, Told
      <4> QED BY <4>2, <4>8, <4>9, <4>10 DEF HydrogenLines, Accounted
    <3> QED BY <3>1, <3>2, <3>3
  <2> QED BY <1>5, <2>1, <2>2, <2>3 DEF PrintStep
<1>6. ASSUME NEW a \in Atoms, CountStep(a) PROVE HydrogenLines'
  BY <1>0, <1>6, LinesKept DEF CountStep, CountLoad, CountStore, Classify, Counter,
     outVars, OInside, HInside, Untold, Admitted, OxygenPlaces, HydrogenPlaces
<1>7. ASSUME NEW a \in Atoms, BondStep(a) PROVE HydrogenLines'
  <2>1. CASE EnterH(a)
    <3>1. /\ HInside' = HInside \cup {a} /\ a \notin HInside /\ OInside' = OInside
          /\ creating[a] = 0 /\ created[a] = 0
          /\ sem'["semap_H"] = sem["semap_H"] - 1
          /\ UNCHANGED <<shm, left, creating, created>>
      BY <1>0, <2>1, AtomsAssumption DEF EnterH, Wait, outVars, HInside, OInside, HydrogenPlaces,
         OxygenPlaces, AtomLines, Unannounced, Uncreated
    <3>2. /\ Untold(creating)' = Untold(creating) \cup {a} /\ a \notin Untold(creating)
          /\ Untold(created)' = Untold(created) \cup {a} /\ a \notin Untold(created)
          /\ \A n : Told(creating, n)' = Told(creating, n) /\ Told(created, n)' = Told(created, n)
      BY <3>1 DEF Untold, Told
    <3>3. /\ Cardinality(Untold(creating))' = Cardinality(Untold(creating)) + 1
          /\ Cardinality(Untold(created))' = Cardinality(Untold(created)) + 1
      BY <3>2, ToldFinite, FS_AddElement
    <3>4. \A o \in OInside : Admitted(o)' = Admitted(o) /\ pc'[o] = pc[o]
      BY <2>1, AtomsAssumption DEF EnterH, OInside, Admitted
    <3> QED BY SMTT(30), <1>0, <3>1, <3>2, <3>3, <3>4, ToldFinite DEF HydrogenLines, Accounted
  <2>2. CASE EnterO(a)
    <3>1. pc'[a] = "number" /\ OInside' = {a}
      BY <1>0, <2>2, AtomsAssumption DEF EnterO, Wait, OInside, OxygenPlaces, BaseInv, StopInv, OxygenLock
    <3>2. \A n : Told(creating, n)' = Told(creating, n)
      BY <2>2 DEF EnterO, outVars, Told
    <3> QED BY <3>1, <3>2 DEF HydrogenLines, Accounted
  <2>3. CASE NumberMolecule(a)
    <3>1. /\ a \in Oxygens /\ HInside = {} /\ sem["semap_H"] = 0
          /\ \A o \in OInside : o = a
      BY <1>0, <2>3, NumberIdle
    <3>2. /\ shm'.IDMolecule = shm.IDMolecule + 1
          /\ UNCHANGED <<sem, left, creating, created>>
          /\ pc' = [pc EXCEPT ![a] = "creating"] /\ HInside' = HInside
          /\ \A o \in OInside' : o = a
      BY <1>0, <2>3, <3>1, AtomsAssumption DEF NumberMolecule, outVars, HInside, OInside, OxygenPlaces
    <3>3. /\ Untold(creating)' = {} /\ Untold(created)' = {}
          /\ Told(creating, shm.IDMolecule)' = {} /\ Told(created, shm.IDMolecule)' = {}
      BY <1>0, <3>1, <3>2 DEF Untold, Told, AtomLines
    <3>4. \A n : Told(creating, n)' = Told(creating, n)
      BY <3>2 DEF Told
    <3>5. Admitted(a)' = 0
      BY <1>0, <3>1, <3>2 DEF Admitted
    <3>6. Accounted(creating)' /\ Accounted(created)'
      BY <3>1, <3>2, <3>3, <3>5, FS_EmptySet DEF Accounted
    <3> QED BY <3>4, <3>6 DEF HydrogenLines
  <2>4. CASE Admit(a)
    <3>1. /\ a \in OInside /\ OInside' = OInside /\ HInside' = HInside
          /\ UNCHANGED <<shm, creating, created>>
          /\ sem'["semap_H"] = sem["semap_H"] + 1
          /\ pc[a] = "admit"
      BY <1>0, <2>4, AtomsAssumption DEF Admit, Post, outVars, OInside, HInside, OxygenPlaces,
         HydrogenPlaces
    <3>2. \A o \in OInside : o = a
      BY <1>0, <3>1 DEF BaseInv, StopInv, OxygenLock, OInside
    <3>3. Admitted(a)' = Admitted(a) + 1 /\ Admitted(a) \in Nat
      BY <1>0, <2>4 DEF Admit, Admitted
    <3>4. \A n : /\ Told(creating, n)' = Told(creating, n) /\ Told(created, n)' = Told(created, n)
                 /\ Untold(creating)' = Untold(creating) /\ Untold(created)' = Untold(created)
      BY <3>1 DEF Untold, Told
    <3> QED BY <1>0, <3>1, <3>2, <3>3, <3>4, ToldFinite DEF HydrogenLines, Accounted
  <2>5. CASE JoinLoad(a) \/ JoinStore(a) \/ JoinTest(a)
    BY <1>0, <2>5, LinesKept DEF JoinLoad, JoinStore, JoinTest, outVars, OInside, HInside,
       Untold, Admitted, OxygenPlaces, HydrogenPlaces
  <2>6. CASE Release(a) \/ PassBarrier(a)
    BY <1>0, <2>6, LinesKept DEF Release, PassBarrier, Wait, Post, outVars, OInside, HInside,
       Untold, Admitted, OxygenPlaces, HydrogenPlaces
  <2>7. CASE PartLoad(a) \/ PartStore(a)
    BY <1>0, <2>7, LinesKept DEF PartLoad, PartStore, outVars, OInside, HInside,
       Untold, Admitted, OxygenPlaces, HydrogenPlaces
  <2>8. CASE Ready(a)
    <3>1. /\ HInside' = HInside \ {a} /\ a \in HInside /\ OInside' = OInside
          /\ UNCHANGED <<shm, left, creating, created>> /\ sem'["semap_H"] = sem["semap_H"]
          /\ creating[a] # 0 /\ created[a] # 0
      BY <1>0, <2>8, AtomsAssumption DEF Ready, Post, outVars, OInside, HInside, OxygenPlaces,
         HydrogenPlaces, AtomLines, Unannounced, Uncreated
    <3>2. Untold(creating)' = Untold(creating) /\ Untold(created)' = Untold(created)
      BY <3>1 DEF Untold
    <3>3. \A o \in OInside : Admitted(o)' = Admitted(o) /\ pc'[o] = pc[o]
      BY <2>8, AtomsAssumption DEF Ready, OInside, Admitted, OxygenPlaces
    <3> QED BY <3>1, <3>2, <3>3, LinesKept
  <2>9. CASE Collect(a) \/ LastMolecule(a) \/ Leave(a)
    BY <1>0, <2>9, AtomsAssumption, LinesKept DEF Collect, LastMolecule, Leave, Wait, Post, outVars,
       OInside, HInside, Untold, Admitted, OxygenPlaces, HydrogenPlaces
  <2> QED BY <1>7, <2>1, <2>2, <2>3, <2>4, <2>5, <2>6, <2>7, <2>8, <2>9 DEF BondStep
<1>8. CASE UNCHANGED vars
  BY <1>8, LinesKept DEF vars, OInside, HInside, Untold, Admitted
<1> QED BY <1>1, <1>2, <1>3, <1>4, <1>5, <1>6, <1>7, <1>8 DEF Next, Main, Atom

\* An atom's two lines name one molecule, and every molecule has at most one
\* oxygen and two hydrogens, whatever is torn, killed or not forked.
THEOREM LinesNameMolecules == Spec => []MoleculeLines
<1>1. CountInv => MoleculeLines
  <2> SUFFICES ASSUME CountInv, NEW a \in Atoms
               PROVE /\ created[a] # 0 => created[a] = creating[a]
                     /\ creating[a] # 0 =>
                          /\ Cardinality({o \in Oxygens : creating[o] = creating[a]}) <= 1
                          /\ Cardinality({h \in Hydrogens : creating[h] = creating[a]}) <= 2
    BY DEF MoleculeLines
  <2> USE DEF CountInv, LineInv
  <2>1. created[a] # 0 => created[a] = creating[a]
    BY DEF AtomLines
  <2>2. creating[a] \in Nat
    BY DEF BaseInv, MoleculeInv, PlaceInv, TypeInv, TypeOK
  <2>3. ASSUME creating[a] # 0
        PROVE  Cardinality({o \in Oxygens : creating[o] = creating[a]}) <= 1
    <3> DEFINE S == {o \in Oxygens : creating[o] = creating[a]}
    <3>1. CASE S = {}
      BY <3>1, FS_EmptySet
    <3>2. ASSUME NEW q \in S PROVE Cardinality(S) <= 1
      <4>1. S = {q}
        BY <2>3 DEF OxygenLines
      <4> QED BY <4>1, FS_Singleton
    <3> QED BY <3>1, <3>2
  <2>4. creating[a] # 0 => Cardinality(Told(creating, creating[a])) <= 2
    BY <2>2 DEF HydrogenLines
  <2> QED BY <2>1, <2>3, <2>4 DEF Told
<1> QED BY <1>1, CountInit, LinesStep, PTL DEF Spec

-----------------------------------------------------------------------------
(* Line numbers.  Until a surplus atom is let go, num belongs to the atom  *)
(* that holds semap_fin, and differs from the lines only inside its print. *)

Exact ==
  crashes = 0 /\ StopClosed =>
    /\ (\A a \in Atoms : ~Under(a, "semap_fin")) => shm.num = outLines
    /\ \A a \in Atoms : Under(a, "semap_fin") =>
         /\ step[a] \in {"load", "store", "post"} => shm.num = outLines
         /\ step[a] = "store" => tmp[a] = outLines
         /\ step[a] = "line" => shm.num = outLines + 1

NumberInv == StopInv /\ Lock("semap_fin") /\ Exact

\* Only a kill brings back the state in which no surplus atom has been let go.
LEMMA StopStaysOpen ==
  ASSUME StopInv, [Next]_vars, crashes' = 0, StopClosed'
  PROVE  crashes = 0 /\ StopClosed
<1> USE DEF StopInv, PlaceInv, TypeInv, TypeOK, StepIdle, Goto, At, Semaphores, Under, Printing,
        Guard, Prints, StopClosed
<1>1. CASE MainStart
  BY <1>1 DEF MainStart, StopSchedule
<1>2. CASE MainReap \/ CrashAndRerun
  BY <1>2 DEF MainReap, CrashAndRerun, atomVars
<1>3. ASSUME NEW a \in Atoms, Fork(a) \/ ForkFails(a) PROVE crashes = 0 /\ StopClosed
  BY <1>3 DEF Fork, ForkFails, ForkOrder
<1>4. ASSUME NEW a \in Atoms, PrintStep(a) PROVE crashes = 0 /\ StopClosed
  <2>1. CASE PrintWait(a) \/ PrintLoad(a) \/ PrintStore(a) \/ PrintLine(a)
    BY <2>1 DEF PrintWait, Wait, PrintLoad, PrintStore, PrintLine
  <2>2. CASE PrintPost(a)
    BY <2>2 DEF PrintPost, Post
  <2> QED BY <1>4, <2>1, <2>2 DEF PrintStep
<1>5. ASSUME NEW a \in Atoms, CountStep(a) PROVE crashes = 0 /\ StopClosed
  BY <1>5 DEF CountStep, CountLoad, CountStore, Classify
<1>6. ASSUME NEW a \in Atoms, BondStep(a) PROVE crashes = 0 /\ StopClosed
  BY <1>6 DEF BondStep, EnterH, EnterO, NumberMolecule, Admit, JoinLoad, JoinStore,
     JoinTest, Release, PassBarrier, PartLoad, PartStore,
     Ready, Collect, LastMolecule, Leave, Wait, Post
<1>7. CASE UNCHANGED vars
  BY <1>7 DEF vars
<1> QED BY <1>1, <1>2, <1>3, <1>4, <1>5, <1>6, <1>7 DEF Next, Main, Atom

\* No line, no number.
LEMMA NumberInit == Init => NumberInv
<1>1. Init => Exact
  BY DEF Init, Exact, ShmZero, Under, Printing, Prints, Atoms
<1> QED BY <1>1, StopInit, LocksInit DEF NumberInv

\* Every step keeps the numbers of the lines exact: outLines counts them under semap_fin.
LEMMA NumberStep == NumberInv /\ [Next]_vars => NumberInv'
<1> SUFFICES ASSUME NumberInv, [Next]_vars, crashes' = 0, StopClosed' PROVE Exact'
  BY StopStep, FinLockStep DEF NumberInv, Exact, StopInv
<1>0. crashes = 0 /\ StopClosed
  BY StopStaysOpen DEF NumberInv
<1> USE DEF NumberInv, StopInv, PlaceInv, TypeInv, TypeOK, StepIdle, Goto, At, Semaphores, Lock,
        Under, Printing, Guard, Prints, Exact
<1>1. CASE MainStart \/ MainReap \/ CrashAndRerun
  BY <1>0, <1>1 DEF MainStart, MainReap, CrashAndRerun, atomVars, outVars, Post
<1>2. ASSUME NEW a \in Atoms, Fork(a) \/ ForkFails(a) PROVE Exact'
  BY <1>0, <1>2 DEF Fork, ForkFails, ForkOrder, outVars
<1>3. ASSUME NEW a \in Atoms, PrintStep(a) PROVE Exact'
  <2>0. ~Under(a, "sem__stop")
    BY <1>0 DEF StopClosed
  <2>1. CASE PrintWait(a)
    <3>1. Guard(pc[a]) = "semap_fin"
      BY <1>0, <2>1 DEF PrintWait, Wait, StopClosed
    <3>2. \A b \in Atoms : ~Under(b, "semap_fin")
      BY <2>1, <3>1 DEF PrintWait, Wait
    <3> QED BY <1>0, <2>1, <3>1, <3>2 DEF PrintWait, outVars
  <2>2. CASE PrintLoad(a)
    BY <1>0, <2>0, <2>2 DEF PrintLoad, outVars
  <2>3. CASE PrintStore(a)
    BY <1>0, <2>0, <2>3 DEF PrintStore, outVars
  <2>5. CASE PrintLine(a)
    BY <1>0, <2>0, <2>5 DEF PrintLine
  <2>6. CASE PrintPost(a)
    <3>1. /\ Under(a, "semap_fin") /\ step[a] = "post"
          /\ step' = [step EXCEPT ![a] = "wait"]
          /\ \A b \in Atoms \ {a} : pc'[b] = pc[b]
          /\ UNCHANGED <<shm, outLines>>
      BY <2>0, <2>6 DEF PrintPost, outVars
    <3>2. \A b \in Atoms : ~Under(b, "semap_fin")'
      BY <3>1
    <3> QED BY <1>0, <3>1, <3>2
  <2> QED BY <1>3, <2>1, <2>2, <2>3, <2>5, <2>6 DEF PrintStep
<1>4. ASSUME NEW a \in Atoms, CountStep(a) PROVE Exact'
  BY <1>0, <1>4 DEF CountStep, CountLoad, CountStore, Classify, Counter, outVars
<1>5. ASSUME NEW a \in Atoms, BondStep(a) PROVE Exact'
  <2>1. CASE EnterH(a) \/ EnterO(a) \/ NumberMolecule(a) \/ Admit(a)
    BY <1>0, <2>1 DEF EnterH, EnterO, NumberMolecule, Admit, outVars
  <2>2. CASE JoinLoad(a) \/ JoinStore(a) \/ JoinTest(a)
    BY <1>0, <2>2 DEF JoinLoad, JoinStore, JoinTest, outVars
  <2>3. CASE Release(a) \/ PassBarrier(a)
    BY <1>0, <2>3 DEF Release, PassBarrier, outVars
  <2>4. CASE PartLoad(a) \/ PartStore(a) \/ Ready(a)
    BY <1>0, <2>4 DEF PartLoad, PartStore, Ready, outVars
  <2>5. CASE Collect(a) \/ LastMolecule(a) \/ Leave(a)
    BY <1>0, <2>5 DEF Collect, LastMolecule, Leave, outVars
  <2> QED BY <1>5, <2>1, <2>2, <2>3, <2>4, <2>5 DEF BondStep
<1>6. CASE UNCHANGED vars
  BY <1>0, <1>6 DEF vars, outVars
<1> QED BY <1>1, <1>2, <1>3, <1>4, <1>5, <1>6 DEF Next, Main, Atom

\* In a run on a fresh segment num is the number of lines whenever nobody
\* prints and sem__stop is closed, whatever becomes of the other counters.
THEOREM NumbersExact == Spec => []LineNumbers
<1>1. NumberInv => LineNumbers
  BY DEF NumberInv, Exact, LineNumbers, StopClosed, Under
<1> QED BY <1>1, NumberInit, NumberStep, PTL DEF Spec

-----------------------------------------------------------------------------
(* Surplus atoms.  Every number that was handed out has been printed by    *)
(* one oxygen and two hydrogens, up to the molecule that is being bonded.  *)

Made(S) == {a \in S : created[a] # 0}
Pending == {o \in Oxygens : /\ pc[o] \in {"creating", "admit", "barrier", "created"}
                            /\ created[o] = 0}

Tally ==
  /\ Pending = {} => Cardinality(Made(Oxygens)) = shm.IDMolecule
  /\ Pending # {} => Cardinality(Made(Oxygens)) + 1 = shm.IDMolecule
  /\ Leader = {} => Cardinality(Made(Hydrogens)) = 2 * shm.IDMolecule
  /\ Leader # {} => Cardinality(Made(Hydrogens)) + 2
                      = 2 * shm.IDMolecule + Cardinality(Told(created, shm.IDMolecule))

LetGo ==
  ~StopClosed => /\ Cardinality(Made(Oxygens)) >= Count_O_Atom
                 /\ Cardinality(Made(Hydrogens)) >= Count_H_Atom

SurplusInv == CountInv /\ (crashes = 0 => Tally /\ LetGo)

\* Each molecule that can be made takes an oxygen and two hydrogens.
LEMMA TwoHydrogensEach == Count_H_Atom = 2 * Count_O_Atom
BY CountsAreNat DEF Count_H_Atom, Count_O_Atom

\* The atoms that have announced "created" can be counted.
LEMMA MadeFinite ==
  /\ IsFiniteSet(Made(Oxygens)) /\ Cardinality(Made(Oxygens)) \in Nat
  /\ IsFiniteSet(Made(Hydrogens)) /\ Cardinality(Made(Hydrogens)) \in Nat
<1>1. Made(Oxygens) \subseteq Oxygens /\ Made(Hydrogens) \subseteq Hydrogens
  BY DEF Made
<1> QED BY <1>1, AtomsAssumption, FS_Subset, FS_CardinalityType

\* An oxygen that is about to leave has seen both of its hydrogens off.
LEMMA BothParted ==
  ASSUME CountInv, NEW o \in Oxygens, pc[o] \in {"last", "leave"}
  PROVE  HInside = {} /\ Cardinality(Told(created, shm.IDMolecule)) = 2
<1> USE DEF CountInv, LineInv, BaseInv, MoleculeInv, PlaceInv, TypeInv, TypeOK, Semaphores
<1>1. o \in OInside /\ Owed(o) = 0 /\ Admitted(o) = 2 /\ pc[o] # "number"
  BY DEF OInside, OxygenPlaces, Owed, Admitted
<1>2. Cardinality(HInside) = 0 /\ sem["semap_H"] = 0
  BY <1>1, InsideFinite DEF OneMoleculeAtATime
<1>3. HInside = {}
  BY <1>2, InsideFinite, FS_EmptySet
<1>4. Cardinality(Untold(created)) = 0
  BY <1>3, FS_EmptySet DEF Untold
<1>5. sem["semap_H"] + Cardinality(Untold(created)) + Cardinality(Told(created, shm.IDMolecule)) = 2
  BY <1>1 DEF HydrogenLines, Accounted
<1> QED BY <1>2, <1>3, <1>4, <1>5, ToldFinite

\* sem__stop is opened by main with nothing to bond, or with the last number.
LEMMA StopOpens ==
  ASSUME StopInv, [Next]_vars, StopClosed, ~StopClosed'
  PROVE  \/ Count_O_Atom = 0 /\ Count_H_Atom = 0
         \/ \E a \in Atoms : LastMolecule(a) /\ Count_O_Atom = shm.IDMolecule
<1> USE DEF StopInv, PlaceInv, TypeInv, TypeOK, StepIdle, Goto, At, Semaphores, Under, Printing,
        Guard, Prints, StopClosed
<1> DEFINE Goal == \/ Count_O_Atom = 0 /\ Count_H_Atom = 0
                   \/ \E a \in Atoms : LastMolecule(a) /\ Count_O_Atom = shm.IDMolecule
<1>1. CASE MainStart
  BY <1>1 DEF MainStart, atomVars
<1>2. CASE MainReap \/ CrashAndRerun
  BY <1>2 DEF MainReap, CrashAndRerun, atomVars, SemInit
<1>3. ASSUME NEW a \in Atoms, Fork(a) \/ ForkFails(a) PROVE Goal
  BY <1>3 DEF Fork, ForkFails, ForkOrder
<1>4. ASSUME NEW a \in Atoms, PrintStep(a) PROVE Goal
  <2>1. CASE PrintWait(a) \/ PrintLoad(a) \/ PrintStore(a) \/ PrintLine(a)
    BY <2>1 DEF PrintWait, Wait, PrintLoad, PrintStore, PrintLine
  <2>2. CASE PrintPost(a)
    BY <2>2 DEF PrintPost, Post
  <2> QED BY <1>4, <2>1, <2>2 DEF PrintStep
<1>5. ASSUME NEW a \in Atoms, CountStep(a) PROVE Goal
  BY <1>5 DEF CountStep, CountLoad, CountStore, Classify
<1>6. ASSUME NEW a \in Atoms, BondStep(a) PROVE Goal
  <2>1. CASE LastMolecule(a)
    BY <2>1 DEF LastMolecule
  <2>2. CASE ~LastMolecule(a)
    BY <1>6, <2>2 DEF BondStep, EnterH, EnterO, NumberMolecule, Admit, JoinLoad, JoinStore,
       JoinTest, Release, PassBarrier, PartLoad, PartStore,
       Ready, Collect, Leave, Wait, Post
  <2> QED BY <2>1, <2>2
<1>7. CASE UNCHANGED vars
  BY <1>7 DEF vars
<1> QED BY <1>1, <1>2, <1>3, <1>4, <1>5, <1>6, <1>7 DEF Next, Main, Atom

\* The tally depends on these four only.
LEMMA TallyKept ==
  ASSUME Tally, created' = created, shm'.IDMolecule = shm.IDMolecule,
         Pending' = Pending, Leader' = Leader
  PROVE  Tally'
BY DEF Tally, Made, Told

\* In a run of the program the tally is kept and no announcement is withdrawn.
LEMMA TallyStep ==
  ASSUME CountInv, Tally, [Next]_vars, crashes' = crashes
  PROVE  Tally' /\ \A a \in Atoms : created[a] # 0 => created'[a] # 0
<1> DEFINE Grows == \A a \in Atoms : created[a] # 0 => created'[a] # 0
<1>0. BaseInv /\ BaseInv' /\ PlaceInv /\ PlaceInv' /\ LineInv /\ LineInv'
  BY LineStep DEF LineInv, CountInv, BaseInv, MoleculeInv
<1> USE DEF PlaceInv, TypeInv, TypeOK, LeftOK, Kinds, Goto, At, Semaphores, Atoms
<1>1. CASE MainStart \/ MainReap
  BY <1>1, TallyKept DEF MainStart, MainReap, atomVars, outVars, Pending, Leader
<1>2. CASE CrashAndRerun
  BY <1>0, <1>2 DEF CrashAndRerun
<1>3. ASSUME NEW a \in Atoms, Fork(a) \/ ForkFails(a) PROVE Tally' /\ Grows
  BY <1>0, <1>3, TallyKept DEF Fork, ForkFails, ForkOrder, outVars, Pending, Leader, OxygenPlaces
<1>4. ASSUME NEW a \in Atoms, PrintStep(a) PROVE Tally' /\ Grows
  <2>1. CASE PrintWait(a) \/ PrintLoad(a) \/ PrintStore(a)
    BY <1>0, <2>1, TallyKept DEF PrintWait, PrintLoad, PrintStore, outVars, Pending, Leader
  <2>2. CASE PrintPost(a)
    <3>1. pc[a] \in Prints /\ pc' = [pc EXCEPT ![a] = AfterPrint(a)] /\ UNCHANGED <<shm, outVars>>
      BY <2>2 DEF PrintPost, Printing
    <3>2. pc[a] = "created" => created[a] # 0
      BY <1>0, <2>2 DEF PrintPost, Printing, LineInv, AtomLines, Uncreated, Unannounced
    <3>3. Pending' = Pending
      BY <1>0, <3>1, <3>2, AtomsAssumption DEF AfterPrint, Prints, outVars, Pending
    <3>4. Leader' = Leader
      BY <1>0, <3>1, AtomsAssumption DEF AfterPrint, Prints, Leader, OxygenPlaces
    <3> QED BY <3>1, <3>3, <3>4, TallyKept DEF outVars
  <2>3. CASE PrintLine(a)
    <3>1. CASE pc[a] # "created"
      BY <2>3, <3>1, TallyKept DEF PrintLine, Pending, Leader
    <3>2. CASE pc[a] = "created"
      <4> DEFINE n == shm.IDMolecule
      <4>1. /\ created[a] = 0 /\ n > 0 /\ n \in Nat /\ created' = [created EXCEPT ![a] = n]
            /\ UNCHANGED <<shm, pc>>
        BY <1>0, <2>3, <3>2 DEF PrintLine, Printing, LineInv, AtomLines, Uncreated, Unannounced
      <4>2. Grows
        BY <1>0, <4>1
      <4>3. CASE a \in Oxygens
        <5>1. Pending = {a} /\ Pending' = {}
          BY <1>0, <3>2, <4>1, <4>3 DEF Pending, BaseInv, StopInv, OxygenLock, OxygenPlaces
        <5>2. Made(Oxygens)' = Made(Oxygens) \cup {a} /\ a \notin Made(Oxygens)
          BY <1>0, <4>1, <4>3 DEF Made
        <5>3. Cardinality(Made(Oxygens))' = Cardinality(Made(Oxygens)) + 1
          BY <5>2, MadeFinite, FS_AddElement
        <5>4. Made(Hydrogens)' = Made(Hydrogens) /\ Told(created, n)' = Told(created, n)
          BY <4>1, <4>3, AtomsAssumption DEF Made, Told
        <5>5. Leader' = Leader
          BY <4>1 DEF Leader
        <5> QED BY <4>1, <4>2, <5>1, <5>3, <5>4, <5>5 DEF Tally
      <4>4. CASE a \in Hydrogens
        <5>1. Pending' = Pending /\ Leader' = Leader
          BY <4>1, <4>4, AtomsAssumption DEF Pending, Leader
        <5>2. /\ Made(Hydrogens)' = Made(Hydrogens) \cup {a} /\ a \notin Made(Hydrogens)
              /\ Told(created, n)' = Told(created, n) \cup {a} /\ a \notin Told(created, n)
          BY <1>0, <4>1, <4>4 DEF Made, Told
        <5>3. /\ Cardinality(Made(Hydrogens))' = Cardinality(Made(Hydrogens)) + 1
              /\ Cardinality(Told(created, n))' = Cardinality(Told(created, n)) + 1
          BY <5>2, MadeFinite, ToldFinite, FS_AddElement
        <5>4. Made(Oxygens)' = Made(Oxygens)
          BY <4>1, <4>4, AtomsAssumption DEF Made
        <5>5. Leader # {}
          BY <1>0, <3>2, <4>4, HydrogenNumbered DEF HInside, HydrogenPlaces, Leader, OxygenPlaces
        <5>6. /\ Cardinality(Made(Hydrogens)) \in Nat
              /\ Cardinality(Told(created, n)) \in Nat /\ n' = n
          BY <4>1, MadeFinite, ToldFinite
        <5>7. /\ Cardinality(Made(Hydrogens)) + 2 = 2 * n + Cardinality(Told(created, n))
              /\ Pending = {} => Cardinality(Made(Oxygens)) = n
              /\ Pending # {} => Cardinality(Made(Oxygens)) + 1 = n
          BY <5>5 DEF Tally
        <5> SUFFICES /\ Cardinality(Made(Hydrogens))' + 2 = 2 * n + Cardinality(Told(created, n))'
                     /\ Pending = {} => Cardinality(Made(Oxygens)) = n
                     /\ Pending # {} => Cardinality(Made(Oxygens)) + 1 = n
          BY <4>1, <4>2, <5>1, <5>4, <5>5 DEF Tally
        <5> HIDE DEF n
        <5> QED BY <4>1, <5>3, <5>6, <5>7
      <4> QED BY <4>3, <4>4
    <3> QED BY <3>1, <3>2
  <2> QED BY <1>4, <2>1, <2>2, <2>3 DEF PrintStep
<1>5. ASSUME NEW a \in Atoms, CountStep(a) PROVE Tally' /\ Grows
  BY <1>0, <1>5, TallyKept DEF CountStep, CountLoad, CountStore, Classify, Counter,
     outVars, Pending, Leader, OxygenPlaces
<1>6. ASSUME NEW a \in Atoms, BondStep(a) PROVE Tally' /\ Grows
  <2>1. CASE EnterH(a) \/ EnterO(a) \/ Admit(a)
    BY <1>0, <2>1, TallyKept, AtomsAssumption DEF EnterH, EnterO, Admit, outVars, Pending, Leader, OxygenPlaces
  <2>2. CASE NumberMolecule(a)
    <3>1. a \in Oxygens /\ \A o \in OInside : o = a
      BY <1>0, <2>2, NumberIdle
    <3>2. /\ shm'.IDMolecule = shm.IDMolecule + 1 /\ created' = created
          /\ pc[a] = "number" /\ pc' = [pc EXCEPT ![a] = "creating"] /\ created[a] = 0
      BY <1>0, <2>2, <3>1 DEF NumberMolecule, outVars, LineInv, AtomLines, Uncreated, Unannounced
    <3>3. Pending = {} /\ Leader = {} /\ Pending' = {a} /\ Leader' = {a}
      BY <1>0, <3>1, <3>2 DEF Pending, Leader, OInside, OxygenPlaces
    <3>4. Made(Oxygens)' = Made(Oxygens) /\ Made(Hydrogens)' = Made(Hydrogens)
      BY <3>2 DEF Made
    <3>5. Told(created, shm.IDMolecule)' = {}
      BY <1>0, <3>2 DEF Told, LineInv, AtomLines
    <3>6. /\ Cardinality(Made(Oxygens)) = shm.IDMolecule
          /\ Cardinality(Made(Hydrogens)) = 2 * shm.IDMolecule
      BY <3>3 DEF Tally
    <3>7. /\ Pending' # {} /\ Leader' # {} /\ shm.IDMolecule \in Nat
          /\ Cardinality(Told(created, shm.IDMolecule)') = 0
      BY <1>0, <3>3, <3>5, FS_EmptySet
    <3>8. Tally'
      BY <3>2, <3>4, <3>6, <3>7 DEF Tally
    <3> QED BY <3>2, <3>8
  <2>3. CASE JoinLoad(a) \/ JoinStore(a) \/ JoinTest(a)
    BY <1>0, <2>3, TallyKept, AtomsAssumption DEF JoinLoad, JoinStore, JoinTest, outVars,
       Pending, Leader, OxygenPlaces
  <2>4. CASE Release(a) \/ PassBarrier(a)
    BY <1>0, <2>4, TallyKept, AtomsAssumption DEF Release, PassBarrier, outVars, Pending, Leader, OxygenPlaces
  <2>5. CASE PartLoad(a) \/ PartStore(a) \/ Ready(a)
    BY <1>0, <2>5, TallyKept, AtomsAssumption DEF PartLoad, PartStore, Ready, outVars,
       Pending, Leader, OxygenPlaces
  <2>6. CASE Collect(a) \/ LastMolecule(a)
    BY <1>0, <2>6, TallyKept, AtomsAssumption DEF Collect, LastMolecule, outVars, Pending, Leader, OxygenPlaces
  <2>7. CASE Leave(a)
    <3>1. /\ a \in Oxygens /\ pc[a] = "leave" /\ pc' = [pc EXCEPT ![a] = "gone"]
          /\ shm' = shm /\ created' = created
      BY <1>0, <2>7 DEF Leave, outVars
    <3>2. Cardinality(Told(created, shm.IDMolecule)) = 2
      BY <3>1, BothParted
    <3>3. Pending' = Pending /\ Leader = {a} /\ Leader' = {}
      BY <1>0, <3>1 DEF Pending, Leader, OxygenPlaces, BaseInv, StopInv, OxygenLock
    <3>4. Made(Oxygens)' = Made(Oxygens) /\ Made(Hydrogens)' = Made(Hydrogens)
      BY <3>1 DEF Made
    <3> QED BY <1>0, <3>1, <3>2, <3>3, <3>4, MadeFinite DEF Tally
  <2> QED BY <1>6, <2>1, <2>2, <2>3, <2>4, <2>5, <2>6, <2>7 DEF BondStep
<1>7. CASE UNCHANGED vars
  BY <1>7, TallyKept DEF vars, Pending, Leader
<1> QED BY <1>1, <1>2, <1>3, <1>4, <1>5, <1>6, <1>7 DEF Next, Main, Atom

\* Kills are only ever added.
LEMMA CrashesCount ==
  ASSUME TypeOK, [Next]_vars, crashes' = 0
  PROVE  crashes = 0
BY DEF TypeOK, Next, vars, Main, Atom, MainStart, MainReap, CrashAndRerun, Fork, ForkFails,
   PrintStep, PrintWait, PrintLoad, PrintStore, PrintLine, PrintPost,
   CountStep, CountLoad, CountStore, Classify, BondStep, EnterH, EnterO,
   NumberMolecule, Admit, JoinLoad, JoinStore, JoinTest, Release, PassBarrier,
   PartLoad, PartStore, Ready, Collect, LastMolecule, Leave

\* Nobody is surplus and nothing is made.
LEMMA SurplusInit == Init => SurplusInv
<1> SUFFICES ASSUME Init PROVE Tally /\ LetGo
  BY CountInit DEF SurplusInv
<1>1. Made(Oxygens) = {} /\ Made(Hydrogens) = {} /\ Pending = {} /\ Leader = {}
  BY DEF Init, Made, Pending, Leader, OxygenPlaces, Atoms
<1>2. StopClosed
  BY DEF Init, StopClosed, Under, Printing, Prints, SemInit, Semaphores, Atoms
<1> QED BY <1>1, <1>2, FS_EmptySet DEF Init, ShmZero, Tally, LetGo

\* Every step lets surplus atoms go only after the last molecule.
LEMMA SurplusStep == SurplusInv /\ [Next]_vars => SurplusInv'
<1> SUFFICES ASSUME SurplusInv, [Next]_vars, crashes' = 0 PROVE (Tally /\ LetGo)'
  BY LinesStep DEF SurplusInv
<1>1. StopInv /\ TypeOK /\ CountInv
  BY DEF SurplusInv, CountInv, LineInv, BaseInv, StopInv, PlaceInv, TypeInv
<1>2. crashes = 0 /\ Tally /\ LetGo
  BY <1>1, CrashesCount DEF SurplusInv
<1>3. Tally' /\ \A a \in Atoms : created[a] # 0 => created'[a] # 0
  BY <1>1, <1>2, TallyStep
<1>4. /\ Cardinality(Made(Oxygens)') >= Cardinality(Made(Oxygens))
      /\ Cardinality(Made(Hydrogens)') >= Cardinality(Made(Hydrogens))
  <2>1. Made(Oxygens) \subseteq Made(Oxygens)' /\ Made(Hydrogens) \subseteq Made(Hydrogens)'
    BY <1>3 DEF Made, Atoms
  <2>2. Made(Oxygens)' \subseteq Oxygens /\ Made(Hydrogens)' \subseteq Hydrogens
    BY DEF Made
  <2> QED BY <2>1, <2>2, AtomsAssumption, FS_Subset
<1>5. /\ Cardinality(Made(Oxygens))' \in Nat /\ Cardinality(Made(Oxygens)) \in Nat
      /\ Cardinality(Made(Hydrogens))' \in Nat /\ Cardinality(Made(Hydrogens)) \in Nat
  <2>1. /\ Made(Oxygens)' \subseteq Oxygens /\ Made(Hydrogens)' \subseteq Hydrogens
        /\ Made(Oxygens) \subseteq Oxygens /\ Made(Hydrogens) \subseteq Hydrogens
    BY DEF Made
  <2> QED BY <2>1, AtomsAssumption, FS_Subset, FS_CardinalityType
<1>6. ASSUME ~StopClosed'
      PROVE  /\ Cardinality(Made(Oxygens)) >= Count_O_Atom
             /\ Cardinality(Made(Hydrogens)) >= Count_H_Atom
  <2>1. CASE ~StopClosed
    BY <1>2, <2>1 DEF LetGo
  <2>2. CASE Count_O_Atom = 0 /\ Count_H_Atom = 0
    BY <1>5, <2>2
  <2>3. ASSUME NEW a \in Atoms, LastMolecule(a), Count_O_Atom = shm.IDMolecule
        PROVE  /\ Cardinality(Made(Oxygens)) >= Count_O_Atom
               /\ Cardinality(Made(Hydrogens)) >= Count_H_Atom
    <3>1. a \in Oxygens /\ pc[a] = "last"
      BY <1>1, <2>3 DEF LastMolecule, At, StopInv, PlaceInv, Kinds, Atoms
    <3>2. Cardinality(Told(created, shm.IDMolecule)) = 2
      BY <1>1, <3>1, BothParted
    <3>3. Pending = {} /\ Leader # {}
      BY <1>1, <3>1 DEF Pending, Leader, OxygenPlaces, StopInv, OxygenLock
    <3> QED BY <1>2, <1>5, <2>3, <3>2, <3>3, TwoHydrogensEach, CountsAreNat DEF Tally
  <2> QED BY <1>1, <1>6, <2>1, <2>2, <2>3, StopOpens
<1> QED BY <1>3, <1>4, <1>5, <1>6, CountsAreNat DEF LetGo

\* On a fresh segment a surplus atom prints "not enough" only after every
\* molecule the arguments allow has been created.
THEOREM SurplusIsLast == Spec => []SurplusLast
<1>1. SurplusInv => SurplusLast
  <2> SUFFICES ASSUME SurplusInv, NEW a \in Atoms, crashes = 0, At(a, "surplus"), Printing(a)
               PROVE  LetGo /\ ~StopClosed
    BY DEF SurplusLast, LetGo, Made
  <2> QED BY DEF SurplusInv, StopClosed, Under, At, Guard
<1> QED BY <1>1, SurplusInit, SurplusStep, PTL DEF Spec

-----------------------------------------------------------------------------
(* The barrier, where the counter's updates are undisturbed and an unsigned *)
(* int counts past two.  It is shut until the second hydrogen has tested   *)
(* the counter, then opened three times by that hydrogen, and passed by    *)
(* the three atoms of one molecule.                                        *)

Team == Told(creating, shm.IDMolecule)
Unjoined == {h \in Team : pc[h] \in {"creating", "join", "joinStore", "joinTest"}}
Testing == {h \in Hydrogens : pc[h] = "joinTest"}
Counting == {h \in Hydrogens :
               pc[h] \in {"joinTest", "release", "barrier", "created", "part", "partStore"}}
Releasing == {h \in Hydrogens : pc[h] = "release"}
Passed == {o \in Oxygens : pc[o] \in {"created", "collect", "last", "leave"}}
            \cup {h \in Team : pc[h] \in {"created", "part", "partStore", "ready", "gone"}}

Complete ==
  /\ Cardinality(Team) = 2 /\ Unjoined = {}
  /\ \A o \in Leader : creating[o] = shm.IDMolecule

Shut ==
  /\ sem["sem_creating"] = 0 /\ Passed = {} /\ Releasing = {}
  /\ Cardinality(Counting \ Testing) <= 1
Opening ==
  /\ Complete
  /\ \E h \in Hydrogens :
       Releasing = {h} /\ sem["sem_creating"] + Cardinality(Passed) = 3 - left[h]
Opened == Complete /\ Releasing = {} /\ sem["sem_creating"] + Cardinality(Passed) = 3

Gate ==
  /\ shm.NumOfMolecule_H = Cardinality(Counting)
  /\ \A g, h \in Testing : g = h
  /\ Leader = {} => sem["sem_creating"] = 0
  /\ Leader # {} => Shut \/ Opening \/ Opened

ThreeAtoms ==
  \A a \in Atoms : created[a] # 0 =>
    /\ Cardinality({o \in Oxygens : creating[o] = created[a]}) = 1
    /\ Cardinality(Told(creating, created[a])) = 2

BarrierInv == CountInv /\ (crashes = 0 => Gate /\ ThreeAtoms)

\* The sets of hydrogens at the barrier are finite.
LEMMA GateFinite ==
  /\ IsFiniteSet(Team) /\ Cardinality(Team) \in Nat
  /\ IsFiniteSet(Passed) /\ Cardinality(Passed) \in Nat
  /\ IsFiniteSet(Counting) /\ Cardinality(Counting) \in Nat
<1>1. /\ Team \subseteq Hydrogens /\ Counting \subseteq Hydrogens
      /\ Passed \subseteq Oxygens \cup Hydrogens
  BY DEF Team, Told, Counting, Passed
<1>2. IsFiniteSet(Oxygens \cup Hydrogens)
  BY AtomsAssumption, FS_Union
<1> QED BY <1>1, <1>2, AtomsAssumption, FS_Subset, FS_CardinalityType

\* The molecule of the oxygen inside has a number.
LEMMA LeaderNumbered ==
  ASSUME LineInv, Leader # {}
  PROVE  shm.IDMolecule > 0
BY DEF LineInv, BaseInv, StopInv, StopSchedule, AtomLines, Unannounced, Leader, OxygenPlaces, Atoms

\* A step that moves nobody across the barrier.
LEMMA GateKept ==
  ASSUME Gate, Leader' = Leader, Counting' = Counting, Releasing' = Releasing,
         Testing' = Testing,
         Leader # {} => Team' = Team /\ Unjoined' = Unjoined /\ Passed' = Passed,
         sem'["sem_creating"] = sem["sem_creating"],
         shm'.NumOfMolecule_H = shm.NumOfMolecule_H,
         shm'.IDMolecule = shm.IDMolecule,
         \A o \in Leader : creating'[o] = creating[o],
         \A h \in Releasing : left'[h] = left[h]
  PROVE  Gate'
BY DEF Gate, Shut, Opening, Opened, Complete

\* A complete molecule has no hydrogen left that has not announced itself.
LEMMA NoneSilent ==
  ASSUME CountInv, Complete, NEW a \in Atoms, pc[a] = "creating"
  PROVE  creating[a] # 0
<1> USE DEF CountInv, LineInv, BaseInv, MoleculeInv, PlaceInv, TypeInv, TypeOK, LeftOK, Semaphores
<1>1. CASE a \in Oxygens
  BY <1>1 DEF Complete, Leader, OxygenPlaces, StopInv, StopSchedule
<1>2. CASE a \in Hydrogens
  <2> SUFFICES ASSUME creating[a] = 0 PROVE FALSE
    OBVIOUS
  <2>1. a \in Untold(creating) /\ a \in HInside
    BY <1>2 DEF Untold, HInside, HydrogenPlaces
  <2>2. PICK o \in OInside : pc[o] # "number"
    BY <2>1, HydrogenNumbered DEF OInside, OxygenPlaces
  <2>3. sem["semap_H"] + Cardinality(Untold(creating)) + 2 = Admitted(o)
    BY <2>2 DEF HydrogenLines, Accounted, Complete, Team
  <2>4. Admitted(o) <= 2 /\ Admitted(o) \in Nat
    BY <2>2 DEF Admitted, OInside, Atoms
  <2>5. Cardinality(Untold(creating)) # 0
    BY <2>1, ToldFinite, FS_EmptySet
  <2>6. Cardinality(Untold(creating)) \in Nat /\ sem["semap_H"] \in Nat
    BY ToldFinite
  <2> QED BY <2>3, <2>4, <2>5, <2>6
<1> QED BY <1>1, <1>2 DEF Atoms

\* The hydrogens that have joined have announced themselves.
LEMMA CountingTeam ==
  ASSUME CountInv
  PROVE  /\ Counting \subseteq Team /\ Releasing \subseteq Counting
         /\ \A h \in Hydrogens : pc[h] \in {"join", "joinStore", "ready"} => h \in Team
         /\ Testing \subseteq Counting
         /\ \A h \in Hydrogens : pc[h] \in {"join", "joinStore", "joinTest"} => h \in Unjoined
BY DEF CountInv, LineInv, AtomLines, Unannounced, Counting, Team, Told, Releasing, Testing,
       Unjoined, Atoms

\* In one run, while no update is disturbed, every step keeps the books of the barrier.
LEMMA GateStep ==
  ASSUME UintSize > 2, BarrierInv, Gate, Undisturbed, Undisturbed',
         [Next]_vars, crashes' = crashes
  PROVE  Gate'
<1>0. /\ BaseInv /\ BaseInv' /\ PlaceInv /\ PlaceInv' /\ LineInv /\ LineInv'
      /\ CountInv /\ CountInv'
  BY LinesStep DEF LineInv, CountInv, BaseInv, MoleculeInv, BarrierInv
<1>L. Leader # {} => shm.IDMolecule > 0
  BY <1>0, LeaderNumbered
<1>C. Counting \subseteq Team /\ Releasing \subseteq Counting /\ Testing \subseteq Counting
  BY <1>0, CountingTeam
<1> USE DEF PlaceInv, TypeInv, TypeOK, LeftOK, Kinds, Goto, At, Semaphores, Atoms
<1>1. CASE MainStart \/ MainReap
  <2>1. /\ UNCHANGED <<shm, pc, left, creating>> /\ sem'["sem_creating"] = sem["sem_creating"]
    BY <1>0, <1>1 DEF MainStart, MainReap, Post, atomVars, outVars
  <2> QED BY <2>1, GateKept DEF Leader, Team, Told, Unjoined, Counting, Releasing, Testing, Passed
<1>2. CASE CrashAndRerun
  BY <1>0, <1>2 DEF CrashAndRerun
<1>3. ASSUME NEW a \in Atoms, Fork(a) \/ ForkFails(a) PROVE Gate'
  <2>1. /\ pc[a] = "unborn" /\ \E p \in {"started", "gone"} : pc' = [pc EXCEPT ![a] = p]
        /\ creating[a] = 0
        /\ UNCHANGED <<sem, shm, left, creating>>
    BY <1>0, <1>3 DEF Fork, ForkFails, ForkOrder, outVars, LineInv, AtomLines, Unannounced
  <2>2. Leader' = Leader /\ Counting' = Counting /\ Releasing' = Releasing /\ Testing' = Testing
    BY <1>0, <2>1 DEF Leader, OxygenPlaces, Counting, Releasing, Testing
  <2>3. Leader # {} => Team' = Team /\ Unjoined' = Unjoined /\ Passed' = Passed
    BY <1>0, <1>L, <2>1 DEF Team, Told, Unjoined, Passed
  <2> QED BY <2>1, <2>2, <2>3, GateKept
<1>4. ASSUME NEW a \in Atoms, PrintStep(a) PROVE Gate'
  <2>1. CASE PrintWait(a) \/ PrintLoad(a) \/ PrintStore(a)
    BY <1>0, <2>1, GateKept DEF PrintWait, PrintLoad, PrintStore, Wait, Guard, outVars,
       Leader, Team, Told, Unjoined, Counting, Releasing, Testing, Passed
  <2>2. CASE PrintPost(a)
    <3>1. /\ pc[a] \in Prints /\ pc' = [pc EXCEPT ![a] = AfterPrint(a)]
          /\ UNCHANGED <<shm, creating>> /\ sem'["sem_creating"] = sem["sem_creating"]
          /\ \A b \in Atoms \ {a} : left'[b] = left[b]
      BY <1>0, <2>2 DEF PrintPost, Printing, Post, Guard, outVars
    <3>2. Leader' = Leader /\ Counting' = Counting /\ Releasing' = Releasing /\ Testing' = Testing
      BY <1>0, <3>1, AtomsAssumption DEF AfterPrint, Prints, Leader, OxygenPlaces, Counting, Releasing, Testing
    <3>3. pc[a] = "surplus" => creating[a] = 0
      BY <1>0 DEF LineInv, AtomLines, Unannounced
    <3>4. Team' = Team
      BY <3>1 DEF Team, Told
    <3>5. Leader # {} => Unjoined' = Unjoined
      BY <1>0, <1>L, <3>1, <3>3, <3>4, AtomsAssumption DEF AfterPrint, Prints, Unjoined, Team, Told
    <3>6. Leader # {} => Passed' = Passed
      BY <1>0, <1>L, <3>1, <3>3, <3>4, AtomsAssumption DEF AfterPrint, Prints, Passed, Team, Told
    <3>7. \A h \in Releasing : left'[h] = left[h]
      BY <3>1 DEF Releasing, Prints
    <3> QED BY <3>1, <3>2, <3>4, <3>5, <3>6, <3>7, GateKept
  <2>3. CASE PrintLine(a)
    <3>1. CASE pc[a] # "creating"
      BY <2>3, <3>1, GateKept DEF PrintLine, Leader, Team, Told, Unjoined, Counting, Releasing, Testing, Passed
    <3>2. CASE pc[a] = "creating"
      <4>1. /\ creating[a] = 0 /\ creating' = [creating EXCEPT ![a] = shm.IDMolecule]
            /\ UNCHANGED <<sem, shm, pc, left>>
        BY <1>0, <2>3, <3>2 DEF PrintLine, Printing, LineInv, AtomLines, Unannounced
      <4>2. ~Complete
        BY <1>0, <3>2, <4>1, NoneSilent
      <4>3. UNCHANGED <<Leader, Counting, Releasing, Testing>>
        BY <4>1 DEF Leader, Counting, Releasing, Testing
      <4>4. Leader # {} => Passed' = Passed
        BY <1>0, <1>L, <3>2, <4>1 DEF Passed, Team, Told
      <4> QED BY <4>1, <4>2, <4>3, <4>4 DEF Gate, Opening, Opened, Shut
    <3> QED BY <3>1, <3>2
  <2> QED BY <1>4, <2>1, <2>2, <2>3 DEF PrintStep
<1>5. ASSUME NEW a \in Atoms, CountStep(a) PROVE Gate'
  <2>1. /\ pc[a] \in {"count", "countStore", "classify"}
        /\ \E p \in {"countStore", "classify", "enter", "surplus"} : pc' = [pc EXCEPT ![a] = p]
        /\ shm'.IDMolecule = shm.IDMolecule /\ shm'.NumOfMolecule_H = shm.NumOfMolecule_H
        /\ UNCHANGED <<sem, left, creating>>
    BY <1>0, <1>5 DEF CountStep, CountLoad, CountStore, Classify, Counter, outVars
  <2>2. Leader' = Leader /\ Counting' = Counting /\ Releasing' = Releasing /\ Testing' = Testing
    BY <1>0, <2>1 DEF Leader, OxygenPlaces, Counting, Releasing, Testing
  <2>3. Leader # {} => Team' = Team /\ Unjoined' = Unjoined /\ Passed' = Passed
    BY <1>0, <2>1 DEF Team, Told, Unjoined, Passed
  <2> QED BY <2>1, <2>2, <2>3, GateKept
<1>6. ASSUME NEW a \in Atoms, BondStep(a) PROVE Gate'
  <2>1. CASE EnterH(a) \/ EnterO(a) \/ Admit(a)
    <3>1. /\ \/ pc[a] = "enter" /\ a \in Hydrogens /\ pc' = [pc EXCEPT ![a] = "creating"]
             \/ pc[a] = "enter" /\ a \in Oxygens /\ pc' = [pc EXCEPT ![a] = "number"]
             \/ /\ pc[a] = "admit" /\ a \in Oxygens
                /\ \E p \in {"admit", "barrier"} : pc' = [pc EXCEPT ![a] = p]
          /\ UNCHANGED <<shm, creating>> /\ sem'["sem_creating"] = sem["sem_creating"]
          /\ \A b \in Atoms \ {a} : left'[b] = left[b]
          /\ pc[a] = "enter" => creating[a] = 0
      BY <1>0, <2>1 DEF EnterH, EnterO, Admit, Wait, Post, outVars, LineInv, AtomLines, Unannounced
    <3>2. Leader' = Leader /\ Counting' = Counting /\ Releasing' = Releasing /\ Testing' = Testing
      BY <1>0, <3>1, AtomsAssumption DEF Leader, OxygenPlaces, Counting, Releasing, Testing
    <3>3. Leader # {} => Team' = Team /\ Unjoined' = Unjoined /\ Passed' = Passed
      BY <1>0, <1>L, <3>1, AtomsAssumption DEF Team, Told, Unjoined, Passed
    <3>4. \A h \in Releasing : left'[h] = left[h]
      BY <3>1, AtomsAssumption DEF Releasing
    <3> QED BY <3>1, <3>2, <3>3, <3>4, GateKept
  <2>2. CASE NumberMolecule(a)
    <3>1. /\ a \in Oxygens /\ HInside = {} /\ \A o \in OInside : o = a
          /\ pc[a] = "number" /\ pc' = [pc EXCEPT ![a] = "creating"]
          /\ shm'.IDMolecule = shm.IDMolecule + 1 /\ shm'.NumOfMolecule_H = shm.NumOfMolecule_H
          /\ UNCHANGED <<sem, creating>>
      BY <1>0, <2>2, NumberIdle DEF NumberMolecule, outVars
    <3>2. Leader = {} /\ Counting = {} /\ Counting' = {} /\ Releasing' = {} /\ Testing' = {}
      BY <1>0, <3>1, AtomsAssumption DEF Leader, OInside, OxygenPlaces, Counting, Releasing, Testing, HInside, HydrogenPlaces
    <3>3. Team' = {}
      BY <1>0, <3>1 DEF Team, Told, LineInv, AtomLines
    <3>4. Passed' = {}
      BY <1>0, <3>1, <3>3 DEF Passed, OInside, OxygenPlaces
    <3> QED BY <3>1, <3>2, <3>4, FS_EmptySet DEF Gate, Shut
  <2>3. CASE JoinStore(a)
    <3>1. /\ a \in Hydrogens /\ pc[a] = "joinStore" /\ pc' = [pc EXCEPT ![a] = "joinTest"]
          /\ a \in Team /\ a \in Unjoined /\ a \in HInside /\ a \notin Counting
          /\ UNCHANGED <<sem, creating, left>> /\ shm'.IDMolecule = shm.IDMolecule
          /\ \A b \in Atoms \ {a} : tmp'[b] = tmp[b]
      BY <1>0, <2>3, CountingTeam DEF JoinStore, outVars, HInside, HydrogenPlaces, Counting
    <3>2. Leader # {} /\ Leader' = Leader
      BY <1>0, <3>1, HydrogenNumbered, AtomsAssumption DEF Leader, OxygenPlaces
    <3>3. Shut
      BY <3>1, <3>2 DEF Gate, Opening, Opened, Complete
    <3>4. shm.NumOfMolecule_H = Cardinality(Counting) /\ tmp[a] = shm.NumOfMolecule_H
      BY <3>1 DEF Gate, Undisturbed
    <3>5. shm'.NumOfMolecule_H = (shm.NumOfMolecule_H + 1) % UintSize
      BY <1>0, <2>3, <3>4 DEF JoinStore
    <3>6. Testing = {} /\ Testing' = {a}
      <4>1. shm'.NumOfMolecule_H # shm.NumOfMolecule_H
        BY <1>0, <3>5, BoundsAssumption
      <4>2. \A b \in Atoms \ {a} : pc[b] # "joinTest"
        BY <1>0, <3>1, <4>1 DEF Undisturbed
      <4> QED BY <1>0, <3>1, <4>2 DEF Testing
    <3>7. Cardinality(Counting) <= 1
      <4>1. Counting \ Testing = Counting
        BY <3>6
      <4> QED BY <3>3, <4>1 DEF Shut
    <3>8. Counting' = Counting \cup {a}
      BY <1>0, <3>1 DEF Counting
    <3>9. Cardinality(Counting)' = Cardinality(Counting) + 1
      BY <3>1, <3>8, GateFinite, FS_AddElement
    <3>10. shm'.NumOfMolecule_H = Cardinality(Counting)'
      BY <3>4, <3>5, <3>7, <3>9, GateFinite, BoundsAssumption
    <3>11. Passed' = {} /\ Releasing' = {}
      BY <1>0, <3>1, <3>3, AtomsAssumption DEF Team, Told, Passed, Releasing, Shut
    <3>12. Shut'
      <4>1. Counting' \ Testing' = Counting
        BY <3>1, <3>6, <3>8
      <4> QED BY <3>1, <3>3, <3>7, <3>11, <4>1 DEF Shut
    <3> QED BY <3>2, <3>6, <3>10, <3>12 DEF Gate
  <2>4. CASE JoinTest(a)
    <3>1. /\ a \in Hydrogens /\ pc[a] = "joinTest" /\ a \in Team /\ a \in Unjoined
          /\ a \in HInside /\ a \in Counting
          /\ UNCHANGED <<sem, shm, creating>>
      BY <1>0, <1>C, <2>4, CountingTeam DEF JoinTest, outVars, HInside, HydrogenPlaces, Counting
    <3>2. Leader # {} /\ Shut
      <4>1. Leader # {}
        BY <1>0, <3>1, HydrogenNumbered DEF Leader, OxygenPlaces
      <4> QED BY <3>1, <4>1 DEF Gate, Opening, Opened, Complete
    <3>3. Testing = {a}
      BY <3>1 DEF Gate, Testing
    <3>4. shm.NumOfMolecule_H = Cardinality(Counting) /\ tmp[a] = shm.NumOfMolecule_H
      BY <3>1 DEF Gate, Undisturbed
    <3>5. /\ pc' = [pc EXCEPT ![a] = IF Cardinality(Counting) >= 2 THEN "release" ELSE "barrier"]
          /\ left' = [left EXCEPT ![a] = IF Cardinality(Counting) >= 2 THEN 3 ELSE 0]
      <4>1. PICK n \in {tmp[a], shm.NumOfMolecule_H} :
              /\ pc' = [pc EXCEPT ![a] = IF n >= 2 THEN "release" ELSE "barrier"]
              /\ left' = [left EXCEPT ![a] = IF n >= 2 THEN 3 ELSE 0]
        BY <2>4 DEF JoinTest
      <4>2. n = Cardinality(Counting)
        BY <3>4
      <4> QED BY ONLY <4>1, <4>2
    <3>6. Leader' = Leader /\ Counting' = Counting /\ Team' = Team /\ Passed' = {}
      BY <1>0, <3>1, <3>2, <3>5, AtomsAssumption
      DEF Leader, OxygenPlaces, Counting, Team, Told, Passed, Shut
    <3>7. Testing' = {}
      BY <1>0, <3>3, <3>5 DEF Testing
    <3>8. Cardinality(Counting) = Cardinality(Counting \ {a}) + 1 /\ Cardinality(Counting \ {a}) <= 1
      <4>1. Cardinality(Counting \ {a}) = Cardinality(Counting) - 1
        BY <3>1, GateFinite, FS_RemoveElement
      <4>2. Cardinality(Counting \ {a}) <= 1
        BY <3>2, <3>3 DEF Shut
      <4> QED BY <4>1, <4>2, GateFinite
    <3>9. Cardinality(Counting) <= 2 /\ Cardinality(Counting) \in Nat
      <4>1. Cardinality(Counting \ {a}) \in Nat
        BY GateFinite, FS_RemoveElement, FS_CardinalityType
      <4> QED BY ONLY <3>8, <4>1, GateFinite
    <3>10. CASE Cardinality(Counting) <= 1
      <4>1. Releasing' = {}
        BY <1>0, <3>2, <3>5, <3>9, <3>10 DEF Releasing, Shut
      <4>2. Counting' \ Testing' = Counting
        BY <3>6, <3>7
      <4>3. Shut'
        BY <3>1, <3>2, <3>6, <3>10, <4>1, <4>2 DEF Shut
      <4> QED BY <3>1, <3>2, <3>4, <3>6, <3>7, <4>3 DEF Gate
    <3>11. CASE Cardinality(Counting) = 2
      <4>1. pc' = [pc EXCEPT ![a] = "release"] /\ left'[a] = 3
        BY <1>0, <3>1, <3>5, <3>11
      <4>2. Releasing' = {a}
        BY <1>0, <3>1, <3>2, <4>1 DEF Releasing, Shut
      <4>3. Team = Counting
        <5>1. Cardinality(Team) <= 2
          BY <1>0, <1>L, <3>2 DEF CountInv, HydrogenLines, Team
        <5> QED BY <1>C, <3>11, <5>1, GateFinite, FS_Subset
      <4>4. Unjoined' = {}
        BY <3>6, <3>7, <4>3 DEF Unjoined, Counting, Testing
      <4>5. \A o \in Leader : creating[o] = shm.IDMolecule
        <5>1. PICK q \in Oxygens : pc[q] \in {"admit", "barrier", "created", "collect"}
          BY <1>0, <3>1, HydrogenNumbered
        <5>2. \A o \in Leader : o = q
          BY <1>0, <5>1 DEF Leader, OxygenPlaces, BaseInv, StopInv, OxygenLock
        <5> QED BY <1>0, <5>1, <5>2 DEF LineInv, AtomLines, Unannounced
      <4>6. Complete'
        BY <3>1, <3>6, <3>11, <4>3, <4>4, <4>5 DEF Complete
      <4>7. sem'["sem_creating"] + Cardinality(Passed)' = 3 - left'[a]
        BY <3>1, <3>2, <3>6, <4>1, FS_EmptySet DEF Shut
      <4>8. Opening'
        BY <3>1, <4>2, <4>6, <4>7 DEF Opening
      <4> QED BY <3>1, <3>4, <3>6, <3>7, <4>8, <3>2 DEF Gate
    <3> QED BY <3>9, <3>10, <3>11
  <2>11. CASE JoinLoad(a) \/ PartLoad(a)
    <3>1. /\ a \in Hydrogens
          /\ \/ pc[a] = "join" /\ pc' = [pc EXCEPT ![a] = "joinStore"]
             \/ pc[a] = "part" /\ pc' = [pc EXCEPT ![a] = "partStore"]
          /\ UNCHANGED <<sem, shm, creating, left>>
      BY <1>0, <2>11 DEF JoinLoad, PartLoad, outVars
    <3>2. /\ Leader' = Leader /\ Counting' = Counting /\ Releasing' = Releasing
          /\ Testing' = Testing /\ Team' = Team /\ Unjoined' = Unjoined
      BY <1>0, <3>1, AtomsAssumption
      DEF Leader, OxygenPlaces, Counting, Releasing, Testing, Team, Told, Unjoined
    <3>3. Passed' = Passed
      BY <1>0, <3>1, <3>2, AtomsAssumption DEF Passed, Team, Told
    <3> QED BY <3>1, <3>2, <3>3, GateKept
  <2>5. CASE Release(a)
    <3>1. /\ a \in Hydrogens /\ pc[a] = "release" /\ a \in Releasing /\ left[a] \in 1 .. 3
          /\ UNCHANGED <<shm, creating>>
          /\ sem'["sem_creating"] = sem["sem_creating"] + 1
          /\ left' = [left EXCEPT ![a] = left[a] - 1]
          /\ pc' = [pc EXCEPT ![a] = IF left[a] = 1 THEN "barrier" ELSE "release"]
      BY <1>0, <2>5 DEF Release, Post, outVars, Releasing
    <3>2. Leader' = Leader /\ Counting' = Counting /\ Team' = Team /\ Testing' = Testing
      BY <1>0, <3>1, AtomsAssumption DEF Leader, OxygenPlaces, Counting, Testing, Team, Told
    <3>3. Unjoined' = Unjoined /\ Passed' = Passed
      BY <1>0, <3>1, <3>2, AtomsAssumption DEF Unjoined, Passed, Team, Told
    <3>4. Leader # {}
      BY <1>0, <3>1, HydrogenNumbered DEF HInside, HydrogenPlaces, Leader, OxygenPlaces
    <3>5. Opening
      BY <3>1, <3>4 DEF Gate, Shut, Opened
    <3>6. Releasing = {a} /\ sem["sem_creating"] + Cardinality(Passed) = 3 - left[a]
      BY <3>1, <3>5 DEF Opening
    <3>7. sem["sem_creating"] \in Nat /\ Cardinality(Passed) \in Nat
      BY <1>0, GateFinite
    <3>8. Complete'
      BY <3>1, <3>2, <3>3, <3>5 DEF Opening, Complete
    <3>9. CASE left[a] = 1
      <4>1. Releasing' = {}
        BY <1>0, <3>1, <3>6, <3>9 DEF Releasing
      <4>2. sem'["sem_creating"] + Cardinality(Passed) = 3
        BY <3>1, <3>6, <3>7, <3>9
      <4> QED BY <3>1, <3>2, <3>3, <3>4, <3>8, <4>1, <4>2 DEF Gate, Opened
    <3>10. CASE left[a] # 1
      <4>1. Releasing' = {a}
        BY <1>0, <3>1, <3>6, <3>10 DEF Releasing
      <4>2. sem'["sem_creating"] + Cardinality(Passed) = 3 - left'[a]
        BY <1>0, <3>1, <3>6, <3>7
      <4> QED BY <3>1, <3>2, <3>3, <3>4, <3>8, <4>1, <4>2 DEF Gate, Opening
    <3> QED BY <3>9, <3>10
  <2>6. CASE PassBarrier(a)
    <3>1. /\ pc[a] = "barrier" /\ pc' = [pc EXCEPT ![a] = "created"]
          /\ UNCHANGED <<shm, creating, left>>
          /\ sem["sem_creating"] > 0 /\ sem'["sem_creating"] = sem["sem_creating"] - 1
      BY <1>0, <2>6 DEF PassBarrier, Wait, outVars
    <3>2. Leader # {}
      BY <3>1 DEF Gate
    <3>3. /\ Leader' = Leader /\ Counting' = Counting /\ Releasing' = Releasing /\ Testing' = Testing
          /\ Team' = Team /\ Unjoined' = Unjoined
      BY <1>0, <3>1, AtomsAssumption DEF Leader, OxygenPlaces, Counting, Releasing, Testing, Team, Told, Unjoined
    <3>4. a \in Hydrogens => a \in Team
      BY <1>C, <3>1 DEF Counting
    <3>5. Passed' = Passed \cup {a} /\ a \notin Passed
      BY <1>0, <3>1, <3>3, <3>4, AtomsAssumption DEF Passed
    <3>6. Cardinality(Passed)' = Cardinality(Passed) + 1
      BY <3>5, GateFinite, FS_AddElement
    <3>7. sem["sem_creating"] \in Nat /\ Cardinality(Passed) \in Nat
      BY <1>0, GateFinite
    <3>8. sem'["sem_creating"] + Cardinality(Passed)' = sem["sem_creating"] + Cardinality(Passed)
      BY <3>1, <3>6, <3>7
    <3>9. Opening \/ Opened
      BY <3>1, <3>2 DEF Gate, Shut
    <3>10. Complete'
      BY <3>1, <3>3, <3>9 DEF Opening, Opened, Complete
    <3> QED BY <3>1, <3>2, <3>3, <3>8, <3>9, <3>10 DEF Gate, Opening, Opened
  <2>7. CASE PartStore(a)
    <3>1. /\ a \in Hydrogens /\ pc[a] = "partStore" /\ pc' = [pc EXCEPT ![a] = "ready"]
          /\ UNCHANGED <<sem, creating, left>> /\ shm'.IDMolecule = shm.IDMolecule
          /\ shm'.NumOfMolecule_H = Decremented(tmp[a])
      BY <1>0, <2>7 DEF PartStore, outVars
    <3>2. Counting' = Counting \ {a} /\ a \in Counting
      BY <1>0, <3>1 DEF Counting
    <3>3. Cardinality(Counting)' = Cardinality(Counting) - 1 /\ Cardinality(Counting) # 0
      BY <3>2, GateFinite, FS_RemoveElement, FS_EmptySet
    <3>4. shm'.NumOfMolecule_H = shm.NumOfMolecule_H - 1
      <4>1. tmp[a] = shm.NumOfMolecule_H
        BY <3>1 DEF Undisturbed
      <4> QED BY <1>0, <3>1, <3>3, <4>1, BoundsAssumption DEF Decremented, Gate
    <3>5. /\ Leader' = Leader /\ Releasing' = Releasing /\ Testing' = Testing
          /\ Team' = Team /\ Unjoined' = Unjoined
      BY <1>0, <3>1, AtomsAssumption
      DEF Leader, OxygenPlaces, Releasing, Testing, Team, Told, Unjoined
    <3>6. Passed' = Passed /\ a \in Passed
      BY <1>0, <1>C, <3>1, <3>2, <3>5, AtomsAssumption DEF Passed, Team, Told
    <3>7. Complete' <=> Complete
      BY <3>1, <3>5 DEF Complete
    <3>8. (Opening => Opening') /\ (Opened => Opened') /\ ~Shut
      BY <3>1, <3>5, <3>6, <3>7 DEF Opening, Opened, Shut
    <3> QED BY <3>1, <3>3, <3>4, <3>5, <3>8 DEF Gate
  <2>8. CASE Ready(a)
    <3>1. /\ a \in Hydrogens /\ pc[a] = "ready" /\ pc' = [pc EXCEPT ![a] = "gone"]
          /\ UNCHANGED <<shm, creating, left>> /\ sem'["sem_creating"] = sem["sem_creating"]
      BY <1>0, <2>8 DEF Ready, Post, outVars
    <3>2. /\ Leader' = Leader /\ Counting' = Counting /\ Releasing' = Releasing /\ Testing' = Testing
          /\ Team' = Team /\ Unjoined' = Unjoined
      BY <1>0, <3>1, AtomsAssumption DEF Leader, OxygenPlaces, Counting, Releasing, Testing, Team, Told, Unjoined
    <3>3. Passed' = Passed
      BY <1>0, <3>1, <3>2, AtomsAssumption DEF Passed, Team, Told
    <3> QED BY <3>1, <3>2, <3>3, GateKept
  <2>9. CASE Collect(a) \/ LastMolecule(a)
    <3>1. /\ a \in Oxygens /\ pc[a] \in {"collect", "last"}
          /\ \E p \in {"collect", "last", "leave"} : pc' = [pc EXCEPT ![a] = p]
          /\ UNCHANGED <<shm, creating>> /\ sem'["sem_creating"] = sem["sem_creating"]
          /\ \A b \in Atoms \ {a} : left'[b] = left[b]
      BY <1>0, <2>9 DEF Collect, LastMolecule, Wait, Post, outVars
    <3>2. /\ Leader' = Leader /\ Counting' = Counting /\ Releasing' = Releasing /\ Testing' = Testing
          /\ Team' = Team /\ Unjoined' = Unjoined
      BY <1>0, <3>1, AtomsAssumption DEF Leader, OxygenPlaces, Counting, Releasing, Testing, Team, Told, Unjoined
    <3>3. Passed' = Passed /\ \A h \in Releasing : left'[h] = left[h]
      BY <1>0, <3>1, <3>2, AtomsAssumption DEF Passed, Team, Told, Releasing
    <3> QED BY <3>1, <3>2, <3>3, GateKept
  <2>10. CASE Leave(a)
    <3>1. /\ a \in Oxygens /\ pc[a] = "leave" /\ pc' = [pc EXCEPT ![a] = "gone"]
          /\ UNCHANGED <<shm, creating>> /\ sem'["sem_creating"] = sem["sem_creating"]
      BY <1>0, <2>10 DEF Leave, Post, outVars
    <3>2. Leader = {a} /\ Leader' = {}
      BY <1>0, <3>1 DEF Leader, OxygenPlaces, BaseInv, StopInv, OxygenLock
    <3>3. Counting' = Counting /\ Testing' = Testing
      BY <1>0, <3>1, AtomsAssumption DEF Counting, Testing
    <3>4. HInside = {} /\ a \in Passed
      BY <1>0, <3>1, BothParted DEF Passed
    <3>5. Opened
      <4>1. Releasing = {}
        BY <3>4 DEF Releasing, HInside, HydrogenPlaces
      <4> QED BY <3>2, <3>4, <4>1 DEF Gate, Shut, Opening
    <3>6. Passed = Team \cup {a} /\ a \notin Team
      <4>1. {o \in Oxygens : pc[o] \in {"created", "collect", "last", "leave"}} = {a}
        BY <1>0, <3>1, <3>2 DEF Leader, OxygenPlaces
      <4>2. \A h \in Team : pc[h] = "gone"
        <5> SUFFICES ASSUME NEW h \in Hydrogens, creating[h] = shm.IDMolecule
                     PROVE  pc[h] = "gone"
          BY DEF Team, Told
        <5>1. ~Unannounced(h)
          BY <1>0, <1>L, <3>2 DEF LineInv, AtomLines
        <5>2. pc[h] \in Places /\ pc[h] \notin HydrogenPlaces
          BY <1>0, <3>4 DEF HInside
        <5> QED BY <1>0, <5>1, <5>2 DEF Places, Prints, HydrogenPlaces, Unannounced
      <4>3. a \notin Team
        BY <3>1, AtomsAssumption DEF Team, Told
      <4> QED BY <4>1, <4>2, <4>3 DEF Passed
    <3>7. Cardinality(Passed) = 3
      BY <3>5, <3>6, GateFinite, FS_AddElement DEF Opened, Complete
    <3>8. sem["sem_creating"] = 0
      BY <1>0, <3>5, <3>7 DEF Opened
    <3> QED BY <3>1, <3>2, <3>3, <3>8 DEF Gate
  <2> QED BY <1>6, <2>1, <2>2, <2>3, <2>4, <2>5, <2>6, <2>7, <2>8, <2>9, <2>10, <2>11 DEF BondStep
<1>7. CASE UNCHANGED vars
  BY <1>7, GateKept DEF vars, Leader, Team, Told, Unjoined, Counting, Releasing, Testing, Passed
<1> QED BY <1>1, <1>2, <1>3, <1>4, <1>5, <1>6, <1>7 DEF Next, Main, Atom

\* Nobody is at the barrier.
LEMMA BarrierInit == Init => BarrierInv
<1> SUFFICES ASSUME Init PROVE Gate /\ ThreeAtoms
  BY CountInit DEF BarrierInv
<1>1. Leader = {} /\ Counting = {} /\ Testing = {}
  BY DEF Init, Leader, OxygenPlaces, Counting, Testing, Atoms
<1>2. \A a \in Atoms : created[a] = 0 /\ pc[a] = "unborn"
  BY DEF Init
<1> QED BY <1>1, <1>2, FS_EmptySet DEF Init, Gate, ThreeAtoms, ShmZero, SemInit, Semaphores

\* Whoever prints "molecule created" has passed the barrier.
LEMMA CreatedComplete ==
  ASSUME CountInv, Gate, NEW a \in Atoms, pc[a] = "created"
  PROVE  /\ Cardinality({o \in Oxygens : creating[o] = shm.IDMolecule}) = 1
         /\ Cardinality(Team) = 2
<1> USE DEF CountInv, LineInv, BaseInv, StopInv, PlaceInv, TypeInv, TypeOK
<1>1. Leader # {}
  BY HydrogenNumbered DEF HInside, HydrogenPlaces, Leader, OxygenPlaces, Atoms
<1>2. a \in Passed
  BY DEF Passed, Team, Told, AtomLines, Unannounced, Atoms
<1>3. Complete
  BY <1>1, <1>2 DEF Gate, Shut, Opening, Opened
<1>4. PICK q \in Leader : TRUE
  BY <1>1
<1>5. q \in Oxygens /\ creating[q] = shm.IDMolecule /\ shm.IDMolecule > 0
  BY <1>1, <1>3, <1>4, LeaderNumbered DEF Complete, Leader
<1>6. {o \in Oxygens : creating[o] = shm.IDMolecule} = {q}
  BY <1>5 DEF OxygenLines
<1> QED BY <1>3, <1>6, FS_Singleton DEF Complete

\* A molecule somebody has been told to be created gets no further atom.
LEMMA ThreeStep ==
  ASSUME CountInv, Gate, ThreeAtoms, [Next]_vars, crashes' = crashes
  PROVE  ThreeAtoms'
<1>0. PlaceInv /\ LineInv /\ CountInv'
  BY LinesStep DEF LineInv, CountInv, BaseInv, MoleculeInv
<1> USE DEF PlaceInv, TypeInv, TypeOK, At
<1>1. CASE UNCHANGED <<creating, created>>
  BY <1>1 DEF ThreeAtoms, Told
<1>2. ASSUME NEW a \in Atoms, PrintLine(a) PROVE ThreeAtoms'
  <2>1. CASE pc[a] \notin {"creating", "created"}
    BY <1>1, <1>2, <2>1 DEF PrintLine
  <2>2. CASE pc[a] = "creating"
    <3> DEFINE n == shm.IDMolecule
               OxygensOf(m) == {o \in Oxygens : creating[o] = m}
    <3>1. /\ creating[a] = 0 /\ creating' = [creating EXCEPT ![a] = n] /\ created' = created
          /\ n \in Nat /\ shm' = shm /\ step[a] = "line"
      BY <1>0, <1>2, <2>2 DEF PrintLine, Printing, LineInv, AtomLines, Unannounced
    <3>2. \A b \in Atoms : created[b] # 0 => created[b] # n
      <4> SUFFICES ASSUME NEW b \in Atoms, created[b] = n, n # 0 PROVE FALSE
        OBVIOUS
      <4>1. Cardinality(OxygensOf(n)) = 1 /\ Cardinality(Told(creating, n)) = 2
        BY DEF ThreeAtoms
      <4>2. CASE a \in Oxygens
        <5>1. PICK o \in OxygensOf(n) : TRUE
          BY <4>1, FS_EmptySet
        <5> QED BY <1>0, <2>2, <3>1, <4>2, <5>1 DEF LineInv, OxygenLines, Atoms
      <4>3. CASE a \in Hydrogens
        <5>1. Told(creating, n)' = Told(creating, n) \cup {a} /\ a \notin Told(creating, n)
          BY <1>0, <3>1, <4>3 DEF Told, Atoms
        <5>2. IsFiniteSet(Told(creating, n))
          BY ToldFinite
        <5>3. Cardinality(Told(creating, n)') = Cardinality(Told(creating, n)) + 1
          BY <5>1, <5>2, FS_AddElement
        <5>4. n \in Nat \ {0} /\ n' = n
          BY <3>1
        <5>5. Cardinality(Told(creating, n)') <= 2
          BY <1>0, <5>4 DEF CountInv, HydrogenLines
        <5> HIDE DEF n
        <5> QED BY <4>1, <5>3, <5>5
      <4> QED BY <4>2, <4>3 DEF Atoms
    <3>3. \A b \in Atoms : created[b] # 0 =>
             /\ OxygensOf(created[b])' = OxygensOf(created[b])
             /\ Told(creating, created[b])' = Told(creating, created[b])
      BY <1>0, <3>1, <3>2 DEF Told, Atoms
    <3> QED BY <3>1, <3>3 DEF ThreeAtoms
  <2>3. CASE pc[a] = "created"
    <3>1. creating' = creating /\ created' = [created EXCEPT ![a] = shm.IDMolecule]
      BY <1>2, <2>3 DEF PrintLine
    <3>2. /\ Cardinality({o \in Oxygens : creating[o] = shm.IDMolecule}) = 1
          /\ Cardinality(Team) = 2
      BY <2>3, CreatedComplete
    <3> QED BY <1>0, <3>1, <3>2 DEF ThreeAtoms, Team, Told
  <2> QED BY <2>1, <2>2, <2>3
<1>3. ASSUME ~ \E a \in Atoms : PrintLine(a) PROVE UNCHANGED <<creating, created>>
  BY <1>0, <1>3 DEF Next, vars, outVars, Main, Atom, MainStart, MainReap, CrashAndRerun, Fork, ForkFails,
     PrintStep, PrintWait, PrintLoad, PrintStore, PrintPost,
     CountStep, CountLoad, CountStore, Classify, BondStep, EnterH, EnterO,
     NumberMolecule, Admit, JoinLoad, JoinStore, JoinTest, Release, PassBarrier,
     PartLoad, PartStore, Ready, Collect, LastMolecule, Leave
<1> QED BY <1>1, <1>2, <1>3

\* Every step keeps the barrier: a kill starts again with nobody inside.
LEMMA BarrierStep ==
  UintSize > 2 /\ BarrierInv /\ Undisturbed /\ Undisturbed' /\ [Next]_vars => BarrierInv'
<1> SUFFICES ASSUME UintSize > 2, BarrierInv, Undisturbed, Undisturbed', [Next]_vars
             PROVE  BarrierInv'
  OBVIOUS
<1>1. CountInv /\ CountInv' /\ TypeOK
  BY LinesStep DEF BarrierInv, CountInv, LineInv, BaseInv, StopInv, PlaceInv, TypeInv
<1>2. ASSUME crashes' = 0 PROVE (Gate /\ ThreeAtoms)'
  <2>1. crashes = 0 /\ Gate /\ ThreeAtoms
    BY <1>1, <1>2, CrashesCount DEF BarrierInv
  <2> QED BY <1>1, <1>2, <2>1, GateStep, ThreeStep
<1> QED BY <1>1, <1>2 DEF BarrierInv

\* No update is under way at the start.
LEMMA UndisturbedInit == Init => Undisturbed
BY DEF Init, Undisturbed, At

\* A step that changes nothing disturbs nothing.
LEMMA UndisturbedStep ==
  Undisturbed /\ [Next /\ Undisturbed']_vars => [Next]_vars /\ Undisturbed'
<1> SUFFICES ASSUME Undisturbed, UNCHANGED vars PROVE Undisturbed'
  OBVIOUS
<1> QED BY DEF Undisturbed, vars, At

\* UndisturbedSpec allows the behaviours of the program in which no update of a
\* counter is ever disturbed, and no others.
THEOREM UndisturbedBehaviours == UndisturbedSpec <=> Spec /\ []Undisturbed
<1>1. [Next]_vars /\ Undisturbed' => [Next /\ Undisturbed']_vars
  OBVIOUS
<1>2. [Next /\ Undisturbed']_vars => [Next]_vars
  OBVIOUS
<1> QED BY <1>1, <1>2, UndisturbedInit, UndisturbedStep, PTL DEF Spec, UndisturbedSpec

\* As long as no update is disturbed, nobody prints "molecule created" in a run on a
\* fresh segment before the three atoms of the molecule have announced it.
THEOREM BarrierIsHeld ==
  ASSUME UintSize > 2
  PROVE  UndisturbedSpec => []BarrierHeld
<1>1. BarrierInv => BarrierHeld
  BY DEF BarrierInv, ThreeAtoms, Told, BarrierHeld
<1>2. BarrierInv /\ Undisturbed /\ Undisturbed' /\ [Next]_vars => BarrierInv'
  BY BarrierStep
<1> QED BY <1>1, <1>2, BarrierInit, UndisturbedInit, UndisturbedStep, PTL DEF UndisturbedSpec

-----------------------------------------------------------------------------
(* Nobody is stuck, for any number of atoms, as long as no update is       *)
(* disturbed and none that is needed is left out.  Then no more atoms go   *)
(* in to bond than the arguments allow, and once their molecules are made  *)
(* sem__stop is open for the rest.                                         *)

\* The atoms that go in to bond or have bonded, and those that have counted
\* themselves and may.
Entered(S) ==
  {a \in S : pc[a] \in {"enter"} \cup OxygenPlaces \cup HydrogenPlaces \/ created[a] # 0}
Counted(S) == Entered(S) \cup {a \in S : pc[a] = "classify"}

NeededOnly ==
  /\ Cardinality(Counted(Hydrogens)) <= shm.hydrogen_n
  /\ Cardinality(Counted(Oxygens)) <= shm.oxygen_n
  /\ Cardinality(Entered(Hydrogens)) <= Count_H_Atom
  /\ Cardinality(Entered(Oxygens)) <= Count_O_Atom

\* The oxygen that has a number and has not compared it with the last one.
Working == {o \in Oxygens : pc[o] \in OxygenPlaces \ {"number", "leave"}}

\* Past the last number sem__stop has been posted: by that molecule's oxygen, or by
\* main if there is nothing to bond.
StopOpen ==
  /\ main = "start" => shm.IDMolecule = 0
  /\ /\ main # "start"
     /\ Count_O_Atom < shm.IDMolecule \/ (Count_O_Atom = shm.IDMolecule /\ Working = {})
     => ~StopClosed

\* semap_fin is taken by an atom that prints.
FinHeld == sem["semap_fin"] = 0 => \E a \in Atoms : Under(a, "semap_fin")

ProgressInv ==
  /\ SurplusInv /\ BarrierInv /\ NumberInv /\ FinHeld
  /\ crashes = 0 => NeededOnly /\ StopOpen

\* Nobody but an atom that prints takes semap_fin, and it posts it.
LEMMA FinHeldStep == PlaceInv /\ FinHeld /\ [Next]_vars => FinHeld'
<1> SUFFICES ASSUME PlaceInv, FinHeld, [Next]_vars, sem'["semap_fin"] = 0
             PROVE  \E a \in Atoms : Under(a, "semap_fin")'
  BY DEF FinHeld
<1> USE DEF PlaceInv, TypeInv, TypeOK, Goto, At, Semaphores, Under, Printing, Guard
<1>1. CASE CrashAndRerun
  BY <1>1 DEF CrashAndRerun, SemInit
<1>2. ASSUME NEW a \in Atoms, PrintWait(a), pc[a] # "surplus"
      PROVE  \E b \in Atoms : Under(b, "semap_fin")'
  BY <1>2 DEF PrintWait, Prints
<1>3. CASE sem["semap_fin"] = 0
  <2>1. PICK b \in Atoms : Under(b, "semap_fin")
    BY <1>3 DEF FinHeld
  <2>2. CASE UNCHANGED vars \/ MainStart \/ MainReap
    BY <2>1, <2>2 DEF vars, MainStart, MainReap, atomVars
  <2>3. ASSUME NEW a \in Atoms, Fork(a) \/ ForkFails(a) PROVE Under(b, "semap_fin")'
    BY <2>1, <2>3 DEF Fork, ForkFails, ForkOrder, Prints
  <2>4. ASSUME NEW a \in Atoms, PrintStep(a), ~PrintPost(a) \/ Guard(pc[a]) # "semap_fin"
        PROVE  Under(b, "semap_fin")'
    <3>1. CASE PrintWait(a)
      BY <2>1, <3>1 DEF PrintWait
    <3>2. CASE PrintPost(a)
      BY <2>1, <2>4, <3>2 DEF PrintPost
    <3>3. CASE ~PrintWait(a) /\ ~PrintPost(a)
      BY <2>1, <2>4, <3>3 DEF PrintStep, PrintLoad, PrintStore, PrintLine
    <3> QED BY <3>1, <3>2, <3>3
  <2>5. ASSUME NEW a \in Atoms, PrintPost(a), Guard(pc[a]) = "semap_fin" PROVE FALSE
    BY <1>3, <2>5 DEF PrintPost, Post
  <2>6. ASSUME NEW a \in Atoms, CountStep(a) PROVE Under(b, "semap_fin")'
    BY <2>1, <2>6 DEF CountStep, CountLoad, CountStore, Classify, Prints
  <2>7. ASSUME NEW a \in Atoms, BondStep(a) PROVE Under(b, "semap_fin")'
    BY <2>1, <2>7 DEF BondStep, EnterH, EnterO, NumberMolecule, Admit, JoinLoad, JoinStore,
       JoinTest, Release, PassBarrier, PartLoad, PartStore,
       Ready, Collect, LastMolecule, Leave, Prints
  <2> QED BY <1>1, <2>2, <2>3, <2>4, <2>5, <2>6, <2>7 DEF Next, Main, Atom
<1>4. CASE sem["semap_fin"] # 0
  <2>1. CASE UNCHANGED vars \/ MainStart \/ MainReap
    BY <1>4, <2>1 DEF vars, MainStart, MainReap, Post
  <2>2. ASSUME NEW a \in Atoms, PrintStep(a), ~PrintWait(a) PROVE FALSE
    BY <1>4, <2>2
    DEF PrintStep, PrintLoad, PrintStore, PrintLine, PrintPost, Post
  <2>3. ASSUME NEW a \in Atoms, PrintWait(a), pc[a] = "surplus" PROVE FALSE
    BY <1>4, <2>3 DEF PrintWait, Wait
  <2>4. ASSUME NEW a \in Atoms, Fork(a) \/ ForkFails(a) \/ CountStep(a) \/ BondStep(a)
        PROVE  FALSE
    BY <1>4, <2>4 DEF Fork, ForkFails, CountStep, CountLoad, CountStore, Classify,
       BondStep, EnterH, EnterO, NumberMolecule, Admit, JoinLoad, JoinStore, JoinTest,
       Release, PassBarrier, PartLoad, PartStore,
       Ready, Collect, LastMolecule, Leave, Wait, Post
  <2> QED BY <1>1, <1>2, <2>1, <2>2, <2>3, <2>4 DEF Next, Main, Atom
<1> QED BY <1>3, <1>4

\* Every step keeps sem__stop open past the last number, torn updates or not.
LEMMA StopOpenStep ==
  ASSUME StopInv, StopOpen, [Next]_vars, crashes = 0, crashes' = 0
  PROVE  StopOpen'
<1> USE DEF StopInv, PlaceInv, TypeInv, TypeOK, Kinds, Goto, At, Atoms
<1>0. StopClosed' => StopClosed
  BY StopStaysOpen
<1>1. ASSUME main' = main, shm'.IDMolecule = shm.IDMolecule, Working' = Working PROVE StopOpen'
  BY <1>0, <1>1 DEF StopOpen
<1>2. CASE MainStart
  <2>1. main' = "fork" /\ shm'.IDMolecule = 0
    BY <1>2 DEF MainStart, StopOpen
  <2>2. Count_O_Atom = 0 => ~StopClosed'
    BY <1>2, TwoHydrogensEach DEF MainStart, Post, StopClosed, Semaphores
  <2> QED BY <2>1, <2>2, CountsAreNat DEF StopOpen
<1>3. CASE MainReap
  BY <1>0, <1>3 DEF MainReap, atomVars, StopOpen, Working
<1>4. ~CrashAndRerun
  BY DEF CrashAndRerun
<1>5. ASSUME NEW a \in Atoms, Fork(a) \/ ForkFails(a) PROVE StopOpen'
  BY <1>1, <1>5 DEF Fork, ForkFails, ForkOrder, Working, OxygenPlaces
<1>6. ASSUME NEW a \in Atoms, PrintStep(a) PROVE StopOpen'
  <2>1. CASE PrintPost(a)
    <3>1. /\ pc[a] \in Prints /\ pc' = [pc EXCEPT ![a] = AfterPrint(a)]
          /\ UNCHANGED <<main, shm>>
      BY <2>1 DEF PrintPost, Printing
    <3>2. Working' = Working
      BY <3>1, AtomsAssumption DEF AfterPrint, Prints, Working, OxygenPlaces
    <3> QED BY <1>1, <3>1, <3>2
  <2>2. CASE ~PrintPost(a)
    BY <1>1, <1>6, <2>2 DEF PrintStep, PrintWait, PrintLoad, PrintStore, PrintLine, Working
  <2> QED BY <2>1, <2>2
<1>7. ASSUME NEW a \in Atoms, CountStep(a) PROVE StopOpen'
  BY <1>1, <1>7 DEF CountStep, CountLoad, CountStore, Classify, Counter, Working, OxygenPlaces
<1>8. ASSUME NEW a \in Atoms, BondStep(a) PROVE StopOpen'
  <2>1. CASE NumberMolecule(a)
    <3>1. /\ a \in Oxygens /\ pc[a] = "number" /\ pc'[a] = "creating" /\ main' = main
          /\ shm'.IDMolecule = shm.IDMolecule + 1
      BY <2>1 DEF NumberMolecule
    <3>2. Working = {} /\ a \in Working'
      BY <3>1 DEF Working, OxygenLock, OxygenPlaces
    <3>3. main # "start"
      BY <3>1 DEF Unborn
    <3>4. shm.IDMolecule \in Nat
      OBVIOUS
    <3> QED BY <1>0, <3>1, <3>2, <3>3, <3>4, CountsAreNat DEF StopOpen
  <2>2. CASE LastMolecule(a)
    <3>1. pc[a] = "last" /\ UNCHANGED <<main, shm>>
      BY <2>2 DEF LastMolecule
    <3>2. Count_O_Atom = shm.IDMolecule => ~StopClosed'
      BY <2>2 DEF LastMolecule, Post, StopClosed, Semaphores
    <3>3. main # "start"
      BY <3>1 DEF Unborn
    <3>4. shm.IDMolecule \in Nat
      OBVIOUS
    <3>5. CASE Count_O_Atom < shm.IDMolecule
      BY <1>0, <3>1, <3>3, <3>5 DEF StopOpen
    <3>6. CASE Count_O_Atom >= shm.IDMolecule
      BY <3>1, <3>2, <3>3, <3>4, <3>6, CountsAreNat DEF StopOpen
    <3> QED BY <3>4, <3>5, <3>6, CountsAreNat
  <2>3. CASE EnterH(a) \/ EnterO(a) \/ Admit(a) \/ Collect(a) \/ Leave(a)
    BY <1>1, <2>3, AtomsAssumption DEF EnterH, EnterO, Admit, Collect, Leave, Working, OxygenPlaces
  <2>4. CASE JoinLoad(a) \/ JoinStore(a) \/ JoinTest(a)
    BY <1>1, <2>4, AtomsAssumption DEF JoinLoad, JoinStore, JoinTest, Working, OxygenPlaces
  <2>5. CASE Release(a) \/ PassBarrier(a)
    BY <1>1, <2>5, AtomsAssumption DEF Release, PassBarrier, Working, OxygenPlaces
  <2>6. CASE PartLoad(a) \/ PartStore(a) \/ Ready(a)
    BY <1>1, <2>6, AtomsAssumption DEF PartLoad, PartStore, Ready, Working, OxygenPlaces
  <2> QED BY <1>8, <2>1, <2>2, <2>3, <2>4, <2>5, <2>6 DEF BondStep
<1>9. CASE UNCHANGED vars
  BY <1>1, <1>9 DEF vars, Working
<1> QED BY <1>2, <1>3, <1>4, <1>5, <1>6, <1>7, <1>8, <1>9 DEF Next, Main, Atom

\* The atoms that have counted themselves can be counted.
LEMMA CountedFinite ==
  ASSUME NEW S \in {Hydrogens, Oxygens}
  PROVE  /\ IsFiniteSet(Counted(S)) /\ Cardinality(Counted(S)) \in Nat
         /\ IsFiniteSet(Entered(S)) /\ Cardinality(Entered(S)) \in Nat
         /\ Cardinality(Entered(S)) <= Cardinality(Counted(S))
<1>1. Entered(S) \subseteq Counted(S) /\ Counted(S) \subseteq S
  BY DEF Counted, Entered
<1> QED BY <1>1, AtomsAssumption, FS_Subset, FS_CardinalityType

\* A step by which no atom counts itself or goes in to bond.
LEMMA NeededKept ==
  ASSUME TypeOK, NeededOnly,
         shm'.hydrogen_n = shm.hydrogen_n, shm'.oxygen_n = shm.oxygen_n,
         \A S \in {Hydrogens, Oxygens} : /\ Entered(S)' \subseteq Entered(S)
                                         /\ Counted(S)' \subseteq Counted(S)
  PROVE  NeededOnly'
<1>1. \A S \in {Hydrogens, Oxygens} :
        /\ Cardinality(Entered(S)') \in Nat /\ Cardinality(Entered(S)') <= Cardinality(Entered(S))
        /\ Cardinality(Counted(S)') \in Nat /\ Cardinality(Counted(S)') <= Cardinality(Counted(S))
  BY CountedFinite, FS_Subset, FS_CardinalityType
<1>2. shm.hydrogen_n \in Nat /\ shm.oxygen_n \in Nat
  BY DEF TypeOK
<1> HIDE DEF Entered, Counted
<1> QED BY <1>1, <1>2, CountedFinite, CountsAreNat DEF NeededOnly

\* While no update is disturbed the counters count at least the atoms that may bond, so
\* no more go in than are needed.
LEMMA NeededStep ==
  ASSUME CountInv, NeededOnly, Undisturbed, [Next]_vars, crashes' = crashes
  PROVE  NeededOnly'
<1>0. TypeOK /\ Kinds /\ PlaceInv
  BY DEF CountInv, LineInv, BaseInv, StopInv, PlaceInv, TypeInv
<1> DEFINE Kept == \A S \in {Hydrogens, Oxygens} : /\ Entered(S)' \subseteq Entered(S)
                                                   /\ Counted(S)' \subseteq Counted(S)
<1> USE DEF Goto, At, outVars, atomVars, TypeOK, Counted, Entered, OxygenPlaces, HydrogenPlaces, Atoms
<1>1. CASE UNCHANGED vars \/ MainStart \/ MainReap
  BY <1>0, <1>1, NeededKept DEF vars, MainStart, MainReap
<1>2. ~CrashAndRerun
  BY <1>0 DEF CrashAndRerun
<1>3. ASSUME NEW a \in Atoms, Fork(a) \/ ForkFails(a) PROVE NeededOnly'
  BY <1>0, <1>3, NeededKept DEF Fork, ForkFails, ForkOrder
<1>4. ASSUME NEW a \in Atoms, PrintStep(a) PROVE NeededOnly'
  <2>1. CASE PrintWait(a) \/ PrintLoad(a) \/ PrintStore(a)
    BY <1>0, <2>1, NeededKept DEF PrintWait, PrintLoad, PrintStore
  <2>2. CASE PrintLine(a)
    BY <1>0, <2>2, NeededKept DEF PrintLine
  <2>3. CASE PrintPost(a)
    <3>1. /\ pc[a] \in Prints /\ pc' = [pc EXCEPT ![a] = AfterPrint(a)]
          /\ UNCHANGED <<shm, created>>
      BY <2>3 DEF PrintPost, Printing
    <3>2. Kept
      BY <1>0, <3>1 DEF AfterPrint, Prints
    <3> QED BY <1>0, <3>1, <3>2, NeededKept
  <2> QED BY <1>4, <2>1, <2>2, <2>3 DEF PrintStep
<1>5. ASSUME NEW a \in Atoms, CountStep(a) PROVE NeededOnly'
  <2>1. CASE CountLoad(a)
    BY <1>0, <2>1, NeededKept DEF CountLoad
  <2>2. CASE CountStore(a)
    <3>1. /\ pc[a] = "countStore" /\ pc' = [pc EXCEPT ![a] = "classify"]
          /\ shm' = [shm EXCEPT ![Counter(a)] = shm[Counter(a)] + 1]
          /\ created' = created
      BY <2>2 DEF CountStore, Undisturbed
    <3>2. \A S \in {Hydrogens, Oxygens} :
            /\ Entered(S)' = Entered(S)
            /\ Counted(S)' = IF a \in S THEN Counted(S) \cup {a} ELSE Counted(S)
      BY <1>0, <3>1
    <3>3. \A S \in {Hydrogens, Oxygens} :
            /\ Cardinality(Counted(S)') \in Nat
            /\ Cardinality(Counted(S)') <= Cardinality(Counted(S)) + 1
            /\ a \notin S => Cardinality(Counted(S)') = Cardinality(Counted(S))
      <4> TAKE S \in {Hydrogens, Oxygens}
      <4>1. IsFiniteSet(Counted(S)) /\ Cardinality(Counted(S)) \in Nat
        BY CountedFinite
      <4>2. CASE a \in S
        <5>1. Counted(S)' = Counted(S) \cup {a}
          BY <3>2, <4>2
        <5>2. IsFiniteSet(Counted(S)') /\ Cardinality(Counted(S)') \in Nat
          <6>1. IsFiniteSet(Counted(S) \cup {a})
            BY ONLY <4>1, FS_AddElement
          <6>2. Cardinality(Counted(S) \cup {a}) \in Nat
            BY ONLY <6>1, FS_CardinalityType
          <6> HIDE DEF Counted, Entered
          <6> QED BY ONLY <5>1, <6>1, <6>2
        <5>3. \/ Cardinality(Counted(S)') = Cardinality(Counted(S))
              \/ Cardinality(Counted(S)') = Cardinality(Counted(S)) + 1
          BY <4>1, <5>1, FS_AddElement
        <5> HIDE DEF Counted, Entered
        <5> QED BY <4>1, <4>2, <5>2, <5>3
      <4>3. CASE a \notin S
        <5>1. Counted(S)' = Counted(S)
          BY <3>2, <4>3
        <5> HIDE DEF Counted, Entered
        <5> QED BY <4>1, <5>1
      <4> QED BY <4>2, <4>3
    <3>4. /\ shm.hydrogen_n \in Nat /\ shm.oxygen_n \in Nat
          /\ a \in Hydrogens => /\ shm'.hydrogen_n = shm.hydrogen_n + 1
                                /\ shm'.oxygen_n = shm.oxygen_n /\ a \notin Oxygens
          /\ a \in Oxygens => /\ shm'.oxygen_n = shm.oxygen_n + 1
                              /\ shm'.hydrogen_n = shm.hydrogen_n /\ a \notin Hydrogens
      BY <1>0, <3>1, AtomsAssumption DEF Counter
    <3> HIDE DEF Counted, Entered
    <3> QED BY <3>2, <3>3, <3>4, CountedFinite DEF NeededOnly
  <2>3. CASE Classify(a) /\ ~(Needed(a) < shm[Counter(a)])
    <3>1. /\ pc[a] = "classify" /\ pc' = [pc EXCEPT ![a] = "enter"] /\ UNCHANGED <<shm, created>>
      BY <2>3 DEF Classify
    <3>2. \A S \in {Hydrogens, Oxygens} :
            /\ Counted(S)' = Counted(S) /\ Entered(S)' \subseteq Counted(S)
            /\ a \notin S => Entered(S)' = Entered(S)
      BY <1>0, <3>1
    <3>3. \A S \in {Hydrogens, Oxygens} : /\ Cardinality(Entered(S)') \in Nat
                                          /\ Cardinality(Entered(S)') <= Cardinality(Counted(S))
      BY <3>2, CountedFinite, FS_Subset, FS_CardinalityType
    <3>4. /\ shm.hydrogen_n \in Nat /\ shm.oxygen_n \in Nat
          /\ a \in Hydrogens => shm.hydrogen_n <= Count_H_Atom /\ a \notin Oxygens
          /\ a \in Oxygens => shm.oxygen_n <= Count_O_Atom /\ a \notin Hydrogens
      BY <1>0, <2>3, CountsAreNat, AtomsAssumption DEF Needed, Counter
    <3> HIDE DEF Counted, Entered
    <3> QED BY <3>1, <3>2, <3>3, <3>4, CountedFinite, CountsAreNat DEF NeededOnly
  <2>4. CASE Classify(a) /\ Needed(a) < shm[Counter(a)]
    BY <1>0, <2>4, NeededKept DEF Classify
  <2> QED BY <1>5, <2>1, <2>2, <2>3, <2>4 DEF CountStep
<1>6. ASSUME NEW a \in Atoms, BondStep(a) PROVE NeededOnly'
  <2>1. CASE EnterH(a) \/ EnterO(a) \/ NumberMolecule(a) \/ Admit(a)
    BY <1>0, <2>1, NeededKept DEF EnterH, EnterO, NumberMolecule, Admit
  <2>2. CASE JoinLoad(a) \/ JoinStore(a) \/ JoinTest(a)
    BY <1>0, <2>2, NeededKept DEF JoinLoad, JoinStore, JoinTest
  <2>3. CASE Release(a) \/ PassBarrier(a)
    BY <1>0, <2>3, NeededKept DEF Release, PassBarrier
  <2>4. CASE PartLoad(a) \/ PartStore(a) \/ Ready(a)
    BY <1>0, <2>4, NeededKept DEF PartLoad, PartStore, Ready
  <2>5. CASE Collect(a) \/ LastMolecule(a) \/ Leave(a)
    BY <1>0, <2>5, NeededKept DEF Collect, LastMolecule, Leave
  <2> QED BY <1>6, <2>1, <2>2, <2>3, <2>4, <2>5 DEF BondStep
<1> QED BY <1>1, <1>2, <1>3, <1>4, <1>5, <1>6 DEF Next, Main, Atom

\* Nothing has happened yet.
LEMMA ProgressInit == Init => ProgressInv
<1> SUFFICES ASSUME Init PROVE NeededOnly /\ StopOpen
  BY SurplusInit, BarrierInit, NumberInit
  DEF ProgressInv, FinHeld, Init, SemInit, Semaphores
<1>1. \A S \in {Hydrogens, Oxygens} : Counted(S) = {} /\ Entered(S) = {}
  BY DEF Init, Counted, Entered, OxygenPlaces, HydrogenPlaces, Atoms
<1> QED BY <1>1, FS_EmptySet, CountsAreNat DEF Init, ShmZero, NeededOnly, StopOpen

\* Every undisturbed step keeps the invariant: a kill ends what it says.
LEMMA ProgressStep ==
  UintSize > 2 /\ ProgressInv /\ Undisturbed /\ Undisturbed' /\ [Next]_vars => ProgressInv'
<1> SUFFICES ASSUME UintSize > 2, ProgressInv, Undisturbed, Undisturbed', [Next]_vars
             PROVE  ProgressInv'
  OBVIOUS
<1>1. SurplusInv' /\ BarrierInv' /\ NumberInv' /\ FinHeld'
  BY SurplusStep, BarrierStep, NumberStep, FinHeldStep DEF ProgressInv, NumberInv, StopInv
<1>2. CountInv /\ StopInv /\ TypeOK
  BY DEF ProgressInv, BarrierInv, CountInv, LineInv, BaseInv, StopInv, PlaceInv, TypeInv
<1>3. ASSUME crashes' = 0 PROVE NeededOnly' /\ StopOpen'
  <2>1. crashes = 0 /\ NeededOnly /\ StopOpen
    BY <1>2, <1>3, CrashesCount DEF ProgressInv
  <2> QED BY <1>2, <1>3, <2>1, NeededStep, StopOpenStep
<1> QED BY <1>1, <1>3 DEF ProgressInv

\* A state in which everybody that is alive waits, in a run on a fresh segment where
\* every atom that is needed has been forked and none of them is left out.
AllWait ==
  /\ ProgressInv /\ crashes = 0 /\ SurplusOnlyWhenShort
  /\ \A a \in Atoms : pc[a] # "unborn" /\ (Alive(a) => Waiting(a))

\* The atoms that wait are at one of five sem_waits: whoever prints is not stopped
\* by another one, since that one would run.
LEMMA WaitingPlaces ==
  ASSUME AllWait, NEW a \in Atoms
  PROVE  /\ pc[a] \in {"enter", "barrier", "collect", "gone", "surplus"}
         /\ pc[a] = "enter" /\ a \in Hydrogens => sem["semap_H"] = 0
         /\ pc[a] = "enter" /\ a \in Oxygens => sem["semap_O"] = 0
         /\ pc[a] = "barrier" => sem["sem_creating"] = 0
         /\ pc[a] = "collect" => sem["sem_ready"] = 0
         /\ pc[a] = "surplus" => StopClosed
<1>1. /\ TypeOK /\ StepIdle /\ FinHeld
  BY DEF AllWait, ProgressInv, NumberInv, StopInv, PlaceInv, TypeInv
<1>2. ASSUME NEW b \in Atoms, Alive(b)
      PROVE  \E s \in Semaphores : WaitsFor(b, s) /\ sem[s] = 0
  BY <1>2 DEF AllWait, Waiting
<1>3. \A b \in Atoms : ~Printing(b)
  BY <1>2 DEF Printing, Prints, WaitsFor, Alive, At
<1>4. ASSUME NEW b \in Atoms, pc[b] \in Prints \ {"surplus"} PROVE FALSE
  <2>1. sem["semap_fin"] = 0
    BY <1>2, <1>4 DEF Alive, WaitsFor, At, Guard, Prints
  <2> QED BY <1>1, <1>3, <2>1 DEF FinHeld, Under
<1>5. pc[a] = "surplus" => StopClosed
  BY <1>2, <1>3 DEF Alive, WaitsFor, At, Guard, Prints, StopClosed, Under
<1> QED BY <1>2, <1>4, <1>5, AtomsAssumption DEF AllWait, WaitsFor, Alive, At, Prints, Atoms

\* What the invariant says of such a state, in the terms of the sets it counts.
LEMMA WaitingCounts ==
  ASSUME AllWait
  PROVE  /\ TypeOK /\ LeftOK /\ Kinds /\ OxygenLock /\ OneMoleculeAtATime /\ AtomLines
         /\ CountInv /\ Tally /\ Gate /\ NeededOnly
         /\ Releasing = {} /\ Testing = {} /\ HInside = Counting
         /\ \A h \in Hydrogens : /\ pc[h] \in {"enter", "barrier", "gone", "surplus"}
                                 /\ created[h] # 0 => pc[h] = "gone"
                                 /\ pc[h] = "barrier" <=> h \in HInside
         /\ \A o \in Oxygens : created[o] # 0 => pc[o] \in {"collect", "gone"}
<1>1. /\ TypeOK /\ LeftOK /\ Kinds /\ OxygenLock /\ OneMoleculeAtATime /\ AtomLines
      /\ CountInv /\ Tally /\ Gate /\ NeededOnly
  BY DEF AllWait, ProgressInv, SurplusInv, BarrierInv, CountInv, LineInv, BaseInv, StopInv,
     MoleculeInv, PlaceInv, TypeInv
<1>2. \A a \in Atoms : pc[a] \in {"enter", "barrier", "collect", "gone", "surplus"}
  BY WaitingPlaces
<1>3. \A h \in Hydrogens : h \in Atoms /\ pc[h] \in {"enter", "barrier", "gone", "surplus"}
  BY <1>1, <1>2 DEF Kinds, Atoms
<1>4. \A a \in Atoms : pc[a] \in {"enter", "barrier", "surplus"} => created[a] = 0
  BY <1>1 DEF AtomLines, Uncreated, Unannounced
<1>5. Releasing = {} /\ Testing = {} /\ HInside = Counting
  BY <1>3 DEF Releasing, Testing, HInside, HydrogenPlaces, Counting
<1> QED BY <1>1, <1>2, <1>3, <1>4, <1>5 DEF Atoms, HInside, HydrogenPlaces

\* Enough atoms of a kind that is not short have bonded or are still inside.
LEMMA NoneLeftOut ==
  ASSUME SurplusOnlyWhenShort, NEW In, In \subseteq Hydrogens \/ In \subseteq Oxygens
  PROVE  /\ Hydrogens = In \cup Made(Hydrogens) \cup LeftOut(Hydrogens)
              => Count_H_Atom <= Cardinality(In) + Cardinality(Made(Hydrogens))
         /\ Oxygens = In \cup Made(Oxygens) \cup LeftOut(Oxygens)
              => Count_O_Atom <= Cardinality(In) + Cardinality(Made(Oxygens))
<1>1. ASSUME NEW A, NEW B, NEW C, IsFiniteSet(A), IsFiniteSet(B), IsFiniteSet(C)
      PROVE  /\ Cardinality(A) \in Nat /\ Cardinality(B) \in Nat /\ Cardinality(C) \in Nat
             /\ Cardinality(A \cup B \cup C) <= Cardinality(A) + Cardinality(B) + Cardinality(C)
  <2>1. ASSUME NEW X, NEW Y, IsFiniteSet(X), IsFiniteSet(Y)
        PROVE  /\ Cardinality(X \cup Y) <= Cardinality(X) + Cardinality(Y)
               /\ IsFiniteSet(X \cup Y) /\ Cardinality(X \cup Y) \in Nat
               /\ Cardinality(X) \in Nat /\ Cardinality(Y) \in Nat
    <3>1. Cardinality(X \cup Y) = Cardinality(X) + Cardinality(Y) - Cardinality(X \cap Y)
      BY <2>1, FS_Union
    <3>2. IsFiniteSet(X \cap Y) /\ IsFiniteSet(X \cup Y)
      BY <2>1, FS_Intersection, FS_Union
    <3>3. /\ Cardinality(X \cap Y) \in Nat /\ Cardinality(X \cup Y) \in Nat
          /\ Cardinality(X) \in Nat /\ Cardinality(Y) \in Nat
      BY <2>1, <3>2, FS_CardinalityType
    <3> QED BY <3>1, <3>2, <3>3
  <2>2. /\ Cardinality(A \cup B) <= Cardinality(A) + Cardinality(B)
        /\ IsFiniteSet(A \cup B) /\ Cardinality(A \cup B) \in Nat
        /\ Cardinality(A) \in Nat /\ Cardinality(B) \in Nat
    BY <1>1, <2>1
  <2>3. /\ Cardinality((A \cup B) \cup C) <= Cardinality(A \cup B) + Cardinality(C)
        /\ Cardinality((A \cup B) \cup C) \in Nat /\ Cardinality(C) \in Nat
    BY <1>1, <2>1, <2>2
  <2> QED BY <2>2, <2>3
<1>2. /\ IsFiniteSet(In) /\ IsFiniteSet(LeftOut(Hydrogens)) /\ IsFiniteSet(LeftOut(Oxygens))
      /\ Cardinality(LeftOut(Hydrogens)) <= NH - Count_H_Atom
      /\ Cardinality(LeftOut(Oxygens)) <= NO - Count_O_Atom
  <2>1. LeftOut(Hydrogens) \subseteq Hydrogens /\ LeftOut(Oxygens) \subseteq Oxygens
    BY DEF LeftOut
  <2> QED BY <2>1, AtomsAssumption, FS_Subset DEF SurplusOnlyWhenShort
<1>3. ASSUME Hydrogens = In \cup Made(Hydrogens) \cup LeftOut(Hydrogens)
      PROVE  Count_H_Atom <= Cardinality(In) + Cardinality(Made(Hydrogens))
  <2>1. NH <= Cardinality(In) + Cardinality(Made(Hydrogens)) + Cardinality(LeftOut(Hydrogens))
    BY <1>1, <1>2, <1>3, MadeFinite DEF NH
  <2> QED BY <1>1, <1>2, <2>1, MadeFinite, CountsAreNat
<1>4. ASSUME Oxygens = In \cup Made(Oxygens) \cup LeftOut(Oxygens)
      PROVE  Count_O_Atom <= Cardinality(In) + Cardinality(Made(Oxygens))
  <2>1. NO <= Cardinality(In) + Cardinality(Made(Oxygens)) + Cardinality(LeftOut(Oxygens))
    BY <1>1, <1>2, <1>4, MadeFinite DEF NO
  <2> QED BY <1>1, <1>2, <2>1, MadeFinite, CountsAreNat
<1> QED BY <1>3, <1>4

\* Between two molecules: the next oxygen would go in, so all that are needed have
\* bonded, and with them all the hydrogens; the rest find sem__stop open.
LEMMA NoneWaitsIdle ==
  ASSUME AllWait, OInside = {}
  PROVE  \A a \in Atoms : pc[a] = "gone"
<1> USE WaitingCounts
<1>1. sem["semap_O"] = 1 /\ HInside = {}
  BY FS_EmptySet DEF OneMoleculeAtATime, TypeOK, Semaphores
<1>2. ASSUME NEW o \in Oxygens PROVE pc[o] \in {"gone", "surplus"}
  <2>1. pc[o] \notin OxygenPlaces
    BY DEF OInside
  <2> QED BY <1>1, <2>1, WaitingPlaces DEF OxygenPlaces, Atoms
<1>3. Pending = {} /\ Leader = {} /\ Working = {}
  BY <1>2 DEF Pending, Leader, Working, OInside
<1>4. Count_O_Atom <= shm.IDMolecule
  <2>1. Oxygens = {} \cup Made(Oxygens) \cup LeftOut(Oxygens)
    BY <1>2 DEF Made, LeftOut, At
  <2>2. Count_O_Atom <= Cardinality(Made(Oxygens))
    BY <2>1, NoneLeftOut, FS_EmptySet, MadeFinite, CountsAreNat DEF AllWait
  <2> QED BY <1>3, <2>2 DEF Tally
<1>5. main # "start" \/ Atoms = {}
  BY DEF AllWait, ProgressInv, NumberInv, StopInv, PlaceInv, Unborn
<1>6. ~StopClosed \/ Atoms = {}
  BY <1>3, <1>4, <1>5, CountsAreNat DEF AllWait, ProgressInv, StopOpen, TypeOK
<1>7. \A a \in Atoms : pc[a] # "surplus"
  BY <1>6, WaitingPlaces
<1>8. ASSUME NEW h \in Hydrogens PROVE pc[h] # "enter"
  <2>1. Made(Hydrogens) \subseteq Entered(Hydrogens)
    BY DEF Made, Entered
  <2>2. Cardinality(Made(Hydrogens)) = 2 * shm.IDMolecule
    BY <1>3 DEF Tally
  <2>3. Cardinality(Entered(Hydrogens)) <= Cardinality(Made(Hydrogens))
    BY <1>4, <2>2, TwoHydrogensEach, CountsAreNat, CountedFinite DEF NeededOnly, TypeOK
  <2>4. Cardinality(Entered(Hydrogens)) = Cardinality(Made(Hydrogens))
    BY <2>1, <2>3, CountedFinite, MadeFinite, FS_Subset
  <2>5. Made(Hydrogens) = Entered(Hydrogens)
    BY <2>1, <2>4, CountedFinite, FS_Subset
  <2> QED BY <2>5 DEF Made, Entered
<1> QED BY <1>1, <1>2, <1>7, <1>8 DEF Atoms

\* While the barrier is shut the oxygen waits for hydrogens that have not come: one
\* of them would take what is left of semap_H.
LEMMA NoneWaitsShut ==
  ASSUME AllWait, NEW o \in OInside, Shut
  PROVE  FALSE
<1> USE WaitingCounts
<1>1. pc[o] = "barrier" /\ o \in Oxygens /\ o \in Atoms /\ o \in Leader
  BY WaitingPlaces DEF OInside, OxygenPlaces, Shut, Passed, Leader, Atoms
<1>2. sem["semap_H"] + Cardinality(HInside) + sem["sem_ready"] = 2
  BY <1>1 DEF OneMoleculeAtATime, Owed
<1>3. Told(created, shm.IDMolecule) = {}
  <2> SUFFICES ASSUME NEW h \in Hydrogens, created[h] = shm.IDMolecule PROVE FALSE
    BY DEF Told
  <2>1. shm.IDMolecule > 0 /\ h \in Atoms
    BY <1>1, LeaderNumbered DEF CountInv, Atoms
  <2>2. creating[h] = shm.IDMolecule /\ pc[h] = "gone"
    BY <2>1 DEF AtomLines
  <2> QED BY <2>2 DEF Shut, Passed, Team, Told
<1>4. Untold(created) = HInside
  BY DEF Untold, HInside
<1>5. sem["semap_H"] + Cardinality(HInside) = 2
  BY <1>1, <1>3, <1>4, InsideFinite, FS_EmptySet
  DEF CountInv, HydrogenLines, Accounted, Admitted, TypeOK, Semaphores
<1>6. sem["semap_H"] # 0 /\ Cardinality(HInside) <= 1
  <2>1. Testing = {} /\ HInside = Counting
    BY WaitingCounts
  <2> QED BY <1>5, <2>1, InsideFinite DEF Shut
<1>7. Hydrogens = HInside \cup Made(Hydrogens) \cup LeftOut(Hydrogens)
  <2>1. \A h \in Hydrogens : pc[h] # "enter"
    BY <1>6, WaitingPlaces DEF Atoms
  <2> QED BY <2>1 DEF Made, HInside, LeftOut, At
<1>8. Count_H_Atom <= Cardinality(HInside) + Cardinality(Made(Hydrogens))
  BY <1>7, NoneLeftOut DEF AllWait, HInside
<1>9. Cardinality(Made(Hydrogens)) + 2 = 2 * shm.IDMolecule
  BY <1>1, <1>3, FS_EmptySet, MadeFinite DEF Tally, TypeOK
<1>10. Cardinality(Made(Oxygens)) + 1 = shm.IDMolecule
  BY <1>1 DEF Tally, Pending
<1>11. Cardinality(Made(Oxygens)) + 1 <= Count_O_Atom
  <2>1. Made(Oxygens) \cup {o} \subseteq Entered(Oxygens) /\ o \notin Made(Oxygens)
    BY <1>1 DEF Made, Entered, OxygenPlaces
  <2>2. Cardinality(Made(Oxygens) \cup {o}) = Cardinality(Made(Oxygens)) + 1
    BY <2>1, MadeFinite, FS_AddElement
  <2>3. Cardinality(Made(Oxygens) \cup {o}) <= Cardinality(Entered(Oxygens))
    BY <2>1, CountedFinite, FS_Subset
  <2> QED BY <2>2, <2>3, CountedFinite, MadeFinite, CountsAreNat DEF NeededOnly
<1> QED BY <1>6, <1>8, <1>9, <1>10, <1>11, TwoHydrogensEach, InsideFinite, MadeFinite, CountsAreNat
        DEF TypeOK

\* Once the barrier is open it holds a permit for everybody that waits at it, so the
\* oxygen waits alone; but its hydrogens have posted what it waits for.
LEMMA NoneWaitsOpened ==
  ASSUME AllWait, NEW o \in OInside, Opened
  PROVE  FALSE
<1> USE WaitingCounts
<1>1. o \in Oxygens /\ o \in Atoms /\ o \in Leader /\ pc[o] \in {"barrier", "collect"}
  BY WaitingPlaces DEF OInside, OxygenPlaces, Leader, Atoms
<1>2. \A a \in Atoms : pc[a] # "barrier"
  <2> SUFFICES ASSUME NEW a \in Atoms, pc[a] = "barrier" PROVE FALSE
    OBVIOUS
  <2>1. Cardinality(Passed) = 3
    BY WaitingPlaces, GateFinite DEF Opened
  <2>2. Passed \subseteq Team \cup {o}
    BY <1>1 DEF Passed, OxygenLock, OxygenPlaces
  <2>3. o \notin Team
    BY <1>1, AtomsAssumption DEF Team, Told
  <2>4. IsFiniteSet(Team \cup {o}) /\ Cardinality(Team \cup {o}) = 3
    <3>1. Cardinality(Team) = 2 /\ IsFiniteSet(Team)
      BY GateFinite DEF Opened, Complete
    <3> QED BY ONLY <2>3, <3>1, FS_AddElement
  <2>5. Passed = Team \cup {o}
    BY <2>1, <2>2, <2>4, FS_Subset
  <2>6. a \in Team \cup {o}
    BY <1>1, WaitingPlaces
    DEF AtomLines, Unannounced, OxygenLock, OxygenPlaces, Team, Told, Atoms
  <2> QED BY <1>1, <2>5, <2>6, AtomsAssumption DEF Passed, Team, Told
<1>3. pc[o] = "collect" /\ HInside = {}
  BY <1>1, <1>2 DEF HInside, Atoms
<1>4. left[o] >= 1 /\ sem["sem_ready"] = 0
  BY <1>1, <1>3, WaitingPlaces DEF LeftOK
<1>5. sem["semap_H"] + 0 + 0 = left[o]
  BY <1>1, <1>3, <1>4, FS_EmptySet DEF OneMoleculeAtATime, Owed
<1>6. sem["semap_H"] + Cardinality(Untold(creating)) + 2 = 2
  BY <1>1, <1>3 DEF CountInv, HydrogenLines, Accounted, Admitted, Opened, Complete, Team
<1>7. Cardinality(Untold(creating)) \in Nat /\ sem["semap_H"] \in Nat
  BY ToldFinite DEF TypeOK, Semaphores
<1> QED BY <1>4, <1>5, <1>6, <1>7 DEF TypeOK

\* As long as no update is disturbed and no atom that is needed is missing, the atoms
\* never all wait for one another, for any number of molecules and of surplus atoms.
THEOREM NobodyIsStuck ==
  ASSUME UintSize > 2
  PROVE  UndisturbedSpec => []NoneStuck
<1>1. ProgressInv => NoneStuck
  <2> SUFFICES ASSUME AllWait, NEW a \in Atoms, Alive(a) PROVE FALSE
    BY DEF NoneStuck, AllWait, At
  <2>1. CASE OInside = {}
    BY <2>1, NoneWaitsIdle DEF Alive
  <2>2. ASSUME NEW o \in OInside PROVE FALSE
    <3>1. Leader # {}
      BY <2>2, WaitingPlaces DEF Leader, OInside, OxygenPlaces, Atoms
    <3>2. Shut \/ Opened
      BY <3>1, WaitingCounts DEF Gate, Opening
    <3> QED BY <2>2, <3>2, NoneWaitsShut, NoneWaitsOpened
  <2> QED BY <2>1, <2>2
<1>2. ProgressInv /\ Undisturbed /\ Undisturbed' /\ [Next]_vars => ProgressInv'
  BY ProgressStep
<1> QED BY <1>1, <1>2, ProgressInit, UndisturbedInit, UndisturbedStep, PTL DEF UndisturbedSpec

-----------------------------------------------------------------------------
(* Nobody is stuck where nothing bonds: main opens sem__stop, and the surplus *)
(* atoms pass it on, whatever the torn counters say.                       *)

SparePlaces == {"unborn", "started", "queue", "count", "countStore", "classify", "surplus", "gone"}

\* An atom that has counted itself finds its counter above zero.
AllSpare ==
  \A a \in Atoms : /\ pc[a] \in SparePlaces
                   /\ pc[a] = "classify" => shm[Counter(a)] > 0

SpareInv == StopInv /\ FinHeld /\ AllSpare /\ (crashes = 0 => StopOpen)

\* Where no oxygen is needed, no hydrogen is.
LEMMA NobodyNeeded ==
  ASSUME Count_O_Atom = 0
  PROVE  Count_H_Atom = 0 /\ \A a \in Atoms : Needed(a) = 0
BY TwoHydrogensEach DEF Needed

\* Before main starts nobody is born and semap_fin is free.
LEMMA SpareInit == Init => SpareInv
<1> SUFFICES ASSUME Init PROVE FinHeld /\ AllSpare /\ StopOpen
  BY StopInit DEF SpareInv
<1> QED BY DEF Init, SemInit, ShmZero, Semaphores, FinHeld, AllSpare, StopOpen, SparePlaces

\* An atom that has stored its count is surplus, for its counter is above zero and
\* nobody is needed.
LEMMA AllSpareStep ==
  ASSUME Count_O_Atom = 0
  PROVE  SpareInv /\ [Next]_vars => AllSpare'
<1> SUFFICES ASSUME SpareInv, [Next]_vars PROVE AllSpare'
  OBVIOUS
<1> USE DEF SpareInv, StopInv, PlaceInv, TypeInv, TypeOK, Goto, At, AllSpare, SparePlaces, Counter
<1>1. CASE UNCHANGED vars \/ MainStart \/ MainReap
  BY <1>1 DEF vars, MainStart, MainReap, atomVars
<1>2. CASE CrashAndRerun
  BY <1>2 DEF CrashAndRerun
<1>3. ASSUME NEW a \in Atoms, Fork(a) \/ ForkFails(a) PROVE AllSpare'
  BY <1>3 DEF Fork, ForkFails
<1>4. ASSUME NEW a \in Atoms, PrintStep(a) PROVE AllSpare'
  <2>1. CASE PrintPost(a)
    <3>1. AfterPrint(a) \in {"queue", "count", "gone"}
      BY <2>1 DEF PrintPost, Printing, Prints, AfterPrint
    <3> QED BY <2>1, <3>1 DEF PrintPost
  <2>2. CASE ~PrintPost(a)
    BY <1>4, <2>2 DEF PrintStep, PrintWait, PrintLoad, PrintStore, PrintLine
  <2> QED BY <2>1, <2>2
<1>5. ASSUME NEW a \in Atoms, CountStep(a) PROVE AllSpare'
  <2>1. CASE CountLoad(a)
    BY <2>1 DEF CountLoad
  <2>2. CASE CountStore(a)
    BY <2>2 DEF CountStore
  <2>4. CASE Classify(a)
    BY <2>4, NobodyNeeded DEF Classify
  <2> QED BY <1>5, <2>1, <2>2, <2>4 DEF CountStep
<1>6. ASSUME NEW a \in Atoms, BondStep(a) PROVE FALSE
  BY <1>6 DEF BondStep, EnterH, EnterO, NumberMolecule, Admit, JoinLoad, JoinStore,
     JoinTest, Release, PassBarrier, PartLoad, PartStore,
     Ready, Collect, LastMolecule, Leave
<1> QED BY <1>1, <1>2, <1>3, <1>4, <1>5, <1>6 DEF Next, Main, Atom

\* Where the arguments allow no molecule, the atoms never all wait for one another,
\* whatever becomes of the counters: main lets the surplus atoms go.
THEOREM NobodySpareIsStuck ==
  ASSUME Count_O_Atom = 0
  PROVE  Spec => []NoneStuck
<1>1. SpareInv /\ [Next]_vars => SpareInv'
  <2> SUFFICES ASSUME SpareInv, [Next]_vars, crashes' = 0 PROVE StopOpen'
    BY StopStep, FinHeldStep, AllSpareStep DEF SpareInv, StopInv
  <2> QED BY CrashesCount, StopOpenStep DEF SpareInv, StopInv, PlaceInv, TypeInv
<1>2. SpareInv => NoneStuck
  <2> SUFFICES ASSUME SpareInv, NEW a \in Atoms, Alive(a), crashes = 0,
                      \A b \in Atoms : ~At(b, "unborn"),
                      \A b \in Atoms : Alive(b) => Waiting(b)
               PROVE  FALSE
    BY DEF NoneStuck
  <2> USE DEF SpareInv, StopInv, PlaceInv, AllSpare, SparePlaces
  <2>1. ASSUME NEW b \in Atoms, Alive(b)
        PROVE  pc[b] \in Prints /\ step[b] = "wait" /\ sem[Guard(pc[b])] = 0
    BY <2>1 DEF Waiting, WaitsFor, At, Prints
  <2>2. \A b \in Atoms, s \in Semaphores : ~Under(b, s)
    BY <2>1 DEF Under, Printing, Prints, Alive
  <2>3. main # "start" /\ Working = {} /\ shm.IDMolecule \in Nat
    BY DEF Unborn, At, Working, OxygenPlaces, TypeInv, TypeOK, Atoms
  <2>4. ~StopClosed
    BY <2>3 DEF StopOpen
  <2> QED BY <2>1, <2>2, <2>4 DEF FinHeld, StopClosed, Guard, Semaphores
<1> QED BY <1>1, <1>2, SpareInit, PTL DEF Spec

-----------------------------------------------------------------------------
(* Molecule implements Bonding: taking the number opens a molecule, the    *)
(* first line of a hydrogen joins it, the second line of an atom makes it, *)
(* posting semap_O closes it, and every other step stutters.               *)

\* A step that announces nothing and keeps the leader.
LEMMA BondsStutter ==
  ASSUME shm'.IDMolecule = shm.IDMolecule, UNCHANGED <<creating, created>>, Leader' = Leader
  PROVE  UNCHANGED Bonds!bondingVars
BY DEF Bonds!bondingVars, Members

\* Only four steps announce an atom or change the leader.
LEMMA BondsQuiet ==
  ASSUME PlaceInv, [Next]_vars, crashes' = crashes,
         \A a \in Atoms : ~NumberMolecule(a) /\ ~PrintLine(a) /\ ~Leave(a)
  PROVE  UNCHANGED Bonds!bondingVars
<1> USE DEF PlaceInv, TypeInv, TypeOK, Kinds, Goto, At
<1>1. CASE MainStart \/ MainReap
  BY <1>1, BondsStutter DEF MainStart, MainReap, atomVars, outVars, Leader
<1>2. CASE CrashAndRerun
  BY <1>2 DEF CrashAndRerun
<1>3. ASSUME NEW a \in Atoms, Fork(a) \/ ForkFails(a) PROVE UNCHANGED Bonds!bondingVars
  BY <1>3, BondsStutter DEF Fork, ForkFails, ForkOrder, outVars, Leader, OxygenPlaces, Atoms
<1>4. ASSUME NEW a \in Atoms, PrintStep(a) PROVE UNCHANGED Bonds!bondingVars
  <2>1. CASE PrintWait(a) \/ PrintLoad(a) \/ PrintStore(a)
    BY <2>1, BondsStutter DEF PrintWait, PrintLoad, PrintStore, outVars, Leader
  <2>2. CASE PrintPost(a)
    <3>1. pc[a] \in Prints /\ pc' = [pc EXCEPT ![a] = AfterPrint(a)] /\ UNCHANGED <<shm, outVars>>
      BY <2>2 DEF PrintPost, Printing
    <3>2. Leader' = Leader
      BY <3>1, AtomsAssumption DEF AfterPrint, Prints, Leader, OxygenPlaces, Atoms
    <3> QED BY <3>1, <3>2, BondsStutter DEF outVars
  <2> QED BY <1>4, <2>1, <2>2 DEF PrintStep
<1>5. ASSUME NEW a \in Atoms, CountStep(a) PROVE UNCHANGED Bonds!bondingVars
  BY <1>5, BondsStutter DEF CountStep, CountLoad, CountStore, Classify, Counter,
     outVars, Leader, OxygenPlaces, Atoms
<1>6. ASSUME NEW a \in Atoms, BondStep(a) PROVE UNCHANGED Bonds!bondingVars
  <2>1. CASE EnterH(a) \/ EnterO(a) \/ Admit(a)
    BY <2>1, BondsStutter, AtomsAssumption DEF EnterH, EnterO, Admit, outVars, Leader, OxygenPlaces, Atoms
  <2>2. CASE JoinLoad(a) \/ JoinStore(a) \/ JoinTest(a)
    BY <2>2, BondsStutter, AtomsAssumption DEF JoinLoad, JoinStore, JoinTest, outVars,
       Leader, OxygenPlaces, Atoms
  <2>3. CASE Release(a) \/ PassBarrier(a)
    BY <2>3, BondsStutter, AtomsAssumption DEF Release, PassBarrier, outVars, Leader, OxygenPlaces, Atoms
  <2>4. CASE PartLoad(a) \/ PartStore(a) \/ Ready(a)
    BY <2>4, BondsStutter, AtomsAssumption DEF PartLoad, PartStore, Ready, outVars,
       Leader, OxygenPlaces, Atoms
  <2>5. CASE Collect(a) \/ LastMolecule(a)
    BY <2>5, BondsStutter DEF Collect, LastMolecule, outVars, Leader, OxygenPlaces, Atoms
  <2> QED BY <1>6, <2>1, <2>2, <2>3, <2>4, <2>5 DEF BondStep
<1>7. CASE UNCHANGED vars
  BY <1>7, BondsStutter DEF vars, Leader
<1> QED BY <1>1, <1>2, <1>3, <1>4, <1>5, <1>6, <1>7 DEF Next, Main, Atom

\* Bonding counts with the FiniteSets of its own instance.
LEMMA SameCardinality == \A S : Bonds!Cardinality(S) = Cardinality(S)
BY Zenon DEF Bonds!Cardinality, Cardinality

\* While a molecule is open its members are one oxygen and the team.
LEMMA MembersCount ==
  ASSUME CountInv, Leader # {}
  PROVE  /\ Members = Leader \cup Team
         /\ Cardinality(Members) = Cardinality(Team) + 1
<1>1. PICK q \in Leader : TRUE
  OBVIOUS
<1>2. Leader = {q} /\ q \notin Team
  BY <1>1, AtomsAssumption DEF CountInv, LineInv, BaseInv, StopInv, OxygenLock, Leader, Team, Told
<1>3. Members = Team \cup {q}
  BY <1>2 DEF Members, Team, Told
<1> QED BY <1>2, <1>3, GateFinite, FS_AddElement

\* The initial state is one of Bonding.
LEMMA BondsInit == Init => Bonds!Init
BY DEF Init, Bonds!Init, Members, Leader, OxygenPlaces, ShmZero, Atoms

\* Every step of one run is a step of Bonding or leaves its variables alone.
LEMMA BondsStep ==
  ASSUME CountInv, Gate, [Next]_vars, crashes' = crashes
  PROVE  [Bonds!Next]_(Bonds!bondingVars)
<1>0. PlaceInv /\ LineInv /\ CountInv' /\ BaseInv
  BY LinesStep DEF LineInv, CountInv, BaseInv, MoleculeInv
<1> USE DEF PlaceInv, TypeInv, TypeOK, Kinds, Goto, At
<1>1. ASSUME NEW a \in Atoms, NumberMolecule(a) PROVE Bonds!Next
  <2>1. /\ a \in Oxygens /\ HInside = {} /\ \A o \in OInside : o = a
        /\ pc[a] = "number" /\ pc' = [pc EXCEPT ![a] = "creating"]
        /\ shm'.IDMolecule = shm.IDMolecule + 1
        /\ UNCHANGED <<creating, created>> /\ created[a] = 0
    BY <1>0, <1>1, NumberIdle DEF NumberMolecule, outVars, LineInv, AtomLines, Uncreated, Unannounced
  <2>2. Leader = {} /\ Leader' = {a}
    BY <1>0, <2>1 DEF Leader, OInside, OxygenPlaces, Atoms
  <2>3. {h \in Hydrogens : creating[h] = shm.IDMolecule}' = {}
    BY <1>0, <2>1 DEF LineInv, AtomLines, Atoms
  <2>4. Members = {} /\ Members' = {a}
    BY <2>2, <2>3 DEF Members
  <2>5. Bonds!Open(a)
    BY <2>1, <2>4 DEF Bonds!Open
  <2> QED BY <2>1, <2>5 DEF Bonds!Next
<1>2. ASSUME NEW a \in Atoms, PrintLine(a) PROVE Bonds!Next \/ UNCHANGED Bonds!bondingVars
  <2>1. UNCHANGED <<sem, shm, pc, left>> /\ Leader' = Leader
    BY <1>2 DEF PrintLine, Leader
  <2>2. CASE pc[a] \notin {"creating", "created"}
    BY <1>2, <2>1, <2>2, BondsStutter DEF PrintLine
  <2>3. CASE pc[a] = "creating" /\ a \in Oxygens
    <3>1. Team' = Team /\ created' = created
      BY <1>2, <2>1, <2>3, AtomsAssumption DEF PrintLine, Team, Told
    <3> QED BY <2>1, <3>1 DEF Bonds!bondingVars, Members, Team, Told
  <2>4. CASE pc[a] = "creating" /\ a \in Hydrogens
    <3>1. /\ creating[a] = 0 /\ creating' = [creating EXCEPT ![a] = shm.IDMolecule]
          /\ created[a] = 0 /\ created' = created
      BY <1>0, <1>2, <2>4 DEF PrintLine, Printing, LineInv, AtomLines, Unannounced, Uncreated
    <3>2. Leader # {} /\ shm.IDMolecule > 0
      BY <1>0, <2>4, HydrogenNumbered DEF HInside, HydrogenPlaces, Leader, OxygenPlaces
    <3>3. Team' = Team \cup {a} /\ a \notin Team
      BY <1>0, <2>1, <2>4, <3>1, <3>2 DEF Team, Told, Atoms
    <3>4. Cardinality(Team)' = Cardinality(Team) + 1
      BY <3>3, GateFinite, FS_AddElement
    <3>5. Cardinality(Team)' <= 2
      <4>1. Cardinality(Told(creating, shm.IDMolecule)') <= 2
        BY <1>0, <2>1, <3>2 DEF CountInv, HydrogenLines
      <4> QED BY <4>1 DEF Team
    <3>6. Members = Leader \cup Team /\ Cardinality(Members) = Cardinality(Team) + 1
      BY <3>2, MembersCount
    <3>7. Cardinality(Members) < 3
      BY <3>4, <3>5, <3>6, GateFinite
    <3>8. Members' = Members \cup {a}
      BY <2>1, <3>2, <3>3, <3>6 DEF Members, Team, Told
    <3>9. Members # {} /\ a \notin Members
      BY <2>4, <3>2, <3>3, <3>6, AtomsAssumption DEF Leader
    <3>10. shm'.IDMolecule = shm.IDMolecule
      BY <2>1
    <3>11. Bonds!Join(a)
      BY <3>1, <3>7, <3>8, <3>9, <3>10, SameCardinality DEF Bonds!Join
    <3> QED BY <2>4, <3>11 DEF Bonds!Next
  <2>5. CASE pc[a] = "created"
    <3>1. /\ created[a] = 0 /\ created' = [created EXCEPT ![a] = shm.IDMolecule]
          /\ creating' = creating
      BY <1>0, <1>2, <2>5 DEF PrintLine, Printing, LineInv, AtomLines, Unannounced, Uncreated
    <3>2. Leader # {}
      BY <1>0, <2>5, HydrogenNumbered DEF HInside, HydrogenPlaces, Leader, OxygenPlaces, Atoms
    <3>3. Members' = Members
      BY <2>1, <3>1 DEF Members
    <3>4. Cardinality(Team) = 2
      BY <2>5, CreatedComplete
    <3>5. Members = Leader \cup Team /\ Cardinality(Members) = 3
      BY <3>2, <3>4, MembersCount
    <3>6. a \in Members
      BY <1>0, <2>5, <3>5 DEF Leader, OxygenPlaces, Team, Told, LineInv, AtomLines, Unannounced, Atoms
    <3>7. shm'.IDMolecule = shm.IDMolecule
      BY <2>1
    <3>8. Bonds!Make(a)
      BY <3>1, <3>3, <3>5, <3>6, <3>7, SameCardinality DEF Bonds!Make
    <3> QED BY <3>8 DEF Bonds!Next, Atoms
  <2> QED BY <2>2, <2>3, <2>4, <2>5 DEF Atoms
<1>3. ASSUME NEW a \in Atoms, Leave(a) PROVE Bonds!Next
  <2>1. /\ a \in Oxygens /\ pc[a] = "leave" /\ pc' = [pc EXCEPT ![a] = "gone"]
        /\ shm' = shm /\ UNCHANGED <<creating, created>>
    BY <1>0, <1>3 DEF Leave, outVars, Atoms
  <2>2. Leader = {a} /\ Leader' = {}
    BY <1>0, <2>1 DEF Leader, OxygenPlaces, BaseInv, StopInv, OxygenLock, Atoms
  <2>3. Members = {a} \cup Team /\ Members' = {}
    BY <2>2, MembersCount DEF Members
  <2>4. created[a] = shm.IDMolecule /\ shm.IDMolecule > 0
    BY <1>0, <2>1 DEF LineInv, AtomLines, Unannounced, Uncreated
  <2>5. Team = Told(created, shm.IDMolecule)
    <3>1. Told(created, shm.IDMolecule) \subseteq Team
      BY <1>0, <2>4 DEF Told, Team, LineInv, AtomLines, Atoms
    <3>2. Cardinality(Told(created, shm.IDMolecule)) = 2
      BY <2>1, BothParted
    <3>3. Cardinality(Team) <= 2
      BY <1>0, <2>4 DEF CountInv, HydrogenLines, Team
    <3>4. Cardinality(Told(created, shm.IDMolecule)) <= Cardinality(Team)
      BY <3>1, GateFinite, FS_Subset
    <3>5. Cardinality(Told(created, shm.IDMolecule)) = Cardinality(Team)
      BY <3>2, <3>3, <3>4, GateFinite
    <3> QED BY <3>1, <3>5, GateFinite, FS_Subset
  <2>6. \A b \in Members : created[b] = shm.IDMolecule
    BY <2>3, <2>4, <2>5 DEF Told
  <2>7. Bonds!Close
    BY <2>1, <2>3, <2>6 DEF Bonds!Close
  <2> QED BY <2>7 DEF Bonds!Next
<1> QED BY <1>0, <1>1, <1>2, <1>3, BondsQuiet

\* As long as no update is disturbed and no run is killed, the semaphores and counters
\* implement the bonding of one molecule after another.
THEOREM BondsAreComplete ==
  ASSUME UintSize > 2, MaxCrashes = 0
  PROVE  UndisturbedSpec => BondsComplete
<1>1. BarrierInv /\ Undisturbed /\ Undisturbed' /\ [Next]_vars => BarrierInv'
  BY BarrierStep
<1>2. BarrierInv => crashes = 0 /\ CountInv /\ Gate
  BY DEF BarrierInv, CountInv, LineInv, BaseInv, StopInv, PlaceInv, TypeInv, TypeOK
<1>3. BarrierInv /\ BarrierInv' /\ [Next]_vars => [Bonds!Next]_(Bonds!bondingVars)
  BY <1>2, BondsStep DEF BarrierInv, CountInv, LineInv, BaseInv, StopInv, PlaceInv, TypeInv, TypeOK
<1> QED BY <1>1, <1>3, BarrierInit, BondsInit, UndisturbedInit, UndisturbedStep, PTL
        DEF UndisturbedSpec, BondsComplete, Bonds!Spec
=============================================================================
