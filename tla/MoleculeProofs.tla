--------------------------- MODULE MoleculeProofs ---------------------------
(***************************************************************************)
(* Theorems about Molecule for any finite sets of atoms, any number of     *)
(* kills and failed forks, and any interleaving of the counters' updates.  *)
(***************************************************************************)
EXTENDS Molecule, TLAPS, FiniteSetTheorems

\* The runs of identical calls: how many are left at each place.
LeftOK ==
  \A a \in Atoms :
    /\ pc[a] \in {"admit", "collect"} => left[a] \in 1 .. 2
    /\ pc[a] = "release" => left[a] \in 1 .. 3

TypeInv == TypeOK /\ LeftOK

\* The numbers of atoms, and of atoms that are needed, are natural numbers.
LEMMA CountsAreNat == NH \in Nat /\ NO \in Nat /\ Count_H_Atom \in Nat /\ Count_O_Atom \in Nat
<1>1. NH \in Nat /\ NO \in Nat
  BY AtomsAssumption, FS_CardinalityType DEF NH, NO
<1>2. Count_H_Atom \in Nat
  BY <1>1 DEF Count_H_Atom
<1>3. Count_O_Atom \in Nat
  BY <1>1, <1>2 DEF Count_O_Atom
<1> QED BY <1>1, <1>2, <1>3

\* An unsigned counter stays in its range.
LEMMA ModRange ==
  ASSUME NEW n \in Nat
  PROVE  n % UintSize \in 0 .. UintSize - 1
BY BoundsAssumption

\* So it does when it is decremented, below zero too.
LEMMA DecrementedRange ==
  ASSUME NEW n \in Nat
  PROVE  Decremented(n) \in 0 .. UintSize - 1
<1>1. n + UintSize - 1 \in Nat
  BY BoundsAssumption
<1> QED BY <1>1, ModRange DEF Decremented

\* Initially every variable is in its range.
LEMMA TypeInit == Init => TypeInv
BY BoundsAssumption DEF Init, TypeInv, TypeOK, LeftOK, SemInit, ShmZero, Places,
   Prints, PrintSteps, Semaphores

\* Every step keeps the ranges.
LEMMA TypeStep == TypeInv /\ [Next]_vars => TypeInv'
<1> SUFFICES ASSUME TypeInv, [Next]_vars PROVE TypeInv'
  OBVIOUS
<1> USE DEF TypeInv, TypeOK, LeftOK, Goto, At, Semaphores, Places, Prints,
        PrintSteps, outVars, atomVars
<1>1. CASE MainStart
  BY <1>1 DEF MainStart, Post
<1>2. CASE MainReap
  BY <1>2 DEF MainReap
<1>3. ASSUME NEW a \in Atoms, Fork(a) PROVE TypeInv'
  BY <1>3 DEF Fork, ForkOrder
<1>4. ASSUME NEW a \in Atoms, ForkFails(a) PROVE TypeInv'
  BY <1>4, BoundsAssumption DEF ForkFails, ForkOrder
<1>5. CASE CrashAndRerun
  BY <1>5, BoundsAssumption DEF CrashAndRerun, SemInit
<1>6. ASSUME NEW a \in Atoms, PrintStep(a) PROVE TypeInv'
  <2>1. CASE PrintWait(a)
    BY <2>1 DEF PrintWait, Wait, Guard
  <2>2. CASE PrintLoad(a)
    BY <2>2 DEF PrintLoad
  <2>3. CASE PrintStore(a)
    BY <2>3 DEF PrintStore
  <2>5. CASE PrintLine(a)
    BY <2>5 DEF PrintLine
  <2>6. CASE PrintPost(a)
    BY <2>6 DEF PrintPost, Printing, AfterPrint, Post, Guard
  <2> QED BY <1>6, <2>1, <2>2, <2>3, <2>5, <2>6 DEF PrintStep
<1>7. ASSUME NEW a \in Atoms, CountStep(a) PROVE TypeInv'
  <2>1. CASE CountLoad(a)
    BY <2>1 DEF CountLoad, Counter
  <2>2. CASE CountStore(a)
    BY <2>2 DEF CountStore, Counter
  <2>4. CASE Classify(a)
    BY <2>4 DEF Classify
  <2> QED BY <1>7, <2>1, <2>2, <2>4 DEF CountStep
<1>8. ASSUME NEW a \in Atoms, BondStep(a) PROVE TypeInv'
  <2>1. CASE EnterH(a)
    BY <2>1 DEF EnterH, Wait
  <2>2. CASE EnterO(a)
    BY <2>2 DEF EnterO, Wait
  <2>3. CASE NumberMolecule(a)
    BY <2>3 DEF NumberMolecule
  <2>4. CASE Admit(a)
    BY <2>4 DEF Admit, Post
  <2>5. CASE JoinLoad(a)
    BY <2>5 DEF JoinLoad
  <2>6. CASE JoinStore(a)
    BY <2>6, ModRange DEF JoinStore
  <2>7. CASE JoinTest(a)
    BY <2>7 DEF JoinTest
  <2>9. CASE Release(a)
    BY <2>9 DEF Release, Post
  <2>10. CASE PassBarrier(a)
    BY <2>10 DEF PassBarrier, Wait
  <2>11. CASE PartLoad(a)
    BY <2>11 DEF PartLoad
  <2>12. CASE PartStore(a)
    BY <2>12, DecrementedRange DEF PartStore
  <2>14. CASE Ready(a)
    BY <2>14 DEF Ready, Post
  <2>15. CASE Collect(a)
    BY <2>15 DEF Collect, Wait
  <2>16. CASE LastMolecule(a)
    BY <2>16 DEF LastMolecule, Post
  <2>17. CASE Leave(a)
    BY <2>17 DEF Leave, Post
  <2> QED
    BY <1>8, <2>1, <2>2, <2>3, <2>4, <2>5, <2>6, <2>7, <2>9, <2>10, <2>11,
       <2>12, <2>14, <2>15, <2>16, <2>17 DEF BondStep
<1>9. CASE UNCHANGED vars
  BY <1>9 DEF vars
<1> QED
  BY <1>1, <1>2, <1>3, <1>4, <1>5, <1>6, <1>7, <1>8, <1>9 DEF Next, Main, Atom

\* Every variable keeps its range in every behaviour.
THEOREM TypeCorrect == Spec => []TypeOK
<1>1. Spec => []TypeInv
  BY TypeInit, TypeStep, PTL DEF Spec
<1>2. TypeInv => TypeOK
  BY DEF TypeInv
<1> QED BY <1>1, <1>2, PTL

-----------------------------------------------------------------------------
(* Mutual exclusion of the printing atoms.  semap_fin is an ordinary lock. *)
(* sem__stop is posted by two different processes, so that it stays a lock *)
(* has to follow from who may still post it: main only when nothing can    *)
(* bond, and then only the oxygen that holds semap_O and the last number.  *)

\* Hydrogens and oxygens keep to their own branch of main().
Kinds ==
  /\ \A h \in Hydrogens :
       pc[h] \notin {"number", "admit", "collect", "last", "leave"}
  /\ \A o \in Oxygens :
       pc[o] \notin {"join", "joinStore", "joinTest", "release", "part",
                     "partStore", "ready"}

\* Outside a print there is no position inside one.
StepIdle == \A a \in Atoms : pc[a] \notin Prints => step[a] = "wait"

Unborn == main = "start" => \A a \in Atoms : pc[a] = "unborn"

Under(a, s) == Printing(a) /\ Guard(pc[a]) = s

Lock(s) ==
  /\ sem[s] \in {0, 1}
  /\ sem[s] = 1 => \A a \in Atoms : ~Under(a, s)
  /\ \A a, b \in Atoms : Under(a, s) /\ Under(b, s) => a = b

OxygenLock ==
  /\ sem["semap_O"] \in {0, 1}
  /\ sem["semap_O"] = 1 => \A o \in Oxygens : pc[o] \notin OxygenPlaces
  /\ \A o, q \in Oxygens :
       pc[o] \in OxygenPlaces /\ pc[q] \in OxygenPlaces => o = q

\* No surplus atom has been let go yet.
StopClosed == sem["sem__stop"] = 0 /\ \A a \in Atoms : ~Under(a, "sem__stop")

StopSchedule ==
  /\ main = "start" => StopClosed
  /\ shm.IDMolecule < Count_O_Atom => StopClosed
  /\ \A o \in Oxygens : pc[o] \in OxygenPlaces \ {"number", "leave"} =>
       /\ shm.IDMolecule > 0
       /\ shm.IDMolecule = Count_O_Atom => StopClosed

PlaceInv == TypeInv /\ Kinds /\ StepIdle /\ Unborn

\* Initially every atom is where its kind may be.
LEMMA PlaceInit == Init => PlaceInv
BY TypeInit, AtomsAssumption DEF Init, PlaceInv, Kinds, StepIdle, Unborn, Prints, Atoms

\* Every step leaves every atom where its kind may be.
LEMMA PlaceStep == PlaceInv /\ [Next]_vars => PlaceInv'
<1> SUFFICES ASSUME PlaceInv, [Next]_vars PROVE PlaceInv'
  OBVIOUS
<1>1. TypeInv'
  BY TypeStep DEF PlaceInv
<1> USE DEF PlaceInv, TypeInv, TypeOK, Kinds, StepIdle, Unborn, Goto, At, Prints, Atoms
<1>2. CASE MainStart \/ MainReap \/ CrashAndRerun
  BY <1>1, <1>2 DEF MainStart, MainReap, CrashAndRerun, atomVars
<1>3. ASSUME NEW a \in Atoms, Fork(a) \/ ForkFails(a) PROVE PlaceInv'
  BY <1>1, <1>3 DEF Fork, ForkFails, ForkOrder
<1>4. ASSUME NEW a \in Atoms, PrintStep(a) PROVE PlaceInv'
  <2>1. CASE PrintPost(a)
    BY <1>1, <2>1, AtomsAssumption DEF PrintPost, Printing, AfterPrint
  <2>2. CASE ~PrintPost(a)
    BY <1>1, <1>4, <2>2 DEF PrintStep, PrintWait, PrintLoad, PrintStore,
       PrintLine, Printing
  <2> QED BY <2>1, <2>2
<1>5. ASSUME NEW a \in Atoms, CountStep(a) PROVE PlaceInv'
  BY <1>1, <1>5 DEF CountStep, CountLoad, CountStore, Classify
<1>6. ASSUME NEW a \in Atoms, BondStep(a) PROVE PlaceInv'
  <2>1. CASE EnterH(a) \/ EnterO(a) \/ NumberMolecule(a) \/ Admit(a)
    BY <1>1, <2>1, AtomsAssumption DEF EnterH, EnterO, NumberMolecule, Admit
  <2>2. CASE JoinLoad(a) \/ JoinStore(a) \/ JoinTest(a)
    BY <1>1, <2>2 DEF JoinLoad, JoinStore, JoinTest
  <2>3. CASE Release(a) \/ PassBarrier(a)
    BY <1>1, <2>3 DEF Release, PassBarrier
  <2>4. CASE PartLoad(a) \/ PartStore(a) \/ Ready(a)
    BY <1>1, <2>4 DEF PartLoad, PartStore, Ready
  <2>5. CASE Collect(a) \/ LastMolecule(a) \/ Leave(a)
    BY <1>1, <2>5 DEF Collect, LastMolecule, Leave
  <2> QED BY <1>6, <2>1, <2>2, <2>3, <2>4, <2>5 DEF BondStep
<1>7. CASE UNCHANGED vars
  BY <1>1, <1>7 DEF vars
<1> QED BY <1>2, <1>3, <1>4, <1>5, <1>6, <1>7 DEF Next, Main, Atom

\* Initially the locks are free or closed, and nobody is inside.
LEMMA LocksInit == Init => Lock("semap_fin") /\ Lock("sem__stop") /\ OxygenLock
BY DEF Init, Lock, OxygenLock, OxygenPlaces, Under, Printing, SemInit, Semaphores, Prints,
   Atoms

\* Nobody posts semap_fin but the atom that has printed under it.
LEMMA FinLockStep ==
  PlaceInv /\ Lock("semap_fin") /\ [Next]_vars => Lock("semap_fin")'
<1> SUFFICES ASSUME PlaceInv, Lock("semap_fin"), [Next]_vars PROVE Lock("semap_fin")'
  OBVIOUS
<1> USE DEF PlaceInv, TypeInv, TypeOK, StepIdle, Goto, At, Prints, Semaphores, Lock,
        Under, Printing, Guard
<1>1. CASE MainStart \/ MainReap \/ CrashAndRerun
  BY <1>1 DEF MainStart, MainReap, CrashAndRerun, atomVars, Post, SemInit
<1>2. ASSUME NEW a \in Atoms, Fork(a) \/ ForkFails(a) PROVE Lock("semap_fin")'
  BY <1>2 DEF Fork, ForkFails, ForkOrder
<1>3. ASSUME NEW a \in Atoms, PrintStep(a) PROVE Lock("semap_fin")'
  <2>1. CASE PrintWait(a)
    BY <2>1 DEF PrintWait, Wait
  <2>2. CASE PrintPost(a)
    BY <2>2 DEF PrintPost, Post
  <2>3. CASE ~PrintWait(a) /\ ~PrintPost(a)
    BY <1>3, <2>3 DEF PrintStep, PrintLoad, PrintStore, PrintLine
  <2> QED BY <2>1, <2>2, <2>3
<1>4. ASSUME NEW a \in Atoms, CountStep(a) PROVE Lock("semap_fin")'
  BY <1>4 DEF CountStep, CountLoad, CountStore, Classify
<1>5. ASSUME NEW a \in Atoms, BondStep(a) PROVE Lock("semap_fin")'
  BY <1>5 DEF BondStep, EnterH, EnterO, NumberMolecule, Admit, JoinLoad, JoinStore,
     JoinTest, Release, PassBarrier, PartLoad, PartStore,
     Ready, Collect, LastMolecule, Leave, Wait, Post
<1>6. CASE UNCHANGED vars
  BY <1>6 DEF vars
<1> QED BY <1>1, <1>2, <1>3, <1>4, <1>5, <1>6 DEF Next, Main, Atom

\* semap_O: only the oxygen that took it posts it, when it leaves.
LEMMA OxygenLockStep == PlaceInv /\ OxygenLock /\ [Next]_vars => OxygenLock'
<1> SUFFICES ASSUME PlaceInv, OxygenLock, [Next]_vars PROVE OxygenLock'
  OBVIOUS
<1> USE DEF PlaceInv, TypeInv, TypeOK, Kinds, Goto, At, Semaphores, OxygenLock,
        OxygenPlaces, Atoms
<1>1. CASE MainStart \/ MainReap \/ CrashAndRerun
  BY <1>1 DEF MainStart, MainReap, CrashAndRerun, atomVars, Post, SemInit
<1>2. ASSUME NEW a \in Atoms, Fork(a) \/ ForkFails(a) PROVE OxygenLock'
  BY <1>2 DEF Fork, ForkFails, ForkOrder
<1>3. ASSUME NEW a \in Atoms, PrintStep(a) PROVE OxygenLock'
  BY <1>3, AtomsAssumption DEF PrintStep, PrintWait, PrintLoad, PrintStore, PrintLine,
     PrintPost, AfterPrint, Printing, Prints, Guard, Wait, Post
<1>4. ASSUME NEW a \in Atoms, CountStep(a) PROVE OxygenLock'
  BY <1>4 DEF CountStep, CountLoad, CountStore, Classify
<1>5. ASSUME NEW a \in Atoms, BondStep(a) PROVE OxygenLock'
  <2>1. CASE EnterH(a) \/ EnterO(a) \/ NumberMolecule(a) \/ Admit(a)
    BY <2>1, AtomsAssumption DEF EnterH, EnterO, NumberMolecule, Admit, Wait, Post
  <2>2. CASE JoinLoad(a) \/ JoinStore(a) \/ JoinTest(a)
    BY <2>2 DEF JoinLoad, JoinStore, JoinTest
  <2>3. CASE Release(a) \/ PassBarrier(a)
    BY <2>3 DEF Release, PassBarrier, Wait, Post
  <2>4. CASE PartLoad(a) \/ PartStore(a) \/ Ready(a)
    BY <2>4 DEF PartLoad, PartStore, Ready, Post
  <2>5. CASE Collect(a) \/ LastMolecule(a) \/ Leave(a)
    BY <2>5 DEF Collect, LastMolecule, Leave, Wait, Post
  <2> QED BY <1>5, <2>1, <2>2, <2>3, <2>4, <2>5 DEF BondStep
<1>6. CASE UNCHANGED vars
  BY <1>6 DEF vars
<1> QED BY <1>1, <1>2, <1>3, <1>4, <1>5, <1>6 DEF Next, Main, Atom

StopInv == PlaceInv /\ OxygenLock /\ Lock("sem__stop") /\ StopSchedule

\* sem__stop starts closed.
LEMMA StopInit == Init => StopInv
<1>1. Init => StopSchedule
  BY DEF Init, StopSchedule, StopClosed, Under, Printing, SemInit, Semaphores, Prints,
     Atoms, OxygenPlaces
<1> QED BY <1>1, PlaceInit, LocksInit DEF StopInv

\* sem__stop: MainStart posts it when no oxygen can bond, LastMolecule when the
\* last number has been used up; both find it closed, and they exclude each other.
LEMMA StopStep == StopInv /\ [Next]_vars => StopInv'
<1> SUFFICES ASSUME StopInv, [Next]_vars PROVE (Lock("sem__stop") /\ StopSchedule)'
  BY PlaceStep, OxygenLockStep DEF StopInv
<1>0. PlaceInv' /\ OxygenLock'
  BY PlaceStep, OxygenLockStep DEF StopInv
<1> DEFINE Goal == Lock("sem__stop") /\ StopSchedule
<1> USE CountsAreNat DEF StopInv, PlaceInv, TypeInv, TypeOK, Kinds, Unborn, StepIdle, Goto, At, Semaphores,
        Lock, Under, Printing, Guard, Prints, OxygenLock, OxygenPlaces, StopSchedule,
        StopClosed, Atoms
<1>1. CASE MainStart
  BY <1>0, <1>1 DEF MainStart, Post, atomVars
<1>2. CASE MainReap \/ CrashAndRerun
  BY <1>0, <1>2 DEF MainReap, CrashAndRerun, atomVars, SemInit
<1>3. ASSUME NEW a \in Atoms, Fork(a) \/ ForkFails(a) PROVE Goal'
  BY <1>0, <1>3 DEF Fork, ForkFails, ForkOrder
<1>4. ASSUME NEW a \in Atoms, PrintStep(a) PROVE Goal'
  <2>1. CASE PrintWait(a)
    BY <2>1 DEF PrintWait, Wait
  <2>2. CASE PrintPost(a)
    BY <2>2, AtomsAssumption DEF PrintPost, Post, AfterPrint
  <2>3. CASE PrintLoad(a) \/ PrintStore(a) \/ PrintLine(a)
    BY <2>3 DEF PrintLoad, PrintStore, PrintLine
  <2> QED BY <1>4, <2>1, <2>2, <2>3 DEF PrintStep
<1>5. ASSUME NEW a \in Atoms, CountStep(a) PROVE Goal'
  <2>1. CASE CountLoad(a) \/ Classify(a)
    BY <2>1 DEF CountLoad, Classify
  <2>2. CASE CountStore(a)
    BY <2>2 DEF CountStore, Counter
  <2> QED BY <1>5, <2>1, <2>2 DEF CountStep
<1>6. ASSUME NEW a \in Atoms, BondStep(a) PROVE Goal'
  <2>1. CASE EnterH(a) \/ EnterO(a) \/ Admit(a)
    BY <2>1, AtomsAssumption DEF EnterH, EnterO, Admit, Wait, Post
  <2>2. CASE NumberMolecule(a)
    BY <2>2, AtomsAssumption DEF NumberMolecule
  <2>3. CASE JoinLoad(a) \/ JoinStore(a) \/ JoinTest(a)
    BY <2>3 DEF JoinLoad, JoinStore, JoinTest
  <2>4. CASE Release(a) \/ PassBarrier(a)
    BY <2>4 DEF Release, PassBarrier, Wait, Post
  <2>5. CASE PartLoad(a) \/ PartStore(a) \/ Ready(a)
    BY <2>5 DEF PartLoad, PartStore, Ready, Post
  <2>6. CASE LastMolecule(a)
    BY <2>6 DEF LastMolecule, Post
  <2>7. CASE Collect(a) \/ Leave(a)
    BY <2>7 DEF Collect, Leave, Wait, Post
  <2> QED BY <1>6, <2>1, <2>2, <2>3, <2>4, <2>5, <2>6, <2>7 DEF BondStep
<1>7. CASE UNCHANGED vars
  BY <1>0, <1>7 DEF vars
<1> QED BY <1>1, <1>2, <1>3, <1>4, <1>5, <1>6, <1>7 DEF Next, Main, Atom

\* Whatever the scheduler, a kill or a failed fork does, two atoms never print
\* under the same semaphore at once.
THEOREM OutputGuarded == Spec => []GuardedOutput
<1>1. Spec => [](StopInv /\ Lock("semap_fin"))
  <2>1. Init => StopInv /\ Lock("semap_fin")
    BY StopInit, LocksInit
  <2>2. StopInv /\ Lock("semap_fin") /\ [Next]_vars
          => StopInv' /\ Lock("semap_fin")'
    BY StopStep, FinLockStep DEF StopInv
  <2> QED BY <2>1, <2>2, PTL DEF Spec
<1>2. StopInv /\ Lock("semap_fin") => GuardedOutput
  BY DEF StopInv, Lock, Under, Guard, GuardedOutput
<1> QED BY <1>1, <1>2, PTL

-----------------------------------------------------------------------------
(* One molecule at a time.  The invariant counts permits: what semap_H and *)
(* sem_ready hold plus the hydrogens between them is what the oxygen still *)
(* has to collect, so every step moves one permit or leaves them alone.    *)

MoleculeInv == PlaceInv /\ OxygenLock /\ OneMoleculeAtATime

\* The atoms inside can be counted.
LEMMA InsideFinite ==
  /\ IsFiniteSet(HInside) /\ Cardinality(HInside) \in Nat
  /\ IsFiniteSet(OInside) /\ Cardinality(OInside) \in Nat
<1>1. HInside \subseteq Hydrogens /\ OInside \subseteq Oxygens
  BY DEF HInside, OInside
<1> QED BY <1>1, AtomsAssumption, FS_Subset, FS_CardinalityType

\* A step that moves no atom in or out and no permit keeps the count.
LEMMA PermitsKept ==
  ASSUME MoleculeInv, PlaceInv', OxygenLock',
         OInside' = OInside, HInside' = HInside,
         sem'["semap_O"] = sem["semap_O"], sem'["semap_H"] = sem["semap_H"],
         sem'["sem_ready"] = sem["sem_ready"],
         \A o \in OInside : Owed(o)' = Owed(o)
  PROVE  MoleculeInv'
BY DEF MoleculeInv, OneMoleculeAtATime

\* Nobody is inside and semap_O has one permit.
LEMMA MoleculeInit == Init => MoleculeInv
<1> SUFFICES ASSUME Init PROVE OneMoleculeAtATime
  BY PlaceInit, LocksInit DEF MoleculeInv
<1>1. OInside = {} /\ HInside = {}
  BY DEF Init, OInside, HInside, OxygenPlaces, HydrogenPlaces, Atoms
<1> QED BY <1>1, FS_EmptySet DEF Init, SemInit, Semaphores, OneMoleculeAtATime

\* Every step keeps the balance of permits and hydrogens inside.
LEMMA MoleculeStep == MoleculeInv /\ [Next]_vars => MoleculeInv'
<1> SUFFICES ASSUME MoleculeInv, [Next]_vars PROVE MoleculeInv'
  OBVIOUS
<1>0. PlaceInv' /\ OxygenLock'
  BY PlaceStep, OxygenLockStep DEF MoleculeInv
<1> USE DEF PlaceInv, TypeInv, TypeOK, LeftOK, Kinds, Goto, At, Semaphores, Atoms,
        OInside, HInside, OxygenPlaces, HydrogenPlaces, Owed, MoleculeInv
<1>1. CASE MainStart
  BY <1>0, <1>1, PermitsKept DEF MainStart, Post, atomVars
<1>2. CASE MainReap
  BY <1>0, <1>2, PermitsKept DEF MainReap, atomVars
<1>3. CASE CrashAndRerun
  <2>1. OInside' = {} /\ HInside' = {}
    BY <1>3 DEF CrashAndRerun
  <2> HIDE DEF OInside, HInside
  <2>2. sem'["semap_O"] = 1 /\ sem'["semap_H"] = 0 /\ sem'["sem_ready"] = 0
    BY <1>3 DEF CrashAndRerun, SemInit
  <2> QED BY <1>0, <2>1, <2>2, FS_EmptySet DEF OneMoleculeAtATime
<1>4. ASSUME NEW a \in Atoms, Fork(a) \/ ForkFails(a) PROVE MoleculeInv'
  BY <1>0, <1>4, PermitsKept DEF Fork, ForkFails, ForkOrder
<1>5. ASSUME NEW a \in Atoms, PrintStep(a) PROVE MoleculeInv'
  <2>1. CASE PrintWait(a) \/ PrintLoad(a) \/ PrintStore(a) \/ PrintLine(a)
    BY <1>0, <2>1, PermitsKept DEF PrintWait, PrintLoad, PrintStore, PrintLine, Wait, Guard
  <2>2. CASE PrintPost(a)
    <3>1. pc[a] \in Prints /\ pc' = [pc EXCEPT ![a] = AfterPrint(a)]
      BY <2>2 DEF PrintPost, Printing
    <3>2. OInside' = OInside /\ HInside' = HInside
      BY <3>1, AtomsAssumption DEF AfterPrint, Prints
    <3>3. \A o \in OInside : Owed(o)' = Owed(o)
      BY <2>2, <3>1, AtomsAssumption DEF AfterPrint, Prints, PrintPost
    <3> QED BY <1>0, <2>2, <3>2, <3>3, PermitsKept DEF PrintPost, Post, Guard
  <2> QED BY <1>5, <2>1, <2>2 DEF PrintStep
<1>6. ASSUME NEW a \in Atoms, CountStep(a) PROVE MoleculeInv'
  BY <1>0, <1>6, PermitsKept DEF CountStep, CountLoad, CountStore, Classify
<1>7. ASSUME NEW a \in Atoms, BondStep(a) PROVE MoleculeInv'
  <2>1. CASE EnterH(a)
    <3>1. HInside' = HInside \cup {a} /\ a \notin HInside /\ OInside' = OInside
      BY <2>1, AtomsAssumption DEF EnterH
    <3> HIDE DEF OInside, HInside, Owed
    <3>2. Cardinality(HInside') = Cardinality(HInside) + 1
      BY <3>1, InsideFinite, FS_AddElement
    <3>3. /\ sem["semap_H"] > 0 /\ sem'["semap_H"] = sem["semap_H"] - 1
          /\ sem'["semap_O"] = sem["semap_O"] /\ sem'["sem_ready"] = sem["sem_ready"]
          /\ \A o \in OInside : Owed(o)' = Owed(o)
      BY <2>1, AtomsAssumption DEF EnterH, Wait, OInside, Owed
    <3> QED BY <1>0, <3>1, <3>2, <3>3, InsideFinite DEF OneMoleculeAtATime
  <2>2. CASE EnterO(a)
    <3>1. OInside' = OInside \cup {a} /\ a \notin OInside /\ HInside' = HInside
      BY <2>2, AtomsAssumption DEF EnterO
    <3> HIDE DEF OInside, HInside, Owed
    <3>2. Cardinality(OInside') = Cardinality(OInside) + 1
      BY <3>1, InsideFinite, FS_AddElement
    <3>3. OInside = {}
      BY <2>2 DEF EnterO, Wait, OxygenLock, OInside
    <3>4. /\ sem["semap_O"] > 0 /\ sem'["semap_O"] = sem["semap_O"] - 1
          /\ sem'["semap_H"] = sem["semap_H"] /\ sem'["sem_ready"] = sem["sem_ready"]
          /\ Owed(a)' = 0
      BY <2>2 DEF EnterO, Wait, Owed
    <3>5. HInside' = {} /\ Cardinality(HInside') = 0
      BY <3>1, <3>3, FS_EmptySet DEF OneMoleculeAtATime
    <3> QED BY SMTT(30), <1>0, <3>1, <3>2, <3>3, <3>4, <3>5, InsideFinite DEF OneMoleculeAtATime
  <2>3. CASE NumberMolecule(a)
    BY <1>0, <2>3, PermitsKept, AtomsAssumption DEF NumberMolecule
  <2>4. CASE Admit(a)
    <3>1. a \in OInside /\ OInside' = OInside /\ HInside' = HInside
      BY <2>4, AtomsAssumption DEF Admit
    <3> HIDE DEF OInside, HInside, Owed
    <3>2. \A o \in OInside : o = a
      BY <3>1 DEF OxygenLock, OInside
    <3>3. /\ sem'["semap_H"] = sem["semap_H"] + 1
          /\ sem'["semap_O"] = sem["semap_O"] /\ sem'["sem_ready"] = sem["sem_ready"]
          /\ Owed(a)' = Owed(a) + 1
      BY <2>4 DEF Admit, Post, Owed
    <3> QED BY <1>0, <3>1, <3>2, <3>3, InsideFinite DEF OneMoleculeAtATime
  <2>5. CASE JoinLoad(a) \/ JoinStore(a) \/ JoinTest(a)
    BY <1>0, <2>5, PermitsKept DEF JoinLoad, JoinStore, JoinTest
  <2>6. CASE Release(a) \/ PassBarrier(a)
    BY <1>0, <2>6, PermitsKept DEF Release, PassBarrier, Wait, Post
  <2>7. CASE PartLoad(a) \/ PartStore(a)
    BY <1>0, <2>7, PermitsKept DEF PartLoad, PartStore
  <2>8. CASE Ready(a)
    <3>1. HInside' = HInside \ {a} /\ a \in HInside /\ OInside' = OInside
      BY <2>8, AtomsAssumption DEF Ready
    <3> HIDE DEF OInside, HInside, Owed
    <3>2. Cardinality(HInside') = Cardinality(HInside) - 1
      BY <3>1, InsideFinite, FS_RemoveElement
    <3>3. /\ sem'["sem_ready"] = sem["sem_ready"] + 1
          /\ sem'["semap_O"] = sem["semap_O"] /\ sem'["semap_H"] = sem["semap_H"]
          /\ \A o \in OInside : Owed(o)' = Owed(o)
      BY <2>8, AtomsAssumption DEF Ready, Post, OInside, Owed
    <3> QED BY <1>0, <3>1, <3>2, <3>3, InsideFinite DEF OneMoleculeAtATime
  <2>9. CASE Collect(a)
    <3>1. a \in OInside /\ OInside' = OInside /\ HInside' = HInside
      BY <2>9, AtomsAssumption DEF Collect
    <3> HIDE DEF OInside, HInside, Owed
    <3>2. \A o \in OInside : o = a
      BY <3>1 DEF OxygenLock, OInside
    <3>3. /\ sem["sem_ready"] > 0 /\ sem'["sem_ready"] = sem["sem_ready"] - 1
          /\ sem'["semap_O"] = sem["semap_O"] /\ sem'["semap_H"] = sem["semap_H"]
          /\ Owed(a)' = Owed(a) - 1 /\ Owed(a) \in 1 .. 2
      BY <2>9 DEF Collect, Wait, Owed
    <3> QED BY <1>0, <3>1, <3>2, <3>3, InsideFinite DEF OneMoleculeAtATime
  <2>10. CASE LastMolecule(a)
    BY <1>0, <2>10, PermitsKept, AtomsAssumption DEF LastMolecule, Post
  <2>11. CASE Leave(a)
    <3>1. OInside' = OInside \ {a} /\ a \in OInside /\ HInside' = HInside
      BY <2>11, AtomsAssumption DEF Leave
    <3> HIDE DEF OInside, HInside, Owed
    <3>2. Cardinality(OInside') = Cardinality(OInside) - 1
      BY <3>1, InsideFinite, FS_RemoveElement
    <3>3. /\ sem'["semap_O"] = sem["semap_O"] + 1
          /\ sem'["semap_H"] = sem["semap_H"] /\ sem'["sem_ready"] = sem["sem_ready"]
          /\ Owed(a) = 0
      BY <2>11 DEF Leave, Post, Owed
    <3>4. OInside' = {}
      BY <2>11, <3>1 DEF OxygenLock, OInside
    <3>5. Cardinality(HInside) = 0 /\ sem["semap_H"] = 0 /\ sem["sem_ready"] = 0
      BY <3>1, <3>3, InsideFinite DEF OneMoleculeAtATime
    <3>6. HInside = {}
      BY <3>5, InsideFinite, FS_EmptySet
    <3> QED BY <1>0, <3>1, <3>2, <3>3, <3>4, <3>5, <3>6, InsideFinite DEF OneMoleculeAtATime
  <2> QED BY <1>7, <2>1, <2>2, <2>3, <2>4, <2>5, <2>6, <2>7, <2>8, <2>9, <2>10, <2>11
          DEF BondStep
<1>8. CASE UNCHANGED vars
  BY <1>0, <1>8, PermitsKept DEF vars
<1> QED BY <1>1, <1>2, <1>3, <1>4, <1>5, <1>6, <1>7, <1>8 DEF Next, Main, Atom

\* With any number of atoms and any interleaving of their unlocked counters, a
\* molecule has one oxygen, and admits exactly the hydrogens it waits for.
THEOREM OneMolecule == Spec => []OneMoleculeAtATime
<1>1. Spec => []MoleculeInv
  BY MoleculeInit, MoleculeStep, PTL DEF Spec
<1>2. MoleculeInv => OneMoleculeAtATime
  BY DEF MoleculeInv
<1> QED BY <1>1, <1>2, PTL

\* The number of the molecule changes only while no hydrogen is bonding, so the
\* unlocked reads of IDMolecule in the print statements read one value.
THEOREM NumberedWhenIdle == Spec => NumberWhenIdle
<1> USE DEF NumberWhenIdle
<1>1. MoleculeInv /\ [Next]_vars => [shm'.IDMolecule # shm.IDMolecule => HInside = {}]_vars
  <2> SUFFICES ASSUME MoleculeInv, [Next]_vars, shm'.IDMolecule # shm.IDMolecule
               PROVE HInside = {}
    OBVIOUS
  <2> USE DEF MoleculeInv, PlaceInv, TypeInv, TypeOK
  <2>1. PICK a \in Atoms : NumberMolecule(a)
    BY DEF Next, vars, Main, Atom, MainStart, MainReap, CrashAndRerun, Fork, ForkFails,
       PrintStep, PrintWait, PrintLoad, PrintStore, PrintLine, PrintPost,
       CountStep, CountLoad, CountStore, Classify, Counter, BondStep,
       EnterH, EnterO, Admit, JoinLoad, JoinStore, JoinTest, Release,
       PassBarrier, PartLoad, PartStore, Ready, Collect, LastMolecule, Leave
  <2>2. a \in OInside /\ Owed(a) = 0
    BY <2>1 DEF NumberMolecule, At, Kinds, OInside, OxygenPlaces, Owed, Atoms
  <2>3. Cardinality(HInside) = 0
    BY <2>2, InsideFinite DEF OneMoleculeAtATime, Semaphores
  <2> QED BY <2>3, InsideFinite, FS_EmptySet
<1>2. Spec => []MoleculeInv
  BY MoleculeInit, MoleculeStep, PTL DEF Spec
<1> QED BY <1>1, <1>2, PTL DEF Spec
=============================================================================
