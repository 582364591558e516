------------------------------ MODULE Molecule ------------------------------
(***************************************************************************)
(* IOS/secondproject: one main process forks oxygen and hydrogen atoms;    *)
(* the atoms meet through POSIX semaphores and counters in one System V    *)
(* shared-memory segment, and bond two hydrogens with one oxygen.          *)
(*                                                                         *)
(* pc[a] is the statement of main() (mainFunc.c) that atom a is about to   *)
(* execute.  Where that statement is a guarded call of                     *)
(* PrintStatusOfAtomAndSemaphore, step[a] is the position inside it:       *)
(* sem_wait, the load and the store of ++num, the fprintf, sem_post.  An   *)
(* unlocked ++ or -- of a shared counter is a load and a store.            *)
(***************************************************************************)
EXTENDS Naturals, FiniteSets

CONSTANTS
  Hydrogens, Oxygens,   \* the atoms asked for on the command line (NH and NO)
  UintSize,             \* 2^32 in the code: the modulus of an unsigned int
  MaxCrashes,           \* bound: how often a run is killed and started again
  MaxForkFailures       \* bound: how many fork() calls return -1

ASSUME AtomsAssumption ==
  /\ IsFiniteSet(Hydrogens) /\ Hydrogens # {}
  /\ IsFiniteSet(Oxygens) /\ Oxygens # {}
  /\ Hydrogens \cap Oxygens = {}

ASSUME BoundsAssumption ==
  /\ UintSize \in Nat \ {0}
  /\ MaxCrashes \in Nat
  /\ MaxForkFailures \in Nat

VARIABLES
  main,      \* where main() is: before fork, forking, in wait(), finished
  sem,       \* the value of each semaphore
  shm,       \* the shared segment, InterProcessCommunicationsData
  pc, step,  \* the position of each atom
  tmp,       \* the register of a load that has not been stored yet
  left,      \* calls left in a run of identical sem_post or sem_wait calls
  creating,  \* molecule number in the atom's "creating molecule" line, or 0
  created,   \* molecule number in the atom's "molecule created" line, or 0
  outLines,  \* number of lines in proj2.out
  crashes, forkFailures

atomVars == <<pc, step, tmp, left>>
outVars  == <<creating, created, outLines>>
vars == <<main, sem, shm, pc, step, tmp, left, creating, created, outLines,
          crashes, forkFailures>>

Atoms == Hydrogens \cup Oxygens
NH == Cardinality(Hydrogens)
NO == Cardinality(Oxygens)

\* How many atoms will bond (ArgumentsFunc).
Count_H_Atom ==
  IF NH >= NO * 2 THEN NO * 2 ELSE NH - (NH % 2)
Count_O_Atom ==
  IF NH >= NO * 2 THEN NO ELSE Count_H_Atom \div 2

Semaphores == {"semap_H", "semap_O", "semap_fin", "sem_ready",
               "sem_creating", "sem__stop"}
SemInit == [s \in Semaphores |-> IF s \in {"semap_O", "semap_fin"} THEN 1 ELSE 0]

ShmZero == [num |-> 0, IDMolecule |-> 0, NumOfMolecule_H |-> 0,
            hydrogen_n |-> 0, oxygen_n |-> 0]

\* The guarded prints: status 20, 21, 22, 23 and 24/25.
Prints == {"started", "queue", "creating", "created", "surplus"}
PrintSteps == {"wait", "load", "store", "line", "post"}

Places == Prints \cup
  {"unborn", "count", "countStore", "classify", "enter", "number", "admit",
   "join", "joinStore", "joinTest", "release", "barrier", "part",
   "partStore", "ready", "collect", "last", "leave", "gone"}

Guard(place) == IF place = "surplus" THEN "sem__stop" ELSE "semap_fin"

\* Mutation: sem_wait does not block.
WaitNonBlocking(s) == sem' = [sem EXCEPT ![s] = @ - 1]

\* sem_wait and sem_post as they change the semaphore's value.
Wait(s) == sem[s] > 0 /\ sem' = [sem EXCEPT ![s] = @ - 1]
Post(s) == sem' = [sem EXCEPT ![s] = @ + 1]

Goto(a, place) == pc' = [pc EXCEPT ![a] = place]
At(a, place) == pc[a] = place

Init ==
  /\ main = "start"
  /\ sem = SemInit
  /\ shm = ShmZero
  /\ pc = [a \in Atoms |-> "unborn"]
  /\ step = [a \in Atoms |-> "wait"]
  /\ tmp = [a \in Atoms |-> 0]
  /\ left = [a \in Atoms |-> 0]
  /\ creating = [a \in Atoms |-> 0]
  /\ created = [a \in Atoms |-> 0]
  /\ outLines = 0
  /\ crashes = 0
  /\ forkFailures = 0

-----------------------------------------------------------------------------
(* The main process.                                                       *)

\* remove(), attach the segment, open the semaphores; with nothing to bond
\* the surplus atoms are let go at once.
MainStart ==
  /\ main = "start"
  /\ main' = "fork"
  /\ IF Count_H_Atom = 0 /\ Count_O_Atom = 0
       THEN Post("sem__stop")
       ELSE UNCHANGED sem
  /\ UNCHANGED <<shm, atomVars, outVars, crashes, forkFailures>>

\* The oxygens are forked before the hydrogens.
ForkOrder(a) ==
  /\ main = "fork"
  /\ At(a, "unborn")
  /\ a \in Hydrogens => \A o \in Oxygens : pc[o] # "unborn"

Fork(a) ==
  /\ ForkOrder(a)
  /\ Goto(a, "started")
  /\ UNCHANGED <<main, sem, shm, step, tmp, left, outVars, crashes, forkFailures>>

\* fork() = -1 is not 0, so createProcess goes on as if the child existed.
ForkFails(a) ==
  /\ ForkOrder(a)
  /\ forkFailures < MaxForkFailures
  /\ forkFailures' = forkFailures + 1
  /\ Goto(a, "gone")
  /\ UNCHANGED <<main, sem, shm, step, tmp, left, outVars, crashes>>

\* while (wait(NULL) > 0), then the segment is removed.
MainReap ==
  /\ main = "fork"
  /\ \A a \in Atoms : At(a, "gone")
  /\ main' = "done"
  /\ UNCHANGED <<sem, shm, atomVars, outVars, crashes, forkFailures>>

\* The whole process group is killed (Ctrl-C) and the program is run again:
\* the semaphore names were unlinked at once, proj2.out is removed, but the
\* segment is found under its key and its counters are not cleared.
CrashAndRerun ==
  /\ main = "fork"
  /\ crashes < MaxCrashes
  /\ crashes' = crashes + 1
  /\ main' = "start"
  /\ sem' = SemInit
  /\ pc' = [a \in Atoms |-> "unborn"]
  /\ step' = [a \in Atoms |-> "wait"]
  /\ tmp' = [a \in Atoms |-> 0]
  /\ left' = [a \in Atoms |-> 0]
  /\ creating' = [a \in Atoms |-> 0]
  /\ created' = [a \in Atoms |-> 0]
  /\ outLines' = 0
  /\ UNCHANGED <<shm, forkFailures>>

-----------------------------------------------------------------------------
(* PrintStatusOfAtomAndSemaphore between its sem_wait and sem_post.        *)

Printing(a) == pc[a] \in Prints /\ step[a] # "wait"

\* Mutation: the print is not preceded by its sem_wait.
PrintUnlocked(a) ==
  /\ pc[a] \in Prints /\ step[a] = "wait"
  /\ step' = [step EXCEPT ![a] = "load"]
  /\ UNCHANGED <<main, sem, shm, pc, tmp, left, outVars, crashes, forkFailures>>

PrintWait(a) ==
  /\ pc[a] \in Prints /\ step[a] = "wait"
  /\ Wait(Guard(pc[a]))
  /\ step' = [step EXCEPT ![a] = "load"]
  /\ UNCHANGED <<main, shm, pc, tmp, left, outVars, crashes, forkFailures>>

PrintLoad(a) ==
  /\ Printing(a) /\ step[a] = "load"
  /\ tmp' = [tmp EXCEPT ![a] = shm.num]
  /\ step' = [step EXCEPT ![a] = "store"]
  /\ UNCHANGED <<main, sem, shm, pc, left, outVars, crashes, forkFailures>>

PrintStore(a) ==
  /\ Printing(a) /\ step[a] = "store"
  /\ shm' = [shm EXCEPT !.num = tmp[a] + 1]
  /\ tmp' = [tmp EXCEPT ![a] = 0]
  /\ step' = [step EXCEPT ![a] = "line"]
  /\ UNCHANGED <<main, sem, pc, left, outVars, crashes, forkFailures>>

\* fprintf reads IDMolecule when it runs; fclose appends the line.
PrintLine(a) ==
  /\ Printing(a) /\ step[a] = "line"
  /\ outLines' = outLines + 1
  /\ creating' = IF At(a, "creating")
                   THEN [creating EXCEPT ![a] = shm.IDMolecule] ELSE creating
  /\ created' = IF At(a, "created")
                  THEN [created EXCEPT ![a] = shm.IDMolecule] ELSE created
  /\ step' = [step EXCEPT ![a] = "post"]
  /\ UNCHANGED <<main, sem, shm, pc, tmp, left, crashes, forkFailures>>

\* Mutation: the oxygen leaves without waiting for its two hydrogens.
AfterPrintNoCollect(a) ==
  CASE At(a, "started")  -> "queue"
    [] At(a, "queue")    -> "count"
    [] At(a, "creating") -> IF a \in Oxygens THEN "admit" ELSE "join"
    [] At(a, "created")  -> IF a \in Oxygens THEN "last" ELSE "part"
    [] At(a, "surplus")  -> "gone"

\* The statement that follows each print in main().
AfterPrint(a) ==
  CASE At(a, "started")  -> "queue"
    [] At(a, "queue")    -> "count"
    [] At(a, "creating") -> IF a \in Oxygens THEN "admit" ELSE "join"
    [] At(a, "created")  -> IF a \in Oxygens THEN "collect" ELSE "part"
    [] At(a, "surplus")  -> "gone"

PrintPost(a) ==
  /\ Printing(a) /\ step[a] = "post"
  /\ Post(Guard(pc[a]))
  /\ Goto(a, AfterPrint(a))
  /\ step' = [step EXCEPT ![a] = "wait"]
  /\ left' = [left EXCEPT ![a] = IF a \in Oxygens /\ pc[a] \in {"creating", "created"}
                                   THEN 2 ELSE 0]
  /\ UNCHANGED <<main, shm, tmp, outVars, crashes, forkFailures>>

-----------------------------------------------------------------------------
(* An atom decides whether it is surplus, without any lock.                *)

Counter(a) == IF a \in Hydrogens THEN "hydrogen_n" ELSE "oxygen_n"
Needed(a) == IF a \in Hydrogens THEN Count_H_Atom ELSE Count_O_Atom

CountLoad(a) ==
  /\ At(a, "count")
  /\ tmp' = [tmp EXCEPT ![a] = shm[Counter(a)]]
  /\ Goto(a, "countStore")
  /\ UNCHANGED <<main, sem, shm, step, left, outVars, crashes, forkFailures>>

CountStore(a) ==
  /\ At(a, "countStore")
  /\ shm' = [shm EXCEPT ![Counter(a)] = tmp[a] + 1]
  /\ tmp' = [tmp EXCEPT ![a] = 0]
  /\ Goto(a, "classify")
  /\ UNCHANGED <<main, sem, step, left, outVars, crashes, forkFailures>>

Classify(a) ==
  /\ At(a, "classify")
  /\ Goto(a, IF Needed(a) < shm[Counter(a)] THEN "surplus" ELSE "enter")
  /\ UNCHANGED <<main, sem, shm, step, tmp, left, outVars, crashes, forkFailures>>

-----------------------------------------------------------------------------
(* Bonding.                                                                *)

EnterH(a) ==
  /\ a \in Hydrogens /\ At(a, "enter")
  /\ Wait("semap_H")
  /\ Goto(a, "creating")
  /\ UNCHANGED <<main, shm, step, tmp, left, outVars, crashes, forkFailures>>

\* Mutation: the oxygen does not wait for its turn.
EnterOUnguarded(a) ==
  /\ a \in Oxygens /\ At(a, "enter")
  /\ Goto(a, "number")
  /\ UNCHANGED <<main, sem, shm, step, tmp, left, outVars, crashes, forkFailures>>

EnterO(a) ==
  /\ a \in Oxygens /\ At(a, "enter")
  /\ Wait("semap_O")
  /\ Goto(a, "number")
  /\ UNCHANGED <<main, shm, step, tmp, left, outVars, crashes, forkFailures>>

\* ++IDMolecule: only the holder of semap_O writes it.
NumberMolecule(a) ==
  /\ At(a, "number")
  /\ shm' = [shm EXCEPT !.IDMolecule = @ + 1]
  /\ Goto(a, "creating")
  /\ UNCHANGED <<main, sem, step, tmp, left, outVars, crashes, forkFailures>>

\* One of the oxygen's two sem_post(semap_H).
Admit(a) ==
  /\ At(a, "admit")
  /\ Post("semap_H")
  /\ left' = [left EXCEPT ![a] = @ - 1]
  /\ Goto(a, IF left[a] = 1 THEN "barrier" ELSE "admit")
  /\ UNCHANGED <<main, shm, step, tmp, outVars, crashes, forkFailures>>

JoinLoad(a) ==
  /\ At(a, "join")
  /\ tmp' = [tmp EXCEPT ![a] = shm.NumOfMolecule_H]
  /\ Goto(a, "joinStore")
  /\ UNCHANGED <<main, sem, shm, step, left, outVars, crashes, forkFailures>>

JoinStore(a) ==
  /\ At(a, "joinStore")
  /\ shm' = [shm EXCEPT !.NumOfMolecule_H = (tmp[a] + 1) % UintSize]
  /\ tmp' = [tmp EXCEPT ![a] = (@ + 1) % UintSize]
  /\ Goto(a, "joinTest")
  /\ UNCHANGED <<main, sem, step, left, outVars, crashes, forkFailures>>

\* Mutation: the first hydrogen already opens the barrier.
JoinTestFirst(a) ==
  /\ At(a, "joinTest")
  /\ Goto(a, "release")
  /\ left' = [left EXCEPT ![a] = 3]
  /\ tmp' = [tmp EXCEPT ![a] = 0]
  /\ UNCHANGED <<main, sem, shm, step, outVars, crashes, forkFailures>>

\* Mutation: the barrier is opened for the two hydrogens only.
JoinTestTwoPosts(a) ==
  /\ At(a, "joinTest")
  /\ \E n \in {tmp[a], shm.NumOfMolecule_H} :
       /\ Goto(a, IF n >= 2 THEN "release" ELSE "barrier")
       /\ left' = [left EXCEPT ![a] = IF n >= 2 THEN 2 ELSE 0]
  /\ tmp' = [tmp EXCEPT ![a] = 0]
  /\ UNCHANGED <<main, sem, shm, step, outVars, crashes, forkFailures>>

\* The build may compare the register or read the counter again.
JoinTest(a) ==
  /\ At(a, "joinTest")
  /\ \E n \in {tmp[a], shm.NumOfMolecule_H} :
       /\ Goto(a, IF n >= 2 THEN "release" ELSE "barrier")
       /\ left' = [left EXCEPT ![a] = IF n >= 2 THEN 3 ELSE 0]
  /\ tmp' = [tmp EXCEPT ![a] = 0]
  /\ UNCHANGED <<main, sem, shm, step, outVars, crashes, forkFailures>>

\* One of the three sem_post(sem_creating).
Release(a) ==
  /\ At(a, "release")
  /\ Post("sem_creating")
  /\ left' = [left EXCEPT ![a] = @ - 1]
  /\ Goto(a, IF left[a] = 1 THEN "barrier" ELSE "release")
  /\ UNCHANGED <<main, shm, step, tmp, outVars, crashes, forkFailures>>

PassBarrier(a) ==
  /\ At(a, "barrier")
  /\ Wait("sem_creating")
  /\ Goto(a, "created")
  /\ UNCHANGED <<main, shm, step, tmp, left, outVars, crashes, forkFailures>>

PartLoad(a) ==
  /\ At(a, "part")
  /\ tmp' = [tmp EXCEPT ![a] = shm.NumOfMolecule_H]
  /\ Goto(a, "partStore")
  /\ UNCHANGED <<main, sem, shm, step, left, outVars, crashes, forkFailures>>

Decremented(n) == (n + UintSize - 1) % UintSize

PartStore(a) ==
  /\ At(a, "partStore")
  /\ shm' = [shm EXCEPT !.NumOfMolecule_H = Decremented(tmp[a])]
  /\ tmp' = [tmp EXCEPT ![a] = 0]
  /\ Goto(a, "ready")
  /\ UNCHANGED <<main, sem, step, left, outVars, crashes, forkFailures>>

Ready(a) ==
  /\ At(a, "ready")
  /\ Post("sem_ready")
  /\ Goto(a, "gone")
  /\ UNCHANGED <<main, shm, step, tmp, left, outVars, crashes, forkFailures>>

\* Mutation: one sem_wait(sem_ready) is enough.
CollectOne(a) ==
  /\ At(a, "collect")
  /\ Wait("sem_ready")
  /\ Goto(a, "last")
  /\ UNCHANGED <<main, shm, step, tmp, left, outVars, crashes, forkFailures>>

\* One of the oxygen's two sem_wait(sem_ready).
Collect(a) ==
  /\ At(a, "collect")
  /\ Wait("sem_ready")
  /\ left' = [left EXCEPT ![a] = @ - 1]
  /\ Goto(a, IF left[a] = 1 THEN "last" ELSE "collect")
  /\ UNCHANGED <<main, shm, step, tmp, outVars, crashes, forkFailures>>

LastMolecule(a) ==
  /\ At(a, "last")
  /\ IF Count_O_Atom = shm.IDMolecule
       THEN Post("sem__stop") ELSE UNCHANGED sem
  /\ Goto(a, "leave")
  /\ UNCHANGED <<main, shm, step, tmp, left, outVars, crashes, forkFailures>>

\* Mutation: the last sem_post(semap_O) is missing.
LeaveHolding(a) ==
  /\ At(a, "leave")
  /\ Goto(a, "gone")
  /\ UNCHANGED <<main, sem, shm, step, tmp, left, outVars, crashes, forkFailures>>

Leave(a) ==
  /\ At(a, "leave")
  /\ Post("semap_O")
  /\ Goto(a, "gone")
  /\ UNCHANGED <<main, shm, step, tmp, left, outVars, crashes, forkFailures>>

-----------------------------------------------------------------------------

PrintStep(a) ==
  \/ PrintWait(a) \/ PrintLoad(a) \/ PrintStore(a)
  \/ PrintLine(a) \/ PrintPost(a)

CountStep(a) ==
  \/ CountLoad(a) \/ CountStore(a) \/ Classify(a)

BondStep(a) ==
  \/ EnterH(a) \/ EnterO(a) \/ NumberMolecule(a) \/ Admit(a)
  \/ JoinLoad(a) \/ JoinStore(a) \/ JoinTest(a)
  \/ Release(a) \/ PassBarrier(a)
  \/ PartLoad(a) \/ PartStore(a)
  \/ Ready(a) \/ Collect(a) \/ LastMolecule(a) \/ Leave(a)

Atom(a) == PrintStep(a) \/ CountStep(a) \/ BondStep(a)

\* main() itself.  A fork that fails and a kill are the environment's.
Main == MainStart \/ MainReap \/ \E a \in Atoms : Fork(a)

Next ==
  \/ Main
  \/ CrashAndRerun
  \/ \E a \in Atoms : ForkFails(a) \/ Atom(a)

Spec == Init /\ [][Next]_vars

\* Every process is scheduled: no process that can take a step waits forever.
FairSpec == Spec /\ WF_vars(Main) /\ \A a \in Atoms : WF_vars(Atom(a))

\* Each ++, -- and the comparison behind ++ works on the counter as the atom itself
\* left it: nobody else has stored it since.
Undisturbed ==
  \A a \in Atoms :
    /\ At(a, "countStore") => shm[Counter(a)] = tmp[a]
    /\ pc[a] \in {"joinStore", "joinTest", "partStore"} => shm.NumOfMolecule_H = tmp[a]

\* The behaviours of Spec in which no update is disturbed: Spec /\ []Undisturbed.
UndisturbedSpec == Init /\ [][Next /\ Undisturbed']_vars

-----------------------------------------------------------------------------
(* Properties.                                                             *)

\* Every variable keeps the range the C types and the labels give it.
TypeOK ==
  /\ main \in {"start", "fork", "done"}
  /\ sem \in [Semaphores -> Nat]
  /\ shm \in [num : Nat, IDMolecule : Nat, NumOfMolecule_H : 0 .. UintSize - 1,
              hydrogen_n : Nat, oxygen_n : Nat]
  /\ pc \in [Atoms -> Places]
  /\ step \in [Atoms -> PrintSteps]
  /\ tmp \in [Atoms -> Nat]
  /\ left \in [Atoms -> 0 .. 3]
  /\ creating \in [Atoms -> Nat]
  /\ created \in [Atoms -> Nat]
  /\ outLines \in Nat
  /\ crashes \in 0 .. MaxCrashes
  /\ forkFailures \in 0 .. MaxForkFailures

\* Lines 20 to 23 are printed by one atom at a time, and so are the surplus
\* lines, whatever the scheduler does: neither semap_fin nor sem__stop is ever
\* posted more often than it is taken.
GuardedOutput ==
  \A a, b \in Atoms :
    Printing(a) /\ Printing(b) /\ Guard(pc[a]) = Guard(pc[b]) => a = b

\* The oxygen of the current molecule holds semap_O in these places.
OxygenPlaces == {"number", "creating", "admit", "barrier", "created",
                 "collect", "last", "leave"}
HydrogenPlaces == {"creating", "join", "joinStore", "joinTest", "release",
                   "barrier", "created", "part", "partStore", "ready"}
OInside == {o \in Oxygens : pc[o] \in OxygenPlaces}
HInside == {h \in Hydrogens : pc[h] \in HydrogenPlaces}

\* Hydrogens the oxygen has admitted and whose sem_ready it has not taken.
Owed(o) ==
  CASE pc[o] = "admit" -> 2 - left[o]
    [] pc[o] \in {"barrier", "created"} -> 2
    [] pc[o] = "collect" -> left[o]
    [] OTHER -> 0

\* One oxygen at a time bonds, and the hydrogens admitted, bonding or finished
\* are exactly those it still waits for: no third hydrogen ever slips into a
\* molecule and none is left over for the next.
OneMoleculeAtATime ==
  /\ Cardinality(OInside) + sem["semap_O"] = 1
  /\ \A o \in OInside :
       sem["semap_H"] + Cardinality(HInside) + sem["sem_ready"] = Owed(o)
  /\ OInside = {} => HInside = {} /\ sem["semap_H"] = 0 /\ sem["sem_ready"] = 0

\* The two lines of an atom name the same molecule, and a molecule has at most
\* one oxygen and two hydrogens, although IDMolecule is read with no lock.
MoleculeLines ==
  /\ \A a \in Atoms : created[a] # 0 => created[a] = creating[a]
  /\ \A a \in Atoms : creating[a] # 0 =>
       /\ Cardinality({o \in Oxygens : creating[o] = creating[a]}) <= 1
       /\ Cardinality({h \in Hydrogens : creating[h] = creating[a]}) <= 2

\* In a run on a fresh segment an atom prints "not enough" only when every
\* molecule the arguments allow has been created.
SurplusLast ==
  \A a \in Atoms :
    crashes = 0 /\ At(a, "surplus") /\ Printing(a) =>
      /\ Cardinality({o \in Oxygens : created[o] # 0}) >= Count_O_Atom
      /\ Cardinality({h \in Hydrogens : created[h] # 0}) >= Count_H_Atom

\* In a run on a fresh segment the line numbers are exact until the first
\* surplus line: those are printed under sem__stop and not under semap_fin.
LineNumbers ==
  crashes = 0 /\ (\A a \in Atoms : ~Printing(a)) /\ sem["sem__stop"] = 0
    => shm.num = outLines

\* A molecule gets its number only when no hydrogen is bonding any more, so no
\* atom can print the number of the next molecule as its own.
NumberWhenIdle ==
  [][shm'.IDMolecule # shm.IDMolecule => HInside = {}]_vars

\* In a run on a fresh segment "molecule created" is printed only when all three
\* atoms of the molecule have announced themselves, as long as no update of a
\* counter has been disturbed by another.
BarrierHeld ==
  \A a \in Atoms : crashes = 0 /\ created[a] # 0 =>
    /\ Cardinality({o \in Oxygens : creating[o] = created[a]}) = 1
    /\ Cardinality({h \in Hydrogens : creating[h] = created[a]}) = 2

\* The molecule of the oxygen that has taken a number.
Leader == {o \in Oxygens : pc[o] \in OxygenPlaces \ {"number"}}
Members == IF Leader = {} THEN {}
           ELSE Leader \cup {h \in Hydrogens : creating[h] = shm.IDMolecule}
Bonds == INSTANCE Bonding
  WITH number <- shm.IDMolecule, members <- Members, made <- created

\* On a fresh segment, and while no update is disturbed, the semaphores and counters
\* implement the bonding of one molecule after another: nobody announces a molecule
\* that is not complete, and none is left before its three atoms have announced it.
BondsComplete == Bonds!Spec

\* The atoms that do not bond: told to wait for sem__stop, or never forked.
LeftOut(kind) ==
  {a \in kind : At(a, "surplus") \/ (At(a, "gone") /\ created[a] = 0)}

\* An atom is left out only for want of partners: never more of a kind than
\* the arguments leave over.
SurplusOnlyWhenShort ==
  /\ Cardinality(LeftOut(Hydrogens)) <= NH - Count_H_Atom
  /\ Cardinality(LeftOut(Oxygens)) <= NO - Count_O_Atom

\* Atom a is about to sem_wait on semaphore s; every other statement it can be at
\* runs on.
WaitsFor(a, s) ==
  \/ pc[a] \in Prints /\ step[a] = "wait" /\ s = Guard(pc[a])
  \/ At(a, "enter") /\ s = IF a \in Hydrogens THEN "semap_H" ELSE "semap_O"
  \/ At(a, "barrier") /\ s = "sem_creating"
  \/ At(a, "collect") /\ s = "sem_ready"
Waiting(a) == \E s \in Semaphores : WaitsFor(a, s) /\ sem[s] = 0
Alive(a) == pc[a] \notin {"unborn", "gone"}

\* The atoms never all wait for one another: once main has forked them, one that
\* has not exited can take its next step; unless an update of a counter has been
\* disturbed, or an atom is missing that was needed: left out, or never forked.
NoneStuck ==
  /\ crashes = 0 /\ SurplusOnlyWhenShort
  /\ \A a \in Atoms : ~At(a, "unborn")
  /\ \E a \in Atoms : Alive(a)
  => \E a \in Atoms : Alive(a) /\ ~Waiting(a)

\* Every atom exits, those left over included, and main reaps them all and removes
\* the segment, unless the run is killed, an update of a counter is disturbed or an
\* atom is missing that was needed: nothing else keeps it, a failed fork neither.
Termination ==
  [](Undisturbed /\ SurplusOnlyWhenShort) => <>(main = "done" \/ crashes > 0)
=============================================================================
