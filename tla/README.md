# TLA+ models of VUT-FIT-Projects

The repository collects the programs of several university courses. This
directory models those whose correctness depends on more than one
function's input and output: concurrent processes, an event loop, a protocol,
data structures under long sequences of calls, automata with global flags. It says
what is modelled, what TLC checks on small instances, and what TLAPS proves for
every instance.

## 1. Inventory

| part | what it is | state | operations | what is hard |
|---|---|---|---|---|
| `IOS/secondproject` | H2O molecules: `main` forks NO oxygens and NH hydrogens | a shared segment (`num`, `IDMolecule`, `NumOfMolecule_H`, `hydrogen_n`, `oxygen_n`), seven semaphores, `proj2.out` | start, fork, print, count, join, release, part, reap | unlocked `++`/`--` on shared memory, a barrier for three made of counters and posts, surplus atoms, a segment that survives a kill |
| `IPK/secondproject` | TCP chat server, one thread, `epoll` | the vector of clients (state, channel, display name), `events[]`, `force_quit` | accept, AUTH, MSG, JOIN, ERR, BYE, unknown line, SIGINT | edge-triggered sockets, several lines in one buffer, clients that vanish, full sockets, a signal at any instant |
| `IPK/firstproject` | the chat client | FSM Start, Auth, Open, Error, End; one buffer for stdin and socket | `/auth`, `/join`, `/rename`, message, reply, server message, BYE | blocking `getline` inside an event loop, reuse of the buffer, coalesced lines, a reply that crosses a second `/auth` |
| `IAL/firstproject` | singly and doubly linked lists with an active element, stack, queue in an array, infix to postfix | nodes, `activeElement`, array and indexes | about 50 operations | dangling active element, full and empty queue, the stack between two operators |
| `IAL/secondproject` | binary search tree (recursive, iterative with a stack), hash table with chaining | tree, explicit stacks, buckets | search, insert, delete, traversals | deletion of a node with two children, two stacks in step, deletion inside a chain |
| `ICP` | Qt simulator of mobile robots | scene items, three vectors, selection pointers, a timer, `to_rotate` per robot | add, delete, select, load, tick, sliders | pointers after a deletion, a turn while the sliders move, reused addresses |
| `IFJ` | a compiler of IFJ22 | characters and one pushed back, token, precedence stack, scopes, five global flags | scan, parse, check, generate | where a token ends, handles of a reduction, globals under recursion |
| `IZP`, `IMP`, `IOS/firstproject`, `IDS`, `ITW` | text filters, LED matrix firmware, a shell script, an SQL schema, a web page | none that outlives a call | | input and output only |

The chat client and the chat server are the two ends of one protocol
(`AUTH`, `JOIN`, `MSG`, `BYE`, `REPLY`). The atoms interact through semaphores and
shared memory only. Inside `IFJ`, the parser takes tokens from the scanner, hands
expressions to the precedence analysis and keeps variables in the scopes. The
other parts are independent programs.

What makes each correct: molecules do not mix and nobody waits for ever; everybody
in a channel is told who is there; both ends agree on the state of a
connection; a structure is, after any calls, the sequence, map or set it stands
for; an automaton accepts what its grammar says, with the meaning it gives.

`PROJECT.json` lists the hazards line by line under `hazards`, with the properties
that would catch each of them going wrong.

## 2. Modules

| module | models | composed with |
|---|---|---|
| `Bonding` | abstract: one molecule after another; its three members announce it, all three "create" it, then the next | |
| `Molecule` | `IOS/secondproject` statement by statement | `Bonds == INSTANCE Bonding` |
| `ChatRoom` | abstract: clients enter, move, leave and talk in channels; what each has been told | |
| `ChatServer` | the event loop of `IPK/secondproject`, the kernel's epoll and sockets, arbitrary clients | `Rooms == INSTANCE ChatRoom` |
| `ChatSystem` | the clients of `IPK/firstproject` | EXTENDS `ChatServer`, in place of its arbitrary clients |
| `CursorList` | abstract: a sequence of values and a cursor | |
| `LinkedElements` | the operations `c201.c` and `c206.c` share | |
| `SinglyLinkedList`, `DoublyLinkedList` | `c201.c`, `c206.c` | EXTEND `LinkedElements`; both implement `CursorList` |
| `Queue` | `c203.c` | |
| `Expressions` | abstract: infix expressions and their trees | |
| `InfixToPostfix` | `c204.c` on the stack of `c202.c` | EXTENDS `Expressions` |
| `FiniteMap` | abstract: a map with search, insert and delete | |
| `HashTable` | `hashtable.c` | implements `FiniteMap` |
| `BinaryTree` | `btree/rec`, as functions | |
| `SearchTree` | `btree/iter`, one action per round of a loop, and `btree/exa` | EXTENDS `BinaryTree`, implements `FiniteMap` |
| `Scanner` | `getToken` of `IFJ/scanner.c`, one action per character | |
| `PrecedenceParser` | `expression()` of `IFJ/expression.c`, one action per round | EXTENDS `Expressions` |
| `SymbolTable` | `IFJ/symtable.c`, `stack_for_trees.c` | EXTENDS `BinaryTree` |
| `Parser` | `statement()` of `IFJ/parser.c`, its flags and nesting | |
| `Arguments` | `args()` and `args_n()` of `IFJ/parser.c` on the lists of `parse_for_func` and `add_builtin_func` | |
| `Scene` | items, vectors and selection of `ICP` | |
| `Robots` | how the robots of `ICP` turn | |
| `MoleculeProofs`, `ChatServerProofs`, `ParserProofs`, `ScannerProofs`, `SimulatorProofs` | theorems | each EXTENDS its modules and `TLAPS` |
| `StructureProofs` | theorems about both lists, the queue and the hash table | EXTENDS the four modules and `TLAPS` |
| `BondingProofs` | what the atoms print, that they implement `Bonding`, that they never all wait | EXTENDS `MoleculeProofs` |
| `ChatSystemProofs` | what client and server agree on | EXTENDS `ChatSystem`, `ChatServerProofs` |
| `MCMolecule`, `MCChatServer`, `MCChatSystem`, `MCSequential`, `MCParser` | instances for TLC | |

### Molecule

`pc[a]` is the statement of `main()` an atom is about to execute, `step[a]` the place
inside a guarded `PrintStatusOfAtomAndSemaphore`, `left[a]` the calls left in a
run of equal `sem_post` or `sem_wait`. Each semaphore operation and each access
to the shared segment is one action. An unlocked
`++` or `--` is a load into `tmp[a]` and a later store; the comparison
`++NumOfMolecule_H >= 2` may use the register or read again (`JoinTest`).
`Undisturbed` says that each of them finds the counter as the atom itself left it, and
`UndisturbedSpec` has the behaviours of `Spec` in which that is so (theorem
`UndisturbedBehaviours`): the loads and stores stay separate steps, between which anything may
happen but a store to the same counter. `++IDMolecule` is one step: one
oxygen at a time executes it, which `OneMoleculeAtATime` confirms. `num` and
`IDMolecule` are not wrapped, they would need 2^32 lines; `NumOfMolecule_H` is
taken modulo `UintSize`, because a torn `--` may pass below zero.
`creating`, `created` and `outLines` record the lines of `proj2.out` the properties
speak of. `ForkFails` is `fork() == -1`, which `createProcess` takes for a child.
`CrashAndRerun` kills the process group and runs the program again: the
semaphore names are already unlinked, but `shmget` finds the old segment and its
counters go on from where they were. The check of the arguments and the `usleep`
times are left out: any delay is possible anyway. `sem_created` is
opened and closed and used by nobody, and has no counterpart. `LeftOut` are the atoms of a kind
that do not bond, being surplus or never forked.

### ChatServer

An action is one turn of the loop over `events[]`: `accept()`, or one `recv()` with
the whole handler of what it returned, all its `send()` calls included.
`ready` is epoll's ready list: an arrival on a registered
socket puts it there, `EpollWait` takes the first `MaxEvents` that still have something to
report, and only the listening socket, which is level-triggered, stays.
`Connect`, `SendLine`, `ReadLines`, `CloseSocket` and `PeerReset` are the
clients and the network; they are arbitrary: in `chat_server` and `chat_rooms` the server is
checked against any client, in `ChatSystem` against that of `IPK/firstproject`. Lines are tuples headed by
their keyword. `OTHER` is a line that matches no command, `BADJOIN` a JOIN with an invalid name,
`SHORT` a line with fewer words than the handler indexes. `Handle` performs the sends in
order: the first that fails (`EAGAIN` on a socket that holds `SendBuffer`
lines, `SIGPIPE` or an error on a reset connection) ends the process, as `exit(EXIT_FAILURE)` in
`sendClient` does. `Vanished` and `ShortLine` end it too: `words[0]` of an empty
vector, or `words[k]` beyond the end, are read. Where such a read happens not to
end the process the line matches nothing (`Unmatched`). The loops over the vector and over a
sequence of sends (`Keep`, `LinesTo`, `Reads`) are recursive functions, one round of the loop per
index, because the proofs need that form.

Not modelled: the display names the server keeps and the text of messages (what a client that has no name sends is, in `ChatSystem`); a line split over two
`recv()` calls (`CHANGELOG.md` names it a limitation); a socket number that is
used again by a later connection (`removeClient` forgets the old one first); errors of
`socket`, `bind`, `listen`, `accept`, `epoll_create1`.

### ChatSystem

One action is one turn of the client's loop: a line typed by the user or one
`recv()`, with the whole handler and its `send()` calls. `fsm` is the variable
`state` of `main()`, `buffer` the one buffer for terminal and socket. `named` says that
`displayname` is not empty: every line typed before Open clears it first, and only a valid `/auth` (`Names`), or a `/rename` in
Open, sets it. After `/auth` and then `/help` the client is opened without a name, and its lines are those of `NamelessLines`: "MSG FROM  IS text" puts `IS` where the name
belongs, "JOIN channel AS" is a word short. The server takes them for a line it does not know, for a message whose text begins with "IS", for a JOIN with a
bad name, or reads `words[3]` of three (`SHORT`). `nameless` records who has sent such a line. `prompt` says that the client waits in `getline()` inside a
handler, where it looks at nothing else: a line the handler refuses leads there.
`ReceiveFromServer` takes any number of the lines that have arrived and looks at the first
only. `HandleAgain` is a `recv()` that returns 0: the old contents of the buffer are handled
once more. The server's `ERROR FROM` is not the `ERR FROM` the client knows, so
`Kind` makes it an unknown line; so does a `BYE` that arrives in Auth. The branch for a refused
JOIN in Open compares the wrong word and does nothing (`Reply`); the line stays in the buffer, and once the server is gone
every `recv()` of 0 handles it again, for ever (`Spins`). A peer that is gone
takes the first `send()` and kills the client by `SIGPIPE` at the next (`Emit`).
Left out: what messages say, a text of a nameless client that begins with "is" in small letters (the server forwards it, other clients do not understand it), a typed line of 1023 characters or more (it sets `failbit`),
the check of arguments and the resolution of the host.

### Lists, queue, table, trees

* `LinkedElements` keeps the heap: `allocated`, and for each element its value and
  successor. `malloc` may fail before any insertion. `DoublyLinkedList` has one
  operator to link an element between two neighbours and one to unlink it; each
  operation names the neighbours and the active element as the code does. Its state as a
  `CursorList` is the walk from `firstElement`.
* `Queue` has the array, both indexes and, as history, what was accepted and how
  many were removed. It shows what the code does: `freeIndex` starts at 0
  and never wraps, because `Queue_IsFull` refuses the insertion that would make it 0. The queue takes
  `QUEUE_SIZE - 1` values in its life, and says that it is empty only before the first; `firstIndex` wraps, and goes on past `freeIndex`
  when the values have left. `GivesInTurn` says what is given out then, `RemovesOnlyStored` what `c203.c` says instead.
* `HashTable` is one sequence of items per index, `get_hash` the sum of the code.
* `SearchTree` is the tree as nested nodes, the path the pointer to a pointer has
  gone, and the two explicit stacks. Every call starts with `before`, goes round
  its loop and ends; the abstract map sees it when it returns. The keys come as
  `letter_count` makes them from text.
* `InfixToPostfix` and `PrecedenceParser` choose the expression while they read it. The first
  gets correct expressions, as `infix2postfix` assumes, on stacks of several `STACK_SIZE`s. A `Stack_Push` on a full stack loses what it was given and the
  conversion goes on (`error_flag`), as far as into `NoLeftPar`, where the loop of `untilLeftPar` writes without end. The values of `eval` are ints of `IntSize` bytes in
  the array of `STACK_SIZE` bytes; the first one that has no room makes the outcome undefined. `eval` answers false when any
  operation gives 0, and so does the reference. The second gets any tokens.

### The compiler

* `Scanner` chooses the text character by character; a character pushed back is
  read first by the next state or the next call. One letter, digit and symbol stands for each class
  the automaton tells apart.
* `SymbolTable` rebuilds each tree in balance after every insertion, as the code does. A name inserted where its scope has it
  gets a value that points to the dead parameter of `bst_insert` (`Dangling`): `let` and `var` ask first (`DeclareVariable`), the parameters of a function
  do not (`DeclareParameter`). It has as
  many scopes as the array has slots: `Stack_Push` doubles `size` every time, so the array is never
  enlarged, and what is behind it is undefined.
* `Parser` keeps the recursion of `statement()` as the sequence of open bodies. What an expression or the
  arguments of a call are is left out: each statement is right, or the program is refused (`Refused`, any `exit_program`).
  The globals `inside_ifwhile`, `inside_function`, `didnt_visited_retun`,
  `current_function` are set and reset where the code does, and not where it does not.
* `Arguments` takes a call token by token (`args`). The list of parameters has no marked end: behind the last one is whatever
  `malloc` left (`listEnd`), which decides what a token other than `)` does there (`BehindLast`). `Double2Int`, `length`, `ord` and
  `chr` have a parameter whose name is `NULL`, and `strcmp` with it is a crash: no call of these four with an argument is accepted.

### The simulator

`Scene` gives objects addresses that may be given out again after a deletion.
`changeSelection` returns early unless one item is selected, so the pointers of the sliders may
name an object that is gone; what a write through them does is undefined
(`updateSlider`). Qt's selection is external: an item that leaves the scene leaves
the selection. `Robots` counts angles in ticks of angular speed 1; whether something is in sight is any
value at each tick. Angles and speeds are those the sliders can set; a save file edited by hand may hold others.

## 3. Runs

| run | instance | shows |
|---|---|---|
| `molecule_races` | 2 O, 2 H, 1 failed fork, 1 kill and rerun on the old segment | `TypeOK`, `GuardedOutput`, `OneMoleculeAtATime`, `MoleculeLines`, `SurplusLast`, `LineNumbers`, `NumberWhenIdle` hold whatever the interleaving of loads and stores (`SurplusLast` and `LineNumbers` on a fresh segment) |
| `molecule_protocol` | 2 O, 4 H, undisturbed updates | `MoleculeLines`, `BarrierHeld`, `NoneStuck`, and `Molecule` implements `Bonding` (`BondsComplete`) over two consecutive molecules with nobody surplus |
| `molecule_live` | 1 O, 3 H, 1 failed fork, fairness | `Termination`: all exit, the hydrogen left over included, or the one that was never forked taking its place |
| `molecule_surplus` | 1 O, 3 H | violation of `SurplusOnlyWhenShort` |
| `queue_drained` | 3 places, 4 removals | violation of `RemovesOnlyStored` |
| `chat_server` | 2 arbitrary clients, every line, 3 lines, 2 unread, 1 SIGINT | `TypeOK`, `BatchRegistered`, `NoLostWakeup` |
| `chat_rooms` | 2 arbitrary clients, 5 lines one at a time | `RosterConsistent`, and `ChatServer` implements `ChatRoom` (`RoomsKept`) |
| `chat_interrupt` | 2 arbitrary clients, AUTH or an unknown line, 1 SIGINT, fairness | violation of `InterruptStops` |
| `chat_system` | 2 clients of the repository, 3 typed lines, 1 SIGINT, fairness | `OpenAgreed`, `RefusedForCause`, `AuthAnswered`, `ClientEnds` |
| `chat_down` | as `chat_system`, no SIGINT | violation of `ServerSurvives` |
| `sequential` | fourteen programs side by side | lists: `ChainIsAllocated`, `LinksOfDLL`, `ActsAsCursorList`; queue: `GivesInTurn`; table: `OneItemPerKey`, `TableIsMap`; trees: `IterativeAsRecursive`, `TraversalOnCourse`, `TreeIsMap`; expressions: `ConvertsToPostfix`, `ParsesExpressions`, `ReducesToItsAnchor`; scopes: `ScopesAsDeclared`; `LongestToken`; statements: `ReturnsInFunction`, `BlockKeepsFunctionsOut`; calls: `ArgumentsFit`; simulator: `VectorsAreScene`, `TurnsAsMeant` |
| `parser_return` | statements alone, 1 name, 2 open bodies | violation of `MissingReturnRefused` |

Bounds. Two oxygens are the least with which one molecule can disturb the next; with
two hydrogens one of them is surplus, with four there are two complete molecules. Three hydrogens and one oxygen
have one hydrogen left over; when the fork of one hydrogen fails, the others are just enough. `UintSize = 8` is above every count that arises
and still wraps at zero. `molecule_live` has a single molecule, because liveness is checked
without symmetry; that two molecules cannot stop half-way is `NoneStuck` of `molecule_protocol`,
and no atom ever goes back to an earlier statement. Two clients with two channels are enough for one to be in another
channel than the one that acts; three lines allow both to authenticate and one to
act, five allow both to move and come back. `RecvLines = MaxUnread = 2` lets lines arrive
together and fit one `recv()`, `SendBuffer = 3` is small enough to fill. `chat_system` has
one channel, because a client does not look at channels, and `SendBuffer = 5` is more than
three typed lines can fill: that full sockets end the server is in `chat_server`.
In `chat_server` and `chat_rooms` TLC uses a view that replaces an unread line by
its existence, because arbitrary clients do not look at what they read and `view` keeps
what it said; the histories `mail` and, after the end of the server, everything else are not
told apart. Symmetry is used in safety runs only, on atoms of one kind and on clients.

In `sequential` a behaviour is one program, chosen in its first state (`program`), while the
variables of the others do not change: the programs share nothing, and one run
checks them all. The view `Memory` is the part a behaviour depends on: it leaves out the last
call and its answer, which decide nothing that follows, and `returning`, which no
property of that run reads. Action properties are checked on every step TLC makes, those
to states it has seen in the view included. Three elements allow an active one with a neighbour on both sides;
`QUEUE_SIZE = 4` an enqueue at the last index that is refused, nine removals twice round the array; four keys, three of one index ("ab", "ba", "c", the first two of one sum), a deletion in front of, inside and
behind a chain, `HT_SIZE = 3` an index of one key and an empty one; three keys with up to five letters every shape of three nodes;
stacks of 2, 4 and 6 bytes, with ints of 2, room for one, two or three values and a full stack of operators for seven tokens; five tokens of an expression two operators of any priorities or
one in parentheses; five names a tree of depth three, two scopes a name in both; `MaxString = 2` and `MaxNumber = 6` every state of the automaton,
an escape after a character and `0.0e+0`; two open bodies a function in a function, a block in a function and a function in a block;
`MaxParams = 2` and `MaxArguments = 3` one argument too few and one too many, and `substring` with its three; three
objects one of each type and a reused address; a full turn of 8 ticks with `dAngle` 3 and a speed of 2 a last step that is shorter, and a speed of 0.

`CHECK_DEADLOCK FALSE`: the atoms all exit and `main` returns, the server and the clients may end, a text ends, a
queue is full for good; that nobody is stuck before is `NoneStuck`, `Termination`, `AuthAnswered` and `ClientEnds`.

Fairness. Atoms and `main` are operating system processes that block only in
`sem_wait` and `wait`; weak fairness of each says the scheduler runs a process that
can run. Weak fairness is enough although semaphores are contended: with two hydrogens and one oxygen the
number of steps is finite. The server is one process with
weak fairness on its steps, and so is each client of the repository (`ClientProcess`: `recv()` and the head of its loop). Users, arbitrary
clients, forks that fail, kills and SIGINT have no fairness: `AuthAnswered` and `ClientEnds` except a client
whose user leaves it at its prompt.

### What the violations show

* `molecule_surplus`: an atom increments the shared counter and then compares the shared
  counter, not the number it took. Three hydrogens that count before any of them compares all
  see 3 > 2 and all wait for `sem__stop`, which the oxygen would post after its molecule. So none of them prints anything, and the oxygen waits in its barrier for ever.
* `queue_drained`: `Queue_IsEmpty` looks at `freeIndex` only (`c203.c:129`), so after two values have come and gone a third `Queue_Remove` is no error and moves
  `firstIndex` past the free place. `c203.c:181` wants `Queue_Error` there.
* `chat_interrupt`: `force_quit` is read only after `epoll_wait` has failed with
  `EINTR`; a SIGINT that arrives while a batch is handled ends nothing until another signal.
* `chat_down`: a client sends AUTH, its user types Ctrl-D, and it sends BYE and closes. If both
  lines reach the server in one `recv()`, it handles the first; the next `recv()` returns 0,
  the vector of words is empty, and `words[0]` is read.
* `parser_return`: `didnt_visited_retun` starts true and is cleared by the first return and by
  any `var` declaration with a value, in whichever function; a later function that has a result
  and returns nothing is accepted.

`BarrierHeld`, `BondsComplete`, `NoneStuck` and `Termination` are about runs in which no update is disturbed, because the code does not
give them otherwise: under `Spec` TLC finds `BarrierHeld` violated, since two hydrogens of one molecule tear `NumOfMolecule_H` (`mainFunc.c:59`, `:69`), the next
molecule starts from a stale count and its first hydrogen opens the barrier. `NoneStuck` and `Termination` also leave out runs in which an atom the molecules
need is missing (`SurplusOnlyWhenShort`), by the finding of `molecule_surplus` or because its fork failed: the others then wait for ever. `molecule_races` says what does not
depend on any of this.

### What the models keep although it looks wrong

Each of these is what the code does, and the properties are stated around it:
a queue that is full for good (`c203.c:139`); `eval` that fails on an intermediate 0 (`c204.c:281`) and writes its values past the end of the array (`c204.c:200`);
the value of a name declared twice, which `symtable.h:88` says is replaced (`symtable.c:58`); a display name that `/help` clears while the reply is on its way (`Connection.cpp:21`);
a comment ending in `**/` that goes on, and quotes after an empty line that do not close a string (`scanner.c:527`, `:423`);
a declaration `var x = (e)` that enters no `x` unless more follows (`parser.c:459`); a stray `}` that
makes `program()` call itself for ever (`parser.c:90`); `inside_ifwhile` cleared by the end of an inner block, after which
a function is accepted inside the outer one (`BlockKeepsFunctionsOut` says exactly that much); scopes that
outgrow their array (`stack_for_trees.c:67`); slider pointers that dangle after a deletion (`simscene.cpp:271`); a robot
with angular speed 0 that met an obstacle and never moves again (`robot.cpp:102`). Not in the models: `updateScene` is connected to the timer
twice (`simscene.cpp:40`, `:58`), so every tick is two; `get_hash` is negative for non-ASCII
keys where `char` is signed.

## 4. Proofs

`MoleculeProofs` proves for any finite sets of atoms, any `UintSize` above zero, every interleaving of the unlocked
updates, and any number of kills and failed forks (assumptions `AtomsAssumption` and
`BoundsAssumption`):

* `TypeCorrect`: `Spec => []TypeOK`. `TypeOK` is not inductive by itself: a run of equal
  calls counts `left` down, so `left` must be at least 1 wherever such a call is due (`TypeInv` adds that).
* `OutputGuarded`: `Spec => []GuardedOutput`. `PrintWait` takes the guard
  only when its value is above zero, so it is enough that the value is 0 while somebody
  prints, and 0 or 1 otherwise: `Lock("semap_fin")`. For `sem__stop` this needs more,
  because it starts at 0 and is posted by the oxygen of the last molecule: the proof
  goes through the fact that at most one post has been made and is not yet taken (`StopInv`), which
  needs that only one oxygen at a time is between its `semap_O` calls and that
  `IDMolecule` never comes back to `Count_O_Atom`.
* `OneMolecule`: `Spec => []OneMoleculeAtATime`. `MoleculeInv` adds the range of
  `left` in each place; the argument is one conservation law: `semap_H`, the hydrogens inside
  and `sem_ready` together never exceed, nor fall below, what the oxygen inside still waits for.
* `NumberedWhenIdle`: `Spec => NumberWhenIdle`, from the same invariant: at `++IDMolecule` the
  oxygen is owed nothing, so no hydrogen is inside.

`BondingProofs` goes on from there to what the atoms print:

* `LinesNameMolecules`: `Spec => []MoleculeLines`, disturbed updates, kills and failed forks included. `CountInv` adds
  what an atom has announced in each place (`AtomLines`), that an oxygen announces its number
  alone (`OxygenLines`), and two sums (`HydrogenLines`): the admissions still open, the hydrogens
  inside that have printed nothing yet and those that have printed the current number are together as many as the oxygen has
  admitted. Without the sums nothing would exclude a third announcement.
* `NumbersExact`: `Spec => []LineNumbers`. Under `semap_fin` the increment of `num`, even a torn one, is
  finished before the next begins (`Exact` follows it step by step).
* `SurplusIsLast`: `Spec => []SurplusLast`. `SurplusInv` counts who has printed "created": one oxygen and two
  hydrogens for each number handed out, less what the current molecule still owes (`Tally`). `sem__stop` is open only after
  the last number, and by then its oxygen has seen its hydrogens off (`LetGo`).
* `UndisturbedBehaviours`: `UndisturbedSpec <=> Spec /\ []Undisturbed`. The next three theorems are about `UndisturbedSpec`, so about every behaviour of the program in which
  no update of a counter is disturbed by another of the same counter; the assumption is on the behaviour and not on the machine, whose loads and stores stay apart.
* `BarrierIsHeld`: `UndisturbedSpec => []BarrierHeld`, assuming `UintSize > 2`, which an `unsigned` is.
  `BarrierInv` adds that `NumOfMolecule_H` is the number of hydrogens that have stored their `++` and not their `--`, and that the barrier is `Shut`, being opened
  (`Opening`: one hydrogen is posting) or `Opened`, with three posts in all, taken or not. TLC refutes it under `Spec`,
  so the restriction cannot go.
* `BondsAreComplete`: `UndisturbedSpec => BondsComplete`, assuming `MaxCrashes = 0` as well: a killed run leaves its molecule
  incomplete, and the next starts another. Each action is a step of `Bonding` or leaves `IDMolecule`, the members and what they have
  printed alone; that the team is complete when the first of it prints "created", and has all printed it when the next number is taken, is
  `BarrierInv`.
* `NobodyIsStuck`: `UndisturbedSpec => []NoneStuck`, for any numbers of hydrogens and oxygens, surplus atoms and failed forks included. `NoneStuck` speaks of the guards of `sem_wait`, not of `ENABLED`.
  `ProgressInv` adds that no more atoms enter than the molecules need, the counters being no less than the number of those that were let in (`NeededOnly`), that a
  `semap_fin` at 0 is held by an atom that prints (`FinHeld`), and that `sem__stop` is open or in use once the last molecule is done (`StopOpen`). In a state where all wait
  (`AllWait`), everybody is at `enter`, `barrier`, `collect` or `surplus` (`WaitingPlaces`), and `NoneLeftOut` turns `SurplusOnlyWhenShort` into
  enough atoms for the molecules. There are three cases. Nobody is bonding: `semap_O` is 1, so every oxygen that is needed has left, by `Tally` every hydrogen
  has, and the rest find `sem__stop` open (`NoneWaitsIdle`). The barrier is shut: the oxygen has admitted two hydrogens, fewer than two have joined, and there are enough of them
  left by `Tally` (`NoneWaitsShut`). It is open: its three posts are for the three that wait there, or all have passed and both `sem_ready` have been
  posted (`NoneWaitsOpened`).
* `NobodySpareIsStuck`: `Spec => []NoneStuck` where `Count_O_Atom = 0`, disturbed updates included: `AllSpare` keeps every atom out of the molecules, and `sem__stop`,
  which `MainStart` posts, is open or held by a surplus atom that prints (`StopHeld`). No run has only surplus atoms.

`ChatServerProofs`, for any clients, channels, buffer sizes and interrupts (`ServerAssumption`, `LinesAssumption`):

* `TypeCorrect`, `BatchIsRegistered`: `ServerInv` is `TypeOK` with four parts made inductive: `Types`, `Buffers`, `Queues` (each
  holds a socket once) and `Accounts`. The last says that whoever is on the ready list or left in `events[]`
  is in the vector; it survives because a handler removes from the vector only the client
  whose turn it is, and that one is the head of a batch without repetitions.
* `NoWakeupLost`: `Awake` is the property itself, inductive on top of `ServerInv`: with `RecvLines >= MaxUnread` a `recv()` leaves
  nothing, and whatever arrives afterwards wakes the socket again. It is kept apart from `ServerInv`, because it also needs that the arbitrary clients are
  at most `MaxUnread` lines ahead (`Ahead`), a bound of `Spec` that the clients of the repository do not have; `ServerInv` holds with both.
* `ImplementsRooms`: `Spec => RoomsKept`. First `LinesTo`, `Reads` and `Messages` are computed for the sends each
  handler makes (a reply, one line to each client of an audience, one after the other); then every action is mapped to
  `Enter`, `Move`, `Leave`, `Say`, `Collapse` or a stutter. It needs `Newcomers`, that a client that is not logged in is in the default channel, and that a
  handler whose sends all fit loses none.
* `RosterIsConsistent`: `RosterKnown` is an invariant of `ChatRoom` (`RosterStep`), and the refinement carries it over.

`ChatSystemProofs`, for any number of clients of the repository, any buffer sizes and whatever their users type:

* `SystemInvariant`: `ServerInv` and `Protocol` together are inductive in `ChatSystem`. Each turn of a client is put into one form, `ClientTurn`: which lines it
  sends, which state it leads to, and that it depends on the server through `Opened` alone.
* `OpenIsAgreed`: `SystemSpec => []OpenAgreed`. The property names the client's state and what it has sent; inductive it is only with the
  reply in between: an `OK` on its way, or left in the buffer, where a `recv()` of 0 handles it once more, also comes from a server that has opened the client (`OnlyOpened`).
* `RefusalsHaveCause`: `SystemSpec => []RefusedForCause`. `NothingToRefuse` says what an unfinished client that has always had a name has sent: AUTH, or lines of Open, which by `OnlyOpened` meet a server in Open.
  `AsksCounted` follows the AUTHs: a client that has asked once has one of them in its socket at most (`Once`), and none any more when it has been opened, so the one that meets Open, and
  gets ERROR, is at least the second.
* `SystemImplementsRooms`: `SystemSpec => RoomsKept`, from the lemmas of `ImplementsRooms`; a turn of a client leaves the rooms alone.

The other proof modules, each for every value of its constants under the module's assumption:

* `StructureProofs!QueueGivesInTurn`, for any number of removals, also from a drained queue. `GivesInTurn` is not inductive: it names one place of the array. `QueueInv` adds
  that `freeIndex` is the number of values ever accepted, which stays below `QUEUE_SIZE`, that `firstIndex` is the number removed modulo
  `QUEUE_SIZE`, and what every place holds.
* `StructureProofs!KeysAreUnique`. `HashInv` adds that every item of a chain has the hash of its index, without which a
  search in one chain would say nothing of the others. `SearchFinds` is the lemma about `ht_search`; `InsertFront`,
  `ReplaceValue` and `RemoveItem` say what the three changes of a chain preserve.
* `StructureProofs!TableImplementsMap`: `ht_Spec => TableIsMap`. A map stands for the table if it has exactly the pairs stored in its chains
  (`StandsFor`); there is one such map (`OneMap`), and `Contents`, which searches for every key, is it
  (`ContentsStand`, by `HashInv`). `FrontItems`, `ReplacedItems`, `RemovedItems` then say what each change does to the pairs, so the map of
  the new table is what `FiniteMap` computes from the old one.
* `StructureProofs!DoublyActsAsCursorList`, `SingleActsAsCursorList`: both lists implement `CursorList`. The invariant says that some sequence `s`
  holds the allocated elements once each in the order of `nextElement`, and the active one is at place `c` (`Shown(s, c)`), for the
  doubly linked list also that `previousElement` leads back through `s` (`Backwards(s)`). Links
  alone would not do: they may agree and form a ring beside the chain. `OneChain` shows that `s` is
  the sequence the refinement mapping chooses, so `Items` and `Cursor` are the values of `s` and `c` (`Mapping`). Every operation that changes a
  link is an insertion or a deletion at a place of `s` (`InsertionShown`, `DeletionShown`, `InsertedBack`, `RemovedBack`). The mapping
  of an early return to the abstract insertion needs some value to insert, `ValuesAssumption`.
* `StructureProofs!LinksStayTogether`, `SingleKeepsChain`: `LinksAgree` (in the run `LinksOfDLL`, because there the other list shares the elements) and `ChainIsAllocated` from the same invariants.
* `ParserProofs!ReturnsChecked`, `FunctionsKeptOut`. `ParserInv` adds that the flag `inside_ifwhile` is
  off inside a block only after an inner one has ended (`FlagCleared`), and, while
  `inside_function` is set, that `current_function` is the innermost open function; the end of a nested function
  clears the flag instead of restoring the name, which is why the second holds.
* `ParserProofs!ReductionsFindAnchor`. `ExpInv` says what may lie on the stack (`Stacked`): every `S` is directly below a terminal or below an operand and its
  operator, every operand on a terminal it may follow or on an `S`. Hence nothing between the topmost `S` and the top is another `S`, and what
  the precedence table lets a reduction pop reaches down to that one.
* `ParserProofs!CallsFit`. `ArgsInv` adds, for each state of `args()`, what has been read of the current argument (`WellRead`) and that those before it are complete and
  have their parameters (`Placed`). That an argument is not refused wrongly needs the other direction: a token that does not continue what was read
  makes it begin no argument that is meant. `write`, which takes any arguments (`Unchecked`), is excluded, as in the property.
* `ScannerProofs!TokensAreLongest`. `ScanInv` says for each state of the automaton what the text read so far is (`ReadsWord`, `ReadsString`): the integer part of a
  number, an open string whose last character is or is not escaped, the quotes of several lines. Escaping is a parity of backslashes, so its lemmas (`NextParity`, `EscapedKept`)
  say how one more character changes it. For each state that builds a token, a lemma shows that the character pushed back makes no longer one of any type (`Alone`).
* `SimulatorProofs!TurnIsMeant`, `VectorsMatchScene`. The first needs only the ranges of the angles; the second that
  the selection is alive and every item has one of the three types.

Each proof follows init, step (one case per action), conclusion. Only model-checked:

* liveness: `Termination`, `AuthAnswered`, `ClientEnds`;
* what recursive definitions over trees and expressions compute, which needs an induction no installed prover takes: `TraversalOnCourse`, `IterativeAsRecursive` and
  `TreeIsMap` of `SearchTree`, `ScopesAsDeclared` of `SymbolTable`, `ConvertsToPostfix` of `InfixToPostfix`, `ParsesExpressions` of `PrecedenceParser`.

## 5. Not modelled

* `IFJ`: `codegen.c` prints instructions and counts labels; the types of expressions in `parser.c` beyond what `expression.c` checks, the
  result types `parse_for_func` reads, the values of numbers and of `\u{...}`.
* `ICP`: positions, distances and collisions are real-valued geometry, drawing is Qt's; `saveScene` writes what the vectors hold.
* `IPK/secondproject`: what display names and messages say, so neither that JOIN announces a name
  a later MSG changed (`main.cpp:211`), nor that `IS` inside a name is taken for the separator (`serverReplies.cpp:58`).
* `IZP`: filters over one line. `setcal`'s predicates are single loops over a relation and several decide
  something other than their names (`reflexive` compares the first element only), so there is no definition to check them against.
* `IMP`, `IOS/firstproject`, `IDS`, `ITW`: font tables and GPIO writes, a shell wrapper, SQL, HTML.
* Run-time support: allocation failures outside the lists, argument checks, and the tests beside the sources.

## 6. What could follow

1. What display names say in `ChatServer`, where `JOIN` announces a name that a later `MSG` has changed.
2. Types of expressions in `Parser`, and the labels `codegen.c` counts.
3. The composition of the compiler's parts: `Parser` with `Scanner`, `PrecedenceParser` and `SymbolTable` in place of the choices it makes for them.
