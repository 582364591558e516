--------------------------- MODULE LinkedElements ---------------------------
(***************************************************************************)
(* The memory of the lists of IAL/firstproject: the elements that are      *)
(* allocated, their data and nextElement, and the list's two pointers that *)
(* c201 and c206 share.  What freed memory holds is left out: no operation *)
(* reads it, says ChainIsAllocated.                                        *)
(***************************************************************************)
EXTENDS Naturals, SequencesExt, FiniteSets

CONSTANTS
  Elements,  \* what malloc() may return
  NULL,
  Values

ASSUME ElementsAssumption == NULL \notin Elements
ASSUME ValuesAssumption == Values # {}

VARIABLES
  allocated, data, nextElement,
  firstElement, activeElement,
  call, result  \* the last function called, <<name>>, and what it returned:
                \* <<>> (nothing), <<value>> or <<"error">>

elementVars == <<allocated, data, nextElement, firstElement, activeElement, call, result>>

Pointer == Elements \cup {NULL}

ElementsInit ==
  /\ allocated = {}
  /\ data = [e \in Elements |-> NULL]
  /\ nextElement = [e \in Elements |-> NULL]
  /\ firstElement = NULL /\ activeElement = NULL
  /\ call = <<"Init">> /\ result = <<>>

Returned(op, answer) == call' = op /\ result' = answer

Allocate(e, d) ==
  /\ e \notin allocated
  /\ allocated' = allocated \cup {e}
  /\ data' = [data EXCEPT ![e] = d]

\* The links of an element end with it.
Ended(link, e) == [x \in Elements |-> IF x = e THEN NULL ELSE link[x]]

Free(e) ==
  /\ allocated' = allocated \ {e}
  /\ data' = [data EXCEPT ![e] = NULL]

\* The operations of both lists that change no link.
KeepsElements == UNCHANGED <<allocated, data, nextElement, firstElement>>

Reading(op, e) ==
  /\ Returned(<<op>>, IF e = NULL THEN <<"error">> ELSE <<data[e]>>)
  /\ UNCHANGED <<allocated, data, nextElement, firstElement, activeElement>>

IsActive ==
  /\ Returned(<<"IsActive">>, <<activeElement # NULL>>)
  /\ UNCHANGED <<allocated, data, nextElement, firstElement, activeElement>>

SetValue(d) ==
  /\ data' = IF activeElement = NULL THEN data ELSE [data EXCEPT ![activeElement] = d]
  /\ Returned(<<"SetValue">>, <<>>)
  /\ UNCHANGED <<allocated, nextElement, firstElement, activeElement>>

Activate(op, e) ==
  /\ activeElement' = e
  /\ Returned(<<op>>, <<>>)
  /\ KeepsElements

Follow(link) == IF activeElement = NULL THEN NULL ELSE link[activeElement]

DisposeElements ==
  /\ allocated' = {}
  /\ data' = [e \in Elements |-> NULL]
  /\ nextElement' = [e \in Elements |-> NULL]
  /\ firstElement' = NULL /\ activeElement' = NULL
  /\ Returned(<<"Dispose">>, <<>>)

\* An insertion for which malloc() returns NULL.
MallocFails(op) ==
  /\ Returned(<<op>>, <<"error">>)
  /\ KeepsElements /\ UNCHANGED activeElement

\* An operation that returns at once.
NothingToDo(op) ==
  /\ Returned(<<op>>, <<>>)
  /\ KeepsElements /\ UNCHANGED activeElement

\* The elements in the order in which nextElement leads through them.
IsChain(s) ==
  /\ firstElement = IF s = <<>> THEN NULL ELSE s[1]
  /\ \A i \in DOMAIN s : nextElement[s[i]] = IF i = Len(s) THEN NULL ELSE s[i + 1]

\* Every allocated element is in the list once, and the active one is in it: no
\* operation loses an element or leaves a pointer to freed memory.
ChainIsAllocated ==
  /\ \E s \in SetToSeqs(allocated) : IsChain(s)
  /\ activeElement \in allocated \cup {NULL}

Chain == CHOOSE s \in SetToSeqs(allocated) : IsChain(s)
Items == LET chain == Chain IN [i \in DOMAIN chain |-> data[chain[i]]]
Cursor ==
  IF activeElement = NULL THEN 0
  ELSE CHOOSE i \in DOMAIN Chain : Chain[i] = activeElement

\* The list behaves as a sequence with a cursor, whatever is called in whatever
\* order and whichever malloc() fails.
Promise == INSTANCE CursorList WITH items <- Items, cursor <- Cursor
ActsAsCursorList == Promise!Spec
=============================================================================
