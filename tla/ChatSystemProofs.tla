-------------------------- MODULE ChatSystemProofs --------------------------
(* The chat server with the clients of IPK/firstproject, for any number of   *)
(* clients and channels, whatever their users type and however long what     *)
(* they send lies in the sockets.                                            *)
EXTENDS ChatSystem, ChatServerProofs

-----------------------------------------------------------------------------
(* The inductive invariant.                                                  *)

OK == <<"REPLY", "OK">>
NOK == <<"REPLY", "NOK">>
ERROR == <<"ERROR">>
AUTH == <<"AUTH">>

\* The states that a client passes up to Open.
WayIn == {"away", "Start", "Auth", "Open"}
ClientStates == WayIn \cup {"Error", "End", "exited"}
BufferLines == ServerLines \cup ClientLines \cup {<<"EMPTY">>}

Opened(c) == state[c] \in {"Open", "End"} \/ ~Running

ClientTypes ==
  /\ fsm \in [Clients -> ClientStates] /\ buffer \in [Clients -> BufferLines]
  /\ counterForBye \in [Clients -> Nat] /\ nameless \subseteq Clients

\* Who has not connected has not started.
NotStarted == \A c \in Clients : peer[c] = "away" => fsm[c] = "away"

\* OpenAgreed looks at the client and at what it has sent.  An OK that is still on
\* its way, or that lies in the buffer and may be handled again, also comes from a
\* server that has opened the client.
OnlyOpened ==
  \A c \in Clients :
    \/ fsm[c] = "Open"
    \/ \E line \in ToSet(toServer[c]) : line \in OpenLines
    \/ OK \in ToSet(toClient[c])
    \/ buffer[c] = OK
    => Opened(c)

\* A client is opened by an AUTH of its own; who has asked once has no other behind it.
Once(s) == \A i, j \in DOMAIN s : s[i] = AUTH /\ s[j] = AUTH => i = j

AsksCounted ==
  \A c \in Clients :
    /\ counterForBye[c] = 0 => state[c] # "Open" /\ AUTH \notin ToSet(toServer[c])
    /\ counterForBye[c] = 1 => /\ Once(toServer[c])
                               /\ state[c] = "Open" => AUTH \notin ToSet(toServer[c])

\* RefusedForCause looks at what a client is sent.  What the client has sent itself,
\* as long as it has a name, is nothing that the server refuses, but for a second AUTH.
NothingToRefuse ==
  \A c \in Clients : fsm[c] \in WayIn /\ c \notin nameless =>
    /\ ToSet(toServer[c]) \subseteq {AUTH} \cup OpenLines
    /\ NOK \notin ToSet(toClient[c])
    /\ counterForBye[c] <= 1 => ERROR \notin ToSet(toClient[c])

Protocol == ClientTypes /\ NotStarted /\ OnlyOpened /\ AsksCounted /\ NothingToRefuse

\* Initially no client has started.
LEMMA ProtocolInitial == SystemInit => Protocol
<1> SUFFICES ASSUME SystemInit PROVE Protocol
  OBVIOUS
<1>1. \A c \in Clients : /\ toServer[c] = <<>> /\ toClient[c] = <<>>
                         /\ fsm[c] = "away" /\ buffer[c] = <<"EMPTY">> /\ state[c] = "none"
  BY DEF SystemInit, ServerInit
<1>2. \A c \in Clients : ToSet(toServer[c]) = {} /\ ToSet(toClient[c]) = {}
  BY <1>1, EmptySet
<1>3. ClientTypes
  BY DEF SystemInit, ClientTypes, ClientStates, WayIn, BufferLines
<1>4. <<"EMPTY">> # OK
  BY DEF OK
<1>5. AsksCounted
  <2>1. \A c \in Clients : counterForBye[c] = 0
    BY DEF SystemInit
  <2> QED BY <1>1, <1>2, <2>1 DEF AsksCounted
<1> QED BY <1>1, <1>2, <1>3, <1>4, <1>5 DEF Protocol, NotStarted, OnlyOpened, NothingToRefuse

-----------------------------------------------------------------------------
(* The clients.  A turn of client c sends some lines and leads to a state:   *)
(* what it may send and where it may lead depends on the server only through *)
(* Opened.                                                                   *)

ClientTurn(c, lines, next) ==
  /\ Emit(c, lines, next)
  /\ lines \in Seq(ClientLines)
  /\ next \in ClientStates /\ fsm[c] # "away"
  /\ \E line \in BufferLines : /\ buffer' = [buffer EXCEPT ![c] = line]
                               /\ line = OK => Opened(c)
  /\ \/ toClient' = toClient
     \/ \E n \in DOMAIN toClient[c] :
          toClient' = [toClient EXCEPT ![c] = SubSeq(@, n + 1, Len(@))]
  /\ next = "Open" \/ (\E line \in ToSet(lines) : line \in OpenLines) => Opened(c)
  /\ \/ counterForBye' = counterForBye /\ AUTH \notin ToSet(lines)
     \/ /\ counterForBye' = [counterForBye EXCEPT ![c] = @ + 1]
        /\ lines = <<AUTH>>
  /\ nameless' \in {nameless, nameless \cup {c}}
  /\ next \in WayIn =>
       /\ fsm[c] \in WayIn
       /\ c \notin nameless' => ToSet(lines) \subseteq {AUTH} \cup OpenLines

\* The set of the elements of two sequences, one after the other.
LEMMA ConcatSet ==
  ASSUME NEW V, NEW s \in Seq(V), NEW t \in Seq(V)
  PROVE  s \o t \in Seq(V) /\ ToSet(s \o t) = ToSet(s) \cup ToSet(t)
<1>1. s \o t \in Seq(V) /\ Len(s \o t) = Len(s) + Len(t) /\ Len(s) \in Nat /\ Len(t) \in Nat
  OBVIOUS
<1>2. /\ \A i \in 1 .. Len(s) : (s \o t)[i] = s[i]
      /\ \A i \in 1 .. Len(t) : (s \o t)[Len(s) + i] = t[i]
  OBVIOUS
<1>3. ASSUME NEW x \in ToSet(s \o t) PROVE x \in ToSet(s) \cup ToSet(t)
  <2>1. PICK i \in 1 .. Len(s) + Len(t) : x = (s \o t)[i]
    BY <1>1 DEF ToSet
  <2>2. CASE i <= Len(s)
    BY <1>1, <1>2, <2>1, <2>2 DEF ToSet
  <2>3. CASE i > Len(s)
    <3>1. i - Len(s) \in 1 .. Len(t) /\ i = Len(s) + (i - Len(s))
      BY <1>1, <2>3
    <3>2. x = t[i - Len(s)]
      BY <1>2, <2>1, <3>1
    <3> QED BY <3>1, <3>2 DEF ToSet
  <2> QED BY <1>1, <2>2, <2>3
<1>4. ASSUME NEW x \in ToSet(s) \cup ToSet(t) PROVE x \in ToSet(s \o t)
  <2>1. CASE x \in ToSet(s)
    <3>1. PICK i \in 1 .. Len(s) : x = s[i]
      BY <2>1 DEF ToSet
    <3>2. i \in 1 .. Len(s) + Len(t) /\ x = (s \o t)[i]
      BY <1>1, <1>2, <3>1
    <3> QED BY <1>1, <3>2 DEF ToSet
  <2>2. CASE x \in ToSet(t)
    <3>1. PICK i \in 1 .. Len(t) : x = t[i]
      BY <2>2 DEF ToSet
    <3>2. Len(s) + i \in 1 .. Len(s) + Len(t) /\ x = (s \o t)[Len(s) + i]
      BY <1>1, <1>2, <3>1
    <3> QED BY <1>1, <3>2 DEF ToSet
  <2> QED BY <2>1, <2>2
<1> QED BY <1>1, <1>3, <1>4

\* What follows a sequence in which AUTH occurs once at most, or not at all.
LEMMA ConcatOnce ==
  ASSUME NEW V, NEW s \in Seq(V), NEW t \in Seq(V)
  PROVE  /\ Once(s) /\ AUTH \notin ToSet(t) => Once(s \o t)
         /\ AUTH \notin ToSet(s) /\ Len(t) <= 1 => Once(s \o t)
<1>1. /\ DOMAIN (s \o t) = 1 .. Len(s) + Len(t) /\ Len(s) \in Nat /\ Len(t) \in Nat
      /\ \A i \in 1 .. Len(s) + Len(t) :
           (s \o t)[i] = IF i <= Len(s) THEN s[i] ELSE t[i - Len(s)]
  OBVIOUS
<1>2. ASSUME NEW i \in 1 .. Len(s) + Len(t), (s \o t)[i] = AUTH
      PROVE  \/ i \in DOMAIN s /\ s[i] = AUTH /\ AUTH \in ToSet(s)
             \/ i > Len(s) /\ i - Len(s) \in DOMAIN t /\ AUTH \in ToSet(t)
  <2>1. CASE i <= Len(s)
    <3>1. i \in DOMAIN s /\ s[i] = AUTH
      BY <1>1, <1>2, <2>1
    <3> QED BY <3>1 DEF ToSet
  <2>2. CASE i > Len(s)
    <3>1. i - Len(s) \in DOMAIN t /\ t[i - Len(s)] = AUTH
      BY <1>1, <1>2, <2>2
    <3> QED BY <2>2, <3>1 DEF ToSet
  <2> QED BY <1>1, <2>1, <2>2
<1>3. ASSUME Once(s), AUTH \notin ToSet(t) PROVE Once(s \o t)
  BY <1>1, <1>2, <1>3 DEF Once
<1>4. ASSUME AUTH \notin ToSet(s), Len(t) <= 1 PROVE Once(s \o t)
  BY <1>1, <1>2, <1>4 DEF Once
<1> QED BY <1>3, <1>4

\* And what is left of one.
LEMMA RestOnce ==
  ASSUME NEW V, NEW s \in Seq(V), Once(s), NEW n \in DOMAIN s
  PROVE  /\ Once(SubSeq(s, n + 1, Len(s)))
         /\ s[1] = AUTH => AUTH \notin ToSet(SubSeq(s, n + 1, Len(s)))
<1> DEFINE r == SubSeq(s, n + 1, Len(s))
<1>1. /\ DOMAIN r = 1 .. Len(s) - n /\ n \in 1 .. Len(s) /\ Len(s) \in Nat
      /\ \A i \in 1 .. Len(s) - n : r[i] = s[i + n] /\ i + n \in DOMAIN s
  OBVIOUS
<1> HIDE DEF r
<1>2. Once(r)
  BY <1>1 DEF Once
<1>3. s[1] = AUTH => AUTH \notin ToSet(r)
  BY <1>1 DEF Once, ToSet
<1> QED BY <1>2, <1>3 DEF r

\* What recv() leaves has arrived before.
LEMMA RestSet ==
  ASSUME NEW V, NEW s \in Seq(V), NEW n \in DOMAIN s
  PROVE  /\ SubSeq(s, n + 1, Len(s)) \in Seq(V)
         /\ Len(SubSeq(s, n + 1, Len(s))) <= Len(s)
         /\ ToSet(SubSeq(s, n + 1, Len(s))) \subseteq ToSet(s)
BY DEF ToSet

\* What a turn does to the variables of the server and the network.
LEMMA TurnEffect ==
  ASSUME ServerInv, ClientTypes, NEW c \in Clients, NEW lines, NEW next, ClientTurn(c, lines, next)
  PROVE  /\ UNCHANGED <<server, events, force_quit, interrupts, clients, state, channel,
                        backlog, view, mail>>
         /\ peer' \in [Clients -> {"away", "connected", "closed", "reset"}]
         /\ \A d \in Clients : peer'[d] = "away" => peer[d] = "away"
         /\ fsm' \in [Clients -> ClientStates]
         /\ \A d \in Clients \ {c} : fsm'[d] = fsm[d] /\ toServer'[d] = toServer[d]
         /\ fsm'[c] \in {next, "exited"}
         /\ toServer' \in [Clients -> Seq(ClientLines)]
         /\ toServer'[c] = toServer[c] \o lines
         /\ ToSet(toServer'[c]) = ToSet(toServer[c]) \cup ToSet(lines)
         /\ toClient' \in [Clients -> Seq(ServerLines)]
         /\ \A d \in Clients : /\ Len(toClient'[d]) <= SendBuffer
                               /\ ToSet(toClient'[d]) \subseteq ToSet(toClient[d])
<1>1. /\ Emit(c, lines, next) /\ lines \in Seq(ClientLines) /\ next \in ClientStates
      /\ fsm \in [Clients -> ClientStates] /\ "exited" \in ClientStates
  BY DEF ClientTurn, ClientTypes, ClientStates
<1>2. PICK end \in {next, "exited"} :
        /\ fsm' = [fsm EXCEPT ![c] = end]
        /\ peer' = [peer EXCEPT ![c] = CASE end # "exited" -> @
                                         [] end = "exited" /\ toClient'[c] = <<>> -> "closed"
                                         [] OTHER -> "reset"]
  BY <1>1 DEF Emit
<1>3. /\ peer \in [Clients -> {"away", "connected", "closed", "reset"}]
      /\ toServer \in [Clients -> Seq(ClientLines)]
      /\ toClient \in [Clients -> Seq(ServerLines)]
      /\ \A d \in Clients : Len(toClient[d]) <= SendBuffer
  BY DEF ServerInv, Types, Buffers
<1>4. \/ peer' = peer \/ peer' = [peer EXCEPT ![c] = "closed"]
      \/ peer' = [peer EXCEPT ![c] = "reset"]
  BY <1>2, <1>3
<1>5. /\ peer' \in [Clients -> {"away", "connected", "closed", "reset"}]
      /\ \A d \in Clients : peer'[d] = "away" => peer[d] = "away"
  BY <1>3, <1>4
<1>6. /\ fsm' \in [Clients -> ClientStates]
      /\ \A d \in Clients \ {c} : fsm'[d] = fsm[d]
      /\ fsm'[c] \in {next, "exited"}
  BY <1>1, <1>2
<1>7. UNCHANGED <<server, events, force_quit, interrupts, clients, state, channel,
                  backlog, view, mail>>
  BY <1>1 DEF Emit, process, memory, history
<1>8. /\ toServer' = [toServer EXCEPT ![c] = toServer[c] \o lines]
      /\ toServer[c] \o lines \in Seq(ClientLines)
      /\ ToSet(toServer[c] \o lines) = ToSet(toServer[c]) \cup ToSet(lines)
  <2>1. toServer[c] \in Seq(ClientLines)
    BY <1>3
  <2> QED BY <1>1, <1>3, <2>1, ConcatSet DEF Emit
<1>9. /\ toServer' \in [Clients -> Seq(ClientLines)]
      /\ \A d \in Clients \ {c} : toServer'[d] = toServer[d]
      /\ toServer'[c] = toServer[c] \o lines
      /\ ToSet(toServer'[c]) = ToSet(toServer[c]) \cup ToSet(lines)
  <2> DEFINE t == toServer[c] \o lines
  <2>1. toServer' = [toServer EXCEPT ![c] = t] /\ t \in Seq(ClientLines)
    BY <1>8
  <2>2. toServer'[c] = t
    <3> HIDE DEF t
    <3> QED BY <1>3, <2>1
  <2>3. /\ toServer' \in [Clients -> Seq(ClientLines)]
        /\ \A d \in Clients \ {c} : toServer'[d] = toServer[d]
    <3> HIDE DEF t
    <3> QED BY <1>3, <2>1
  <2> QED BY <1>8, <2>2, <2>3
<1>10. /\ toClient' \in [Clients -> Seq(ServerLines)]
       /\ \A d \in Clients : /\ Len(toClient'[d]) <= SendBuffer
                             /\ ToSet(toClient'[d]) \subseteq ToSet(toClient[d])
  <2>1. CASE toClient' = toClient
    BY <1>3, <2>1
  <2>2. CASE \E n \in DOMAIN toClient[c] :
               toClient' = [toClient EXCEPT ![c] = SubSeq(@, n + 1, Len(@))]
    <3>1. PICK n \in DOMAIN toClient[c] :
            toClient' = [toClient EXCEPT ![c] = SubSeq(toClient[c], n + 1, Len(toClient[c]))]
      BY <2>2
    <3> DEFINE rest == SubSeq(toClient[c], n + 1, Len(toClient[c]))
    <3>2. /\ rest \in Seq(ServerLines) /\ Len(rest) <= Len(toClient[c])
          /\ ToSet(rest) \subseteq ToSet(toClient[c])
      <4>1. toClient[c] \in Seq(ServerLines)
        BY <1>3
      <4> QED BY <4>1, RestSet
    <3>3. Len(rest) \in Nat /\ Len(toClient[c]) \in Nat /\ SendBuffer \in Nat
      BY <1>3, <3>2, ServerAssumption
    <3>4. toClient' = [toClient EXCEPT ![c] = rest]
      BY <3>1
    <3> HIDE DEF rest
    <3>5. \A d \in Clients : toClient'[d] = IF d = c THEN rest ELSE toClient[d]
      BY <1>3, <3>4
    <3>6. toClient' \in [Clients -> Seq(ServerLines)]
      BY <1>3, <3>2, <3>4
    <3>7. Len(rest) <= SendBuffer
      BY <1>3, <3>2, <3>3
    <3> QED BY <1>3, <3>2, <3>5, <3>6, <3>7
  <2> QED BY <2>1, <2>2 DEF ClientTurn
<1> QED BY <1>5, <1>6, <1>7, <1>9, <1>10

\* A turn of a client keeps the invariant of the server.
LEMMA TurnKeepsServer ==
  ASSUME ServerInv, ClientTypes, NEW c \in Clients, NEW lines, NEW next, ClientTurn(c, lines, next)
  PROVE  ServerInv'
<1>1. /\ UNCHANGED <<server, events, force_quit, interrupts, clients, state, channel,
                     backlog, view, mail>>
      /\ peer' \in [Clients -> {"away", "connected", "closed", "reset"}]
      /\ \A d \in Clients : peer'[d] = "away" => peer[d] = "away"
      /\ toServer' \in [Clients -> Seq(ClientLines)]
      /\ toClient' \in [Clients -> Seq(ServerLines)]
      /\ \A d \in Clients : Len(toClient'[d]) <= SendBuffer
  BY TurnEffect
<1>2. ready' = ready \/ (Registered(c) /\ ready' = Wakes(c))
  BY DEF ClientTurn, Emit
<1>3. /\ ready \in Seq(Sockets) /\ Distinct(ready)
      /\ Wakes(c) \in Seq(Sockets) /\ Distinct(Wakes(c))
      /\ ToSet(Wakes(c)) = ToSet(ready) \cup {c}
  BY WakesSet DEF ServerInv, Queues, Sockets
<1>4. Registered(c) <=> c \in ToSet(clients)
  BY MembersAreClients
<1>5. /\ ready' \in Seq(Sockets) /\ Distinct(ready')
      /\ \A f \in ToSet(ready') : f \in ToSet(ready) \cup ToSet(clients)
  BY <1>2, <1>3, <1>4
<1>6. Types'
  BY <1>1 DEF ServerInv, Types
<1>7. Buffers'
  BY <1>1 DEF Buffers
<1>8. Queues'
  BY <1>1, <1>5 DEF ServerInv, Queues
<1>9. Accounts'
  BY <1>1, <1>5 DEF ServerInv, Accounts
<1> QED BY <1>6, <1>7, <1>8, <1>9 DEF ServerInv

\* And the protocol.
LEMMA TurnKeepsProtocol ==
  ASSUME ServerInv, Protocol, NEW c \in Clients, NEW lines, NEW next, ClientTurn(c, lines, next)
  PROVE  Protocol'
<1>1. /\ UNCHANGED <<server, state>>
      /\ \A d \in Clients : peer'[d] = "away" => peer[d] = "away"
      /\ fsm' \in [Clients -> ClientStates]
      /\ \A d \in Clients \ {c} : fsm'[d] = fsm[d] /\ toServer'[d] = toServer[d]
      /\ fsm'[c] \in {next, "exited"}
      /\ toServer'[c] = toServer[c] \o lines
      /\ ToSet(toServer'[c]) = ToSet(toServer[c]) \cup ToSet(lines)
      /\ \A d \in Clients : ToSet(toClient'[d]) \subseteq ToSet(toClient[d])
  BY TurnEffect DEF Protocol
<1>2. PICK left \in BufferLines : buffer' = [buffer EXCEPT ![c] = left] /\ (left = OK => Opened(c))
  BY DEF ClientTurn
<1>3. /\ fsm[c] # "away"
      /\ next = "Open" \/ (\E line \in ToSet(lines) : line \in OpenLines) => Opened(c)
      /\ next \in WayIn =>
           /\ fsm[c] \in WayIn
           /\ c \notin nameless' => ToSet(lines) \subseteq {AUTH} \cup OpenLines
      /\ nameless' \in {nameless, nameless \cup {c}}
      /\ lines \in Seq(ClientLines)
      /\ \/ counterForBye' = counterForBye /\ AUTH \notin ToSet(lines)
         \/ /\ counterForBye' = [counterForBye EXCEPT ![c] = @ + 1]
            /\ lines = <<AUTH>>
  BY DEF ClientTurn
<1>4. /\ buffer \in [Clients -> BufferLines] /\ counterForBye \in [Clients -> Nat]
      /\ nameless \subseteq Clients
  BY DEF Protocol, ClientTypes
<1>5. /\ buffer' \in [Clients -> BufferLines]
      /\ \A d \in Clients \ {c} : buffer'[d] = buffer[d]
      /\ buffer'[c] = left
  BY <1>2, <1>4
<1>6. ClientTypes'
  <2>1. counterForBye' \in [Clients -> Nat]
    BY <1>3, <1>4
  <2> QED BY <1>1, <1>3, <1>4, <1>5, <2>1 DEF ClientTypes
<1>7. NotStarted'
  BY <1>1, <1>3 DEF Protocol, NotStarted
<1>8. \A d \in Clients : Opened(d)' <=> Opened(d)
  BY <1>1 DEF Opened, Running
<1>9. OnlyOpened'
  <2> SUFFICES ASSUME NEW d \in Clients,
                      \/ fsm'[d] = "Open"
                      \/ \E line \in ToSet(toServer'[d]) : line \in OpenLines
                      \/ OK \in ToSet(toClient'[d])
                      \/ buffer'[d] = OK
               PROVE  Opened(d)
    BY <1>8 DEF OnlyOpened
  <2>1. CASE d # c
    BY <1>1, <1>5, <2>1 DEF Protocol, OnlyOpened
  <2>2. CASE d = c
    BY <1>1, <1>2, <1>3, <1>5, <2>2 DEF Protocol, OnlyOpened
  <2> QED BY <2>1, <2>2
<1>10. \A d \in Clients : \/ counterForBye'[d] = counterForBye[d]
                          \/ d = c /\ counterForBye'[d] = counterForBye[d] + 1
  BY <1>3, <1>4
<1>11. AsksCounted'
  <2> SUFFICES ASSUME NEW d \in Clients
               PROVE  /\ counterForBye'[d] = 0 =>
                           state[d] # "Open" /\ AUTH \notin ToSet(toServer'[d])
                      /\ counterForBye'[d] = 1 =>
                           /\ Once(toServer'[d])
                           /\ state[d] = "Open" => AUTH \notin ToSet(toServer'[d])
    BY <1>1 DEF AsksCounted
  <2>1. /\ counterForBye[d] = 0 => state[d] # "Open" /\ AUTH \notin ToSet(toServer[d])
        /\ counterForBye[d] = 1 => /\ Once(toServer[d])
                                   /\ state[d] = "Open" => AUTH \notin ToSet(toServer[d])
    BY DEF Protocol, AsksCounted
  <2>2. CASE d # c
    BY <1>1, <1>10, <2>1, <2>2
  <2>3. CASE d = c
    <3>1. toServer[c] \in Seq(ClientLines)
      BY DEF ServerInv, Buffers
    <3>2. CASE counterForBye' = counterForBye /\ AUTH \notin ToSet(lines)
      <4>1. Once(toServer[c]) => Once(toServer'[c])
        BY <1>1, <1>3, <3>1, <3>2, ConcatOnce
      <4> QED BY <1>1, <2>1, <2>3, <3>2, <4>1
    <3>3. CASE /\ counterForBye' = [counterForBye EXCEPT ![c] = @ + 1]
               /\ lines = <<AUTH>>
      <4>1. counterForBye'[c] = counterForBye[c] + 1 /\ counterForBye[c] \in Nat
        BY <1>4, <3>3
      <4>2. Len(lines) <= 1
        BY <3>3
      <4>3. AUTH \notin ToSet(toServer[c]) => Once(toServer'[c])
        BY <1>1, <1>3, <3>1, <4>2, ConcatOnce
      <4> QED BY <2>1, <2>3, <4>1, <4>3
    <3> QED BY <1>3, <3>2, <3>3
  <2> QED BY <2>2, <2>3
<1>12. NothingToRefuse'
  <2> SUFFICES ASSUME NEW d \in Clients, fsm'[d] \in WayIn, d \notin nameless'
               PROVE  /\ ToSet(toServer'[d]) \subseteq {AUTH} \cup OpenLines
                      /\ NOK \notin ToSet(toClient'[d])
                      /\ counterForBye'[d] <= 1 => ERROR \notin ToSet(toClient'[d])
    BY DEF NothingToRefuse
  <2>1. d \notin nameless /\ ToSet(toClient'[d]) \subseteq ToSet(toClient[d])
    BY <1>1, <1>3
  <2>2. fsm[d] \in WayIn
    BY <1>1, <1>3 DEF WayIn
  <2>3. /\ ToSet(toServer[d]) \subseteq {AUTH} \cup OpenLines
        /\ NOK \notin ToSet(toClient[d])
        /\ counterForBye[d] <= 1 => ERROR \notin ToSet(toClient[d])
    BY <2>1, <2>2 DEF Protocol, NothingToRefuse
  <2>4. counterForBye'[d] <= 1 => counterForBye[d] <= 1
    <3>1. counterForBye[d] \in Nat
      BY <1>4
    <3>2. counterForBye'[d] \in {counterForBye[d], counterForBye[d] + 1}
      BY <1>10
    <3> QED BY <3>1, <3>2
  <2>5. ToSet(toServer'[d]) \subseteq {AUTH} \cup OpenLines
    <3>1. CASE d # c
      BY <1>1, <2>3, <3>1
    <3>2. CASE d = c
      <4>1. next \in WayIn
        BY <1>1, <3>2 DEF WayIn
      <4> QED BY <1>1, <1>3, <2>3, <3>2, <4>1
    <3> QED BY <3>1, <3>2
  <2> QED BY <2>1, <2>3, <2>4, <2>5
<1> QED BY <1>6, <1>7, <1>9, <1>11, <1>12 DEF Protocol

\* The lines of clients, one or two of them.
LEMMA ClientLinesTyped ==
  /\ <<>> \in Seq(ClientLines) /\ ToSet(<<>>) = {}
  /\ \A line \in ClientLines : <<line>> \in Seq(ClientLines) /\ ToSet(<<line>>) = {line}
  /\ \A one \in ClientLines, two \in ClientLines :
       <<one, two>> \in Seq(ClientLines) /\ ToSet(<<one, two>>) = {one, two}
  /\ {<<"AUTH">>, <<"BYE">>, <<"OTHER">>} \cup OpenLines \subseteq ClientLines
  /\ NamelessLines \subseteq ClientLines
  /\ \A line \in ClientLines : line \in OpenLines <=> line[1] \in {"MSG", "JOIN"}
  /\ AUTH \notin NamelessLines /\ OpenLines \subseteq NamelessLines
  /\ OK \notin ClientLines
<1>1. <<>> \in Seq(ClientLines) /\ ToSet(<<>>) = {}
  BY EmptySet
<1>2. ASSUME NEW line \in ClientLines
      PROVE  <<line>> \in Seq(ClientLines) /\ ToSet(<<line>>) = {line}
  BY DEF ToSet
<1>3. ASSUME NEW one \in ClientLines, NEW two \in ClientLines
      PROVE  <<one, two>> \in Seq(ClientLines) /\ ToSet(<<one, two>>) = {one, two}
  <2> DEFINE s == <<one, two>>
  <2>1. s \in Seq(ClientLines) /\ DOMAIN s = {1, 2} /\ s[1] = one /\ s[2] = two
    OBVIOUS
  <2> HIDE DEF s
  <2>2. ToSet(s) = {one, two}
    BY <2>1 DEF ToSet
  <2> QED BY <2>1, <2>2 DEF s
<1>4. /\ {<<"AUTH">>, <<"BYE">>, <<"OTHER">>} \cup OpenLines \subseteq ClientLines
      /\ NamelessLines \subseteq ClientLines
      /\ AUTH \notin NamelessLines /\ OpenLines \subseteq NamelessLines
  BY DEF ClientLines, OpenLines, NamelessLines, AUTH
<1>5. \A line \in ClientLines : line \in OpenLines <=> line[1] \in {"MSG", "JOIN"}
  BY DEF ClientLines, OpenLines
<1>6. OK \notin ClientLines
  BY DEF ClientLines, OK
<1> QED BY <1>1, <1>2, <1>3, <1>4, <1>5, <1>6

\* What the user types leads to a turn.
LEMMA UserTurns ==
  ASSUME Protocol, NEW c \in Clients, User(c)
  PROVE  \E lines, next : ClientTurn(c, lines, next)
<1> DEFINE a == <<"AUTH">>
           b == <<"BYE">>
           o == <<"OTHER">>
<1>1. /\ a \in ClientLines /\ b \in ClientLines /\ o \in ClientLines
      /\ a # OK /\ b # OK /\ o # OK
      /\ a \notin OpenLines /\ b \notin OpenLines /\ OpenLines \subseteq NamelessLines
      /\ a # b /\ a # o
      /\ \A line \in NamelessLines : line \in ClientLines /\ line # OK /\ line # a
  BY ClientLinesTyped DEF AUTH
<1>2. buffer \in [Clients -> BufferLines] /\ ClientLines \subseteq BufferLines
  BY DEF Protocol, ClientTypes, BufferLines
<1>3. /\ <<>> \in Seq(ClientLines) /\ ToSet(<<>>) = {}
      /\ \A line \in ClientLines : <<line>> \in Seq(ClientLines) /\ ToSet(<<line>>) = {line}
  BY ClientLinesTyped
<1>4. toClient' = toClient /\ fsm[c] \in {"Start", "Auth", "Open"}
  BY DEF User, TypeAuth, TypeHelp, TypeBye, TypeRefused, TypeLine, TypeRename, TypeLocal,
         TypeEof, Typed
<1> HIDE DEF a, b, o
<1>5. ASSUME NEW line \in ClientLines, line # OK, NEW lines \in Seq(ClientLines),
             Emit(c, lines, "Auth"), buffer' = [buffer EXCEPT ![c] = line],
             ToSet(lines) \subseteq {a}, nameless' = nameless,
             \/ counterForBye' = counterForBye /\ a \notin ToSet(lines)
             \/ counterForBye' = [counterForBye EXCEPT ![c] = @ + 1] /\ lines = <<a>>
      PROVE  ClientTurn(c, lines, "Auth")
  BY <1>1, <1>2, <1>4, <1>5 DEF ClientTurn, ClientStates, WayIn, a, AUTH
<1>6. CASE TypeAuth(c)
  <2>1. /\ Emit(c, <<a>>, "Auth") /\ buffer' = [buffer EXCEPT ![c] = a]
        /\ nameless' = nameless /\ counterForBye' = [counterForBye EXCEPT ![c] = @ + 1]
    BY <1>6 DEF TypeAuth, Answers, Names, a
  <2> QED BY <1>1, <1>3, <1>5, <2>1
<1>7. CASE TypeHelp(c)
  <2>1. /\ Emit(c, <<>>, "Auth") /\ buffer' = [buffer EXCEPT ![c] = o]
        /\ UNCHANGED <<nameless, counterForBye>>
    BY <1>7 DEF TypeHelp, Answers, Names, o
  <2> QED BY <1>1, <1>3, <1>5, <2>1
<1>8. CASE TypeBye(c)
  <2>1. /\ Emit(c, <<b>>, "End") /\ buffer' = [buffer EXCEPT ![c] = b]
        /\ UNCHANGED <<nameless, counterForBye>>
    BY <1>8 DEF TypeBye, Answers, Names, b
  <2>2. ClientTurn(c, <<b>>, "End")
    BY <1>1, <1>2, <1>3, <1>4, <2>1 DEF ClientTurn, ClientStates, WayIn, a, AUTH
  <2> QED BY <2>2
<1>9. CASE TypeRefused(c)
  <2>1. PICK line \in {b, o} : buffer' = [buffer EXCEPT ![c] = line]
    BY <1>9 DEF TypeRefused, b, o
  <2>2. Emit(c, <<>>, fsm[c]) /\ UNCHANGED <<nameless, counterForBye>>
    BY <1>9 DEF TypeRefused, Names
  <2>3. fsm[c] = "Open" => Opened(c)
    BY DEF Protocol, OnlyOpened
  <2>4. ClientTurn(c, <<>>, fsm[c])
    BY <1>1, <1>2, <1>3, <1>4, <2>1, <2>2, <2>3 DEF ClientTurn, ClientStates, WayIn
  <2> QED BY <2>4
<1>10. CASE TypeLine(c)
  <2>1. fsm[c] = "Open" /\ Opened(c)
    BY <1>10 DEF TypeLine, Typed, Protocol, OnlyOpened
  <2>2. PICK line \in NamelessLines :
          /\ buffer' = [buffer EXCEPT ![c] = line] /\ Emit(c, <<line>>, "Open")
          /\ named[c] => line \in OpenLines
    BY <1>10 DEF TypeLine, Answers, NamelessLines
  <2>3. line \in ClientLines /\ line \in BufferLines /\ line # OK /\ line # a
    BY <1>1, <1>2
  <2>4. <<line>> \in Seq(ClientLines) /\ ToSet(<<line>>) = {line}
    BY <1>3, <2>3
  <2>5. /\ counterForBye' = counterForBye
        /\ nameless' = IF named[c] THEN nameless ELSE nameless \cup {c}
    BY <1>10 DEF TypeLine
  <2>6. c \notin nameless' => line \in OpenLines
    BY <2>2, <2>5
  <2>7. ClientTurn(c, <<line>>, "Open")
    BY <1>4, <2>1, <2>2, <2>3, <2>4, <2>5, <2>6 DEF ClientTurn, ClientStates, WayIn, a, AUTH
  <2> QED BY <2>7
<1>11. CASE TypeRename(c) \/ TypeLocal(c)
  <2>1. fsm[c] = "Open" /\ Opened(c)
    BY <1>11 DEF TypeRename, TypeLocal, Typed, Protocol, OnlyOpened
  <2>2. /\ Emit(c, <<>>, "Open") /\ buffer' = [buffer EXCEPT ![c] = o]
        /\ UNCHANGED <<nameless, counterForBye>>
    BY <1>11 DEF TypeRename, TypeLocal, Answers, Names, names, o
  <2>3. ClientTurn(c, <<>>, "Open")
    BY <1>1, <1>2, <1>3, <1>4, <2>1, <2>2 DEF ClientTurn, ClientStates, WayIn
  <2> QED BY <2>3
<1>12. CASE TypeEof(c)
  <2>1. /\ Emit(c, <<b>>, "exited") /\ buffer' = buffer
        /\ UNCHANGED <<nameless, counterForBye>>
    BY <1>12 DEF TypeEof, names, b
  <2>2. /\ buffer[c] \in BufferLines /\ buffer' = [buffer EXCEPT ![c] = buffer[c]]
        /\ buffer[c] = OK => Opened(c)
    BY <1>2, <2>1 DEF Protocol, OnlyOpened
  <2>3. ClientTurn(c, <<b>>, "exited")
    BY <1>1, <1>3, <1>4, <2>1, <2>2 DEF ClientTurn, ClientStates, WayIn, a, AUTH
  <2> QED BY <2>3
<1> QED BY <1>6, <1>7, <1>8, <1>9, <1>10, <1>11, <1>12 DEF User

\* What is taken for a reply is one.
LEMMA KindOfReply ==
  ASSUME NEW line \in BufferLines, Kind(line) = "REPLY"
  PROVE  line \in {OK, NOK}
<1>1. CASE line \in ClientLines \cup {<<"EMPTY">>}
  BY <1>1 DEF ClientLines, Kind
<1>2. CASE line \in {<<"REPLY", "OK">>, <<"REPLY", "NOK">>, <<"ERROR">>, <<"BYE">>}
  BY <1>2 DEF Kind, OK, NOK
<1>3. CASE line \in {"JOINED", "LEFT", "SAID"} \X Clients
  BY <1>3 DEF Kind
<1>4. CASE line \in {<<"RAW">> \o text : text \in ClientLines}
  <2>1. PICK text \in ClientLines : line = <<"RAW">> \o text
    BY <1>4
  <2>2. line[1] = "RAW"
    BY <2>1, RawShape
  <2>3. line[2] = text[1]
    <3>1. CASE \E keyword : text = <<keyword>>
      <4>1. PICK keyword : text = <<keyword>>
        BY <3>1
      <4>2. <<keyword>> \in Seq({"RAW", keyword}) /\ <<"RAW">> \in Seq({"RAW", keyword})
        OBVIOUS
      <4>3. (<<"RAW">> \o <<keyword>>)[2] = keyword
        BY <4>2
      <4> QED BY <2>1, <4>1, <4>3
    <3>2. CASE text \in {"JOIN"} \X Channels
      <4>1. PICK r : text = <<"JOIN", r>>
        BY <3>2
      <4>2. <<"JOIN", r>> \in Seq({"RAW", "JOIN", r}) /\ <<"RAW">> \in Seq({"RAW", "JOIN", r})
        OBVIOUS
      <4>3. (<<"RAW">> \o <<"JOIN", r>>)[2] = "JOIN"
        BY <4>2
      <4> QED BY <2>1, <4>1, <4>3
    <3> QED BY <3>1, <3>2, Zenon DEF ClientLines
  <2>4. text[1] # "REPLY"
    BY DEF ClientLines
  <2>5. Kind(line) = line[2]
    BY <2>2 DEF Kind
  <2> QED BY <2>3, <2>4, <2>5
<1> QED BY <1>1, <1>2, <1>3, <1>4 DEF BufferLines, ServerLines

\* The handler of a line: it sends only on the way out, and goes to Open only from there
\* or for an OK.
LEMMA ReactionShape ==
  ASSUME NEW s \in {"Start", "Auth", "Open"}, NEW line \in BufferLines
  PROVE  LET does == Reaction(s, line) IN
         /\ does.next \in ClientStates
         /\ does.send \in Seq(ClientLines)
         /\ \A l \in ToSet(does.send) : l \notin OpenLines /\ l # AUTH
         /\ does.next \in WayIn => does.send = <<>>
         /\ does.next = "Open" => s = "Open" \/ line = OK
         /\ does.left \in {line, <<"OTHER">>, <<"BYE">>}
<1> DEFINE does == Reaction(s, line)
           b == <<"BYE">>
           o == <<"OTHER">>
<1>1. /\ b \in ClientLines /\ o \in ClientLines /\ b \notin OpenLines /\ o \notin OpenLines
      /\ b # AUTH /\ o # AUTH
      /\ OK # NOK /\ OK[2] = "OK" /\ NOK[2] = "NOK"
  BY ClientLinesTyped DEF OK, NOK, AUTH
<1>2. /\ <<>> \in Seq(ClientLines) /\ ToSet(<<>>) = {}
      /\ \A l \in ClientLines : <<l>> \in Seq(ClientLines) /\ ToSet(<<l>>) = {l}
      /\ \A l \in ClientLines, m \in ClientLines :
           <<l, m>> \in Seq(ClientLines) /\ ToSet(<<l, m>>) = {l, m}
  BY ClientLinesTyped
<1> HIDE DEF b, o
<1>3. /\ <<b>> \in Seq(ClientLines) /\ ToSet(<<b>>) = {b}
      /\ <<o>> \in Seq(ClientLines) /\ ToSet(<<o>>) = {o}
      /\ <<o, b>> \in Seq(ClientLines) /\ ToSet(<<o, b>>) = {o, b}
  BY <1>1, <1>2
<1>4. \/ does = Does(<<>>, "Start", line) /\ s = "Start"
      \/ does = Does(<<>>, "Open", o) /\ (s = "Open" \/ line = OK)
      \/ does = Does(<<>>, s, o) \/ does = Does(<<>>, s, line)
      \/ does = Does(<<b>>, "End", b)
      \/ does = Does(<<>>, "End", line)
      \/ does = Does(<<o, b>>, "exited", b)
      \/ does = Does(<<o>>, "Error", o)
  <2>1. CASE s = "Start"
    BY <2>1 DEF Reaction
  <2>2. CASE s # "Start" /\ Kind(line) = "REPLY"
    <3>1. line \in {OK, NOK}
      BY <2>2, KindOfReply
    <3>2. does = Reply(s, line)
      BY <2>2 DEF Reaction
    <3> QED BY <1>1, <3>1, <3>2 DEF Reply, o
  <2>3. CASE s # "Start" /\ Kind(line) = "ERR"
    BY <2>3 DEF Reaction, b
  <2>4. CASE s = "Open" /\ Kind(line) = "MSG"
    BY <2>4 DEF Reaction, o
  <2>5. CASE s = "Open" /\ Kind(line) = "BYE"
    BY <2>5 DEF Reaction
  <2>6. CASE /\ s # "Start" /\ Kind(line) \notin {"REPLY", "ERR"}
             /\ ~(s = "Open" /\ Kind(line) \in {"MSG", "BYE"})
    <3>1. does = Unknown(s)
      BY <2>6 DEF Reaction
    <3> QED BY <3>1 DEF Unknown, b, o
  <2> QED BY <2>1, <2>2, <2>3, <2>4, <2>5, <2>6
<1> HIDE DEF does
<1>5. does.next = "Open" => s = "Open" \/ line = OK
  BY <1>4 DEF Does
<1>6. does.next \in ClientStates /\ (does.next \in WayIn => does.send = <<>>)
  BY <1>4 DEF Does, ClientStates, WayIn
<1>7. does.left \in {line, o, b}
  BY <1>4 DEF Does
<1>8. /\ does.send \in Seq(ClientLines)
      /\ \A l \in ToSet(does.send) : l \notin OpenLines /\ l # AUTH
  <2>1. does.send \in {<<>>, <<b>>, <<o>>, <<o, b>>}
    BY <1>4 DEF Does
  <2>2. does.send \in Seq(ClientLines) /\ ToSet(does.send) \subseteq {b, o}
    BY <1>2, <1>3, <2>1
  <2> QED BY <1>1, <2>2
<1> QED BY <1>5, <1>6, <1>7, <1>8 DEF does, b, o

\* A line that is handled, just received or left over, leads to a turn.
LEMMA ReactionTurns ==
  ASSUME Protocol, NEW c \in Clients, fsm[c] \in {"Start", "Auth", "Open"},
         NEW line \in BufferLines, line = OK => Opened(c), React(c, line),
         \/ toClient' = toClient
         \/ \E n \in DOMAIN toClient[c] :
              toClient' = [toClient EXCEPT ![c] = SubSeq(@, n + 1, Len(@))]
  PROVE  \E lines, next : ClientTurn(c, lines, next)
<1> DEFINE does == Reaction(fsm[c], line)
<1>1. /\ Emit(c, does.send, does.next) /\ buffer' = [buffer EXCEPT ![c] = does.left]
      /\ UNCHANGED <<nameless, counterForBye>>
  BY DEF React, names
<1>2. /\ does.next \in ClientStates
      /\ does.send \in Seq(ClientLines)
      /\ \A l \in ToSet(does.send) : l \notin OpenLines /\ l # AUTH
      /\ does.next \in WayIn => does.send = <<>>
      /\ does.next = "Open" => fsm[c] = "Open" \/ line = OK
      /\ does.left \in {line, <<"OTHER">>, <<"BYE">>}
  BY ReactionShape
<1> HIDE DEF does
<1>3. fsm[c] = "Open" => Opened(c)
  BY DEF Protocol, OnlyOpened
<1>4. does.left \in BufferLines /\ (does.left = OK => Opened(c))
  <2>1. {<<"OTHER">>, <<"BYE">>} \subseteq BufferLines
    BY DEF BufferLines, ClientLines
  <2>2. <<"OTHER">> # OK /\ <<"BYE">> # OK
    BY DEF OK
  <2> QED BY <1>2, <2>1, <2>2
<1>5. does.next \in WayIn => ToSet(does.send) = {}
  BY <1>2, EmptySet
<1>6. ClientTurn(c, does.send, does.next)
  BY <1>1, <1>2, <1>3, <1>4, <1>5 DEF ClientTurn, WayIn
<1> QED BY <1>6

\* What a client does by itself leads to a turn.
LEMMA ClientTurns ==
  ASSUME ServerInv, Protocol, NEW c \in Clients, ClientProcess(c)
  PROVE  \E lines, next : ClientTurn(c, lines, next)
<1>1. /\ toClient[c] \in Seq(ServerLines)
      /\ buffer \in [Clients -> BufferLines]
      /\ buffer[c] = OK => Opened(c)
      /\ OK \in ToSet(toClient[c]) => Opened(c)
  BY DEF ServerInv, Buffers, Protocol, ClientTypes, OnlyOpened
<1>2. CASE ReceiveFromServer(c)
  <2>1. /\ fsm[c] \in {"Start", "Auth", "Open"} /\ toClient[c] # <<>>
        /\ React(c, Head(toClient[c]))
        /\ \E n \in DOMAIN toClient[c] :
             toClient' = [toClient EXCEPT ![c] = SubSeq(@, n + 1, Len(@))]
    BY <1>2 DEF ReceiveFromServer, AtEpoll
  <2>2. Head(toClient[c]) \in ServerLines /\ Head(toClient[c]) \in ToSet(toClient[c])
    BY <1>1, <2>1 DEF ToSet
  <2> QED BY <1>1, <2>1, <2>2, ReactionTurns DEF BufferLines
<1>3. CASE HandleAgain(c)
  <2>1. /\ fsm[c] \in {"Start", "Auth", "Open"} /\ toClient' = toClient /\ React(c, buffer[c])
    BY <1>3 DEF HandleAgain, AtEpoll
  <2> QED BY <1>1, <2>1, ReactionTurns
<1>4. CASE ReceiveFails(c) \/ LoopHead(c)
  <2>1. /\ fsm[c] # "away" /\ UNCHANGED <<toClient, buffer, nameless, counterForBye>>
        /\ \E lines \in {<<>>, <<<<"BYE">>>>} : Emit(c, lines, "exited")
    BY <1>4 DEF ReceiveFails, LoopHead, AtEpoll, names
  <2>2. PICK lines \in {<<>>, <<<<"BYE">>>>} : Emit(c, lines, "exited")
    BY <2>1
  <2>3. /\ lines \in Seq(ClientLines)
        /\ \A line \in ToSet(lines) : line \notin OpenLines /\ line # AUTH
    <3> DEFINE b == <<"BYE">>
    <3>1. b \in ClientLines /\ b \notin OpenLines /\ b # AUTH /\ lines \in {<<>>, <<b>>}
      BY ClientLinesTyped DEF AUTH
    <3>2. /\ <<>> \in Seq(ClientLines) /\ ToSet(<<>>) = {}
          /\ \A line \in ClientLines : <<line>> \in Seq(ClientLines) /\ ToSet(<<line>>) = {line}
      BY ClientLinesTyped
    <3> HIDE DEF b
    <3> QED BY <3>1, <3>2
  <2>4. buffer[c] \in BufferLines /\ buffer' = [buffer EXCEPT ![c] = buffer[c]]
    BY <1>1, <2>1
  <2>5. ClientTurn(c, lines, "exited")
    BY <1>1, <2>1, <2>2, <2>3, <2>4 DEF ClientTurn, ClientStates, WayIn
  <2> QED BY <2>5
<1> QED BY <1>2, <1>3, <1>4 DEF ClientProcess

-----------------------------------------------------------------------------
(* The server.  Which of its answers are an OK, a NOK or an ERROR, to whom.  *)

\* A handler of client c sends an OK only to a client that it leaves open, a NOK only
\* to c, for a line that comes too early or asks for no channel, and an ERROR only to c,
\* for a line that is not one of state Open.  It opens c alone, for an AUTH.
AnswersOf(c, sends, newState) ==
  /\ sends \in Seq(Sends)
  /\ \A d \in Clients :
       /\ OK \in ToSet(LinesTo(d, sends)) => newState[d] = "Open"
       /\ NOK \in ToSet(LinesTo(d, sends)) =>
            /\ d = c
            /\ \/ state[c] \in {"Accept", "Auth"} /\ First(c) # <<"AUTH">>
               \/ First(c) = <<"BADJOIN">>
       /\ ERROR \in ToSet(LinesTo(d, sends)) =>
            d = c /\ state[c] = "Open" /\ First(c) \notin OpenLines
       /\ state[d] \in {"Open", "End"} => newState[d] \in {"Open", "End"}
       /\ newState[d] = "Open" => state[d] = "Open" \/ (d = c /\ First(c) = AUTH)

\* What gets through of what is sent is some of it.
LEMMA AcceptedLines ==
  ASSUME NEW s \in Seq(Sends), NEW d
  PROVE  /\ LinesTo(d, Accepted(s)) \in Seq(ServerLines)
         /\ ToSet(LinesTo(d, Accepted(s))) \subseteq ToSet(LinesTo(d, s))
<1>1. PICK k \in 0 .. Len(s) : Accepted(s) = SubSeq(s, 1, k)
  BY AcceptedIsPrefix
<1> DEFINE t == SubSeq(s, 1, k)
           u == SubSeq(s, k + 1, Len(s))
<1>2. t \in Seq(Sends) /\ u \in Seq(Sends) /\ s = t \o u
  <2>1. t \in Seq(Sends) /\ u \in Seq(Sends)
    OBVIOUS
  <2>2. /\ 1 \in 1 .. Len(s) + 1 /\ k \in 1 - 1 .. Len(s) /\ Len(s) \in k .. Len(s)
    OBVIOUS
  <2>3. t \o u = SubSeq(s, 1, Len(s))
    BY <2>2, ConcatAdjacentSubSeq
  <2> QED BY <2>1, <2>3, SubSeqFull
<1> HIDE DEF t, u
<1>3. /\ LinesTo(d, t \o u) = LinesTo(d, t) \o LinesTo(d, u)
      /\ LinesTo(d, t) \in Seq(ServerLines)
  BY <1>2, LinesConcat
<1>4. LinesTo(d, u) \in Seq(ServerLines)
  BY <1>2, EmptySet, LinesConcat
<1>5. ToSet(LinesTo(d, t) \o LinesTo(d, u)) = ToSet(LinesTo(d, t)) \cup ToSet(LinesTo(d, u))
  BY <1>3, <1>4, ConcatSet
<1> QED BY <1>1, <1>2, <1>3, <1>5 DEF t

\* One line, or none.
LEMMA LineSet ==
  ASSUME NEW a \in ServerLines, NEW told
  PROVE  Line(told, a) \in Seq(ServerLines) /\ ToSet(Line(told, a)) \subseteq {a}
<1>1. <<a>> \in Seq(ServerLines) /\ ToSet(<<a>>) = {a}
  BY DEF ToSet
<1>2. <<>> \in Seq(ServerLines) /\ ToSet(<<>>) = {}
  BY EmptySet
<1> QED BY <1>1, <1>2 DEF Line

\* The lines that are not answers.
Answer == {OK, NOK, ERROR}

LEMMA NotAnswers ==
  /\ Answer \subseteq ServerLines /\ OK # NOK /\ OK # ERROR /\ NOK # ERROR
  /\ \A line \in Answer : line[1] \in {"REPLY", "ERROR"}
  /\ <<"BYE">> \in ServerLines \ Answer
  /\ \A c \in Clients : /\ <<"JOINED", c>> \in ServerLines \ Answer
                        /\ <<"LEFT", c>> \in ServerLines \ Answer
BY DEF ServerLines, Answer, OK, NOK, ERROR

\* A message that is forwarded, and what came with it, holds no answer.
LEMMA TextKeywords ==
  ASSUME ServerInv, NEW c \in Clients, Recv(c)
  PROVE  /\ TextOf(c) \in Seq(ServerLines)
         /\ \A i \in 1 .. Len(TextOf(c)) : TextOf(c)[i] \notin Answer
<1>1. Received(c) \in Seq(ClientLines) /\ Received(c) # <<>>
  BY RecvTakes
<1>2. TextOf(c) \in Seq(ServerLines)
  BY TextTyped
<1> DEFINE n == Len(Received(c)) - 1
           raw == RawLines(c)
           said == <<"SAID", c>>
<1>3. \A i \in 1 .. n : raw[i][1] = "RAW"
  <2> SUFFICES ASSUME NEW i \in 1 .. n PROVE raw[i][1] = "RAW"
    OBVIOUS
  <2>1. Received(c)[i + 1] \in ClientLines /\ raw[i] = <<"RAW">> \o Received(c)[i + 1]
    BY <1>1 DEF RawLines
  <2> QED BY <2>1, RawShape
<1>4. n \in Nat /\ DOMAIN raw = 1 .. n /\ raw = [i \in 1 .. n |-> raw[i]]
  BY <1>1 DEF RawLines
<1>5. said[1] = "SAID" /\ TextOf(c) = <<said>> \o raw
  BY DEF TextOf
<1> HIDE DEF n, raw, said
<1>6. raw \in Seq({raw[i] : i \in 1 .. n}) /\ Len(raw) = n
  <2>1. raw \in [1 .. n -> {raw[i] : i \in 1 .. n}]
    BY <1>4
  <2> QED BY <1>4, <2>1
<1>7. \A i \in 1 .. Len(TextOf(c)) : TextOf(c)[i] = said \/ TextOf(c)[i][1] = "RAW"
  <2> DEFINE V == {said} \cup {raw[i] : i \in 1 .. n}
  <2>1. <<said>> \in Seq(V) /\ raw \in Seq(V)
    BY <1>6
  <2>2. <<said>> \o raw \in Seq(V)
    BY <2>1
  <2>3. \A v \in V : v = said \/ v[1] = "RAW"
    BY <1>3
  <2> QED BY <1>5, <2>2, <2>3
<1> QED BY <1>2, <1>5, <1>7, NotAnswers

\* The handlers, one by one.
LEMMA HandlersAnswer ==
  ASSUME ServerInv, NEW c \in Clients, ServerTurn(c), ~ShortLine(c), ~Vanished(c)
  PROVE  \E sends, newState, newChannel, newClients :
           /\ AnswersOf(c, sends, newState)
           /\ Handle(sends, newState, newChannel, newClients)
<1>1. /\ \/ Authenticate(c) \/ RefuseAuth(c) \/ ForwardMessage(c) \/ JoinChannel(c)
         \/ RefuseJoin(c) \/ ClientErr(c) \/ ClientBye(c) \/ Unexpected(c)
      /\ state \in [Clients -> {"none", "Accept", "Auth", "Open", "End"}]
  BY DEF ServerTurn, ServerInv, Types
<1>2. CASE Authenticate(c)
  <2>1. Handle(AuthSends(c), OpenedBy(c), channel, clients)
    BY <1>2 DEF Authenticate, AuthSends, OpenedBy
  <2>2. ASSUME NEW d \in Clients
        PROVE  /\ AuthSends(c) \in Seq(Sends)
               /\ OK \in ToSet(LinesTo(d, AuthSends(c))) => d = c
               /\ NOK \notin ToSet(LinesTo(d, AuthSends(c)))
               /\ ERROR \notin ToSet(LinesTo(d, AuthSends(c)))
    <3> DEFINE p == d = c
               q == d \in ToSet(Audience(OpenedBy(c), channel, Default))
               j == <<"JOINED", c>>
    <3>1. /\ AuthSends(c) \in Seq(Sends)
          /\ LinesTo(d, AuthSends(c)) = Line(p, OK) \o Line(q, j)
      BY AuthLines DEF OK
    <3>2. j \in ServerLines \ Answer
      BY NotAnswers
    <3> HIDE DEF p, q, j
    <3>3. /\ Line(p, OK) \in Seq(ServerLines) /\ ToSet(Line(p, OK)) \subseteq {OK}
          /\ Line(q, j) \in Seq(ServerLines) /\ ToSet(Line(q, j)) \subseteq {j}
      BY <3>2, LineSet, NotAnswers DEF Answer
    <3>4. ToSet(LinesTo(d, AuthSends(c))) = ToSet(Line(p, OK)) \cup ToSet(Line(q, j))
      BY <3>1, <3>3, ConcatSet
    <3>5. ~p => ToSet(Line(p, OK)) = {}
      BY EmptySet DEF Line
    <3> QED BY <3>1, <3>2, <3>3, <3>4, <3>5, NotAnswers DEF p, Answer
  <2>3. \A d \in Clients : OpenedBy(c)[d] = IF d = c THEN "Open" ELSE state[d]
    BY <1>1 DEF OpenedBy
  <2>4. First(c) = AUTH
    BY <1>2 DEF Authenticate, AUTH
  <2>5. AnswersOf(c, AuthSends(c), OpenedBy(c))
    BY <2>2, <2>3, <2>4 DEF AnswersOf
  <2> QED BY <2>1, <2>5, Zenon
<1>3. /\ To(c, <<NOK>>) \in Seq(Sends)
      /\ \A d : ToSet(LinesTo(d, To(c, <<NOK>>))) \subseteq IF d = c THEN {NOK} ELSE {}
  <2>1. \A d : To(c, <<NOK>>) \in Seq(Sends) /\ LinesTo(d, To(c, <<NOK>>)) = Line(d = c, NOK)
    BY ReplyLines, NotAnswers DEF Answer
  <2>2. \A told : ToSet(Line(told, NOK)) \subseteq {NOK}
    BY LineSet, NotAnswers DEF Answer
  <2>3. ToSet(Line(FALSE, NOK)) = {}
    BY EmptySet DEF Line
  <2>4. \A d : ToSet(Line(d = c, NOK)) \subseteq IF d = c THEN {NOK} ELSE {}
    <3> SUFFICES ASSUME NEW d PROVE ToSet(Line(d = c, NOK)) \subseteq IF d = c THEN {NOK} ELSE {}
      OBVIOUS
    <3>1. CASE d = c
      BY <2>2, <3>1
    <3>2. CASE d # c
      <4>1. Line(d = c, NOK) = Line(FALSE, NOK)
        BY <3>2 DEF Line
      <4> QED BY <2>3, <4>1
    <3> QED BY <3>1, <3>2
  <2> QED BY <2>1, <2>4
<1>4. CASE RefuseAuth(c)
  <2>1. /\ Handle(To(c, <<NOK>>), [state EXCEPT ![c] = "Auth"], channel, clients)
        /\ state[c] \in {"Accept", "Auth"} /\ First(c) # <<"AUTH">>
    BY <1>4 DEF RefuseAuth, NOK
  <2>2. \A d \in Clients :
          /\ state[d] \in {"Open", "End"} =>
               [state EXCEPT ![c] = "Auth"][d] \in {"Open", "End"}
          /\ [state EXCEPT ![c] = "Auth"][d] = "Open" => state[d] = "Open"
    BY <1>1, <2>1
  <2>3. AnswersOf(c, To(c, <<NOK>>), [state EXCEPT ![c] = "Auth"])
    BY <1>3, <2>1, <2>2, NotAnswers DEF AnswersOf
  <2> QED BY <2>1, <2>3, Zenon
<1>5. CASE RefuseJoin(c)
  <2>1. Handle(To(c, <<NOK>>), state, channel, clients) /\ First(c) = <<"BADJOIN">>
    BY <1>5 DEF RefuseJoin, NOK
  <2>2. AnswersOf(c, To(c, <<NOK>>), state)
    BY <1>3, <2>1, NotAnswers DEF AnswersOf
  <2> QED BY <2>1, <2>2, Zenon
<1>6. CASE ForwardMessage(c)
  <2>1. Handle(SendEach(Others(c), TextOf(c)), state, channel, clients) /\ Recv(c)
    BY <1>6 DEF ForwardMessage, SendEach, TextOf, RawLines
  <2>2. ASSUME NEW d \in Clients
        PROVE  /\ SendEach(Others(c), TextOf(c)) \in Seq(Sends)
               /\ LinesTo(d, SendEach(Others(c), TextOf(c))) \in {TextOf(c), <<>>}
    BY <2>1, MessageLines
  <2>3. \A line \in Answer : line \notin ToSet(TextOf(c))
    <3>1. /\ TextOf(c) \in Seq(ServerLines)
          /\ \A i \in 1 .. Len(TextOf(c)) : TextOf(c)[i] \notin Answer
      BY <2>1, TextKeywords
    <3> QED BY <3>1 DEF ToSet
  <2>4. AnswersOf(c, SendEach(Others(c), TextOf(c)), state)
    BY <2>2, <2>3, EmptySet DEF AnswersOf, Answer
  <2> QED BY <2>1, <2>4, Zenon
<1>7. CASE JoinChannel(c)
  <2> DEFINE r == First(c)[2]
             sends == JoinSends(c, r)
  <2>1. Handle(sends, state, MovedTo(c, r), clients) /\ state[c] = "Open"
    BY <1>7 DEF JoinChannel, JoinSends, MovedTo
  <2>2. ASSUME NEW d \in Clients
        PROVE  /\ sends \in Seq(Sends)
               /\ OK \in ToSet(LinesTo(d, sends)) => d = c
               /\ NOK \notin ToSet(LinesTo(d, sends))
               /\ ERROR \notin ToSet(LinesTo(d, sends))
    <3> DEFINE p == d = c
               q == d \in ToSet(Others(c))
               m == d \in ToSet(Audience(state, MovedTo(c, r), r))
               l == <<"LEFT", c>>
               j == <<"JOINED", c>>
    <3>1. /\ sends \in Seq(Sends)
          /\ LinesTo(d, sends) = (Line(p, OK) \o Line(q, l)) \o Line(m, j)
      <4>1. JoinTells(c, r, d)
        BY JoinLines
      <4> QED BY <4>1 DEF JoinTells, OK
    <3>2. j \in ServerLines \ Answer /\ l \in ServerLines \ Answer
      BY NotAnswers
    <3> HIDE DEF p, q, m, l, j, sends
    <3>3. /\ Line(p, OK) \in Seq(ServerLines) /\ ToSet(Line(p, OK)) \subseteq {OK}
          /\ Line(q, l) \in Seq(ServerLines) /\ ToSet(Line(q, l)) \subseteq {l}
          /\ Line(m, j) \in Seq(ServerLines) /\ ToSet(Line(m, j)) \subseteq {j}
      BY <3>2, LineSet, NotAnswers DEF Answer
    <3>4. /\ Line(p, OK) \o Line(q, l) \in Seq(ServerLines)
          /\ ToSet(Line(p, OK) \o Line(q, l)) = ToSet(Line(p, OK)) \cup ToSet(Line(q, l))
      BY <3>3, ConcatSet
    <3> DEFINE front == Line(p, OK) \o Line(q, l)
    <3>5. ToSet(LinesTo(d, sends)) = ToSet(front) \cup ToSet(Line(m, j))
      <4>1. front \in Seq(ServerLines) /\ LinesTo(d, sends) = front \o Line(m, j)
        BY <3>1, <3>4
      <4> HIDE DEF front
      <4> QED BY <3>3, <4>1, ConcatSet
    <3>6. ~p => ToSet(Line(p, OK)) = {}
      BY EmptySet DEF Line
    <3> QED BY <3>1, <3>2, <3>3, <3>4, <3>5, <3>6, NotAnswers DEF p, Answer
  <2>3. AnswersOf(c, sends, state)
    <3> HIDE DEF sends
    <3> QED BY <2>1, <2>2 DEF AnswersOf
  <2> QED BY <2>1, <2>3, Zenon
<1>8. ASSUME NEW farewell, Farewell(c, farewell), LeaveServer(c, farewell),
             state[c] = "Open", First(c) \notin OpenLines
      PROVE  \E sends, newState, newChannel, newClients :
               /\ AnswersOf(c, sends, newState)
               /\ Handle(sends, newState, newChannel, newClients)
  <2> DEFINE left == [state EXCEPT ![c] = "End"]
             l == <<"LEFT", c>>
  <2>1. Handle(LeaveSends(c, farewell), left, channel, Keep(clients, Clients \ {c}))
    BY <1>8 DEF LeaveServer, LeaveSends
  <2>2. ASSUME NEW d \in Clients
        PROVE  /\ LeaveSends(c, farewell) \in Seq(Sends)
               /\ OK \notin ToSet(LinesTo(d, LeaveSends(c, farewell)))
               /\ NOK \notin ToSet(LinesTo(d, LeaveSends(c, farewell)))
               /\ ERROR \in ToSet(LinesTo(d, LeaveSends(c, farewell))) => d = c
    <3> DEFINE q == d \in ToSet(Others(c))
               f == LinesTo(d, farewell)
    <3>1. /\ LeaveSends(c, farewell) \in Seq(Sends)
          /\ LinesTo(d, LeaveSends(c, farewell)) = f \o Line(q, l)
      BY <1>8, LeaveLines DEF Farewell
    <3>2. f \in Seq(ServerLines) /\ ToSet(f) \subseteq {<<"ERROR">>, <<"BYE">>}
      <4>1. f \in {<<>>, <<<<"BYE">>>>, <<<<"ERROR">>, <<"BYE">>>>}
        BY <1>8 DEF Farewell
      <4>2. f \in Seq(ServerLines)
        BY <4>1, FarewellLines
      <4> HIDE DEF f
      <4>3. \A i \in DOMAIN f : f[i] \in {<<"ERROR">>, <<"BYE">>}
        BY <4>1
      <4> QED BY <4>2, <4>3 DEF ToSet
    <3>3. l \in ServerLines \ Answer
      BY NotAnswers
    <3>4. d # c => ToSet(f) = {}
      BY <1>8, EmptySet DEF Farewell
    <3> HIDE DEF q, l, f
    <3>5. Line(q, l) \in Seq(ServerLines) /\ ToSet(Line(q, l)) \subseteq {l}
      BY <3>3, LineSet
    <3>6. ToSet(LinesTo(d, LeaveSends(c, farewell))) = ToSet(f) \cup ToSet(Line(q, l))
      BY <3>1, <3>2, <3>5, ConcatSet
    <3> QED BY <3>1, <3>2, <3>3, <3>4, <3>5, <3>6, NotAnswers DEF Answer, ERROR
  <2>3. \A d \in Clients : /\ state[d] \in {"Open", "End"} => left[d] \in {"Open", "End"}
                           /\ left[d] = "Open" => state[d] = "Open"
    BY <1>1
  <2> HIDE DEF left
  <2>4. state[c] = "Open" /\ First(c) \notin OpenLines
    BY <1>8
  <2> DEFINE sends == LeaveSends(c, farewell)
  <2>5. sends \in Seq(Sends)
    BY <2>2
  <2>6. AnswersOf(c, sends, left)
    BY <2>2, <2>3, <2>4, <2>5 DEF AnswersOf
  <2> QED BY <2>1, <2>6, Zenon
<1>9. CASE ClientErr(c) \/ ClientBye(c) \/ Unexpected(c)
  <2>1. \E farewell : Farewell(c, farewell) /\ LeaveServer(c, farewell)
    BY <1>9, Farewells DEF ClientErr, ClientBye, Unexpected
  <2>2. /\ state[c] = "Open"
        /\ First(c) \in {<<"ERR">>, <<"BYE">>, <<"OTHER">>, <<"SHORT">>, <<"AUTH">>}
    BY <1>9 DEF ClientErr, ClientBye, Unexpected, Unmatched
  <2>3. First(c) \notin OpenLines
    BY <2>2 DEF OpenLines
  <2> QED BY <1>8, <2>1, <2>2, <2>3
<1> QED BY <1>1, <1>2, <1>4, <1>5, <1>6, <1>7, <1>9

\* A step that leaves the clients and what they have sent alone keeps the protocol if
\* the server closes nobody down to an earlier state, answers OK to the opened only,
\* NOK to those that are on their way out or have lost their name, and ERROR to those or
\* to who has asked twice.
LEMMA ServerKeepsProtocol ==
  ASSUME Protocol, UNCHANGED <<fsm, buffer, peer, counterForBye, nameless>>, AsksCounted',
         \A d \in Clients : /\ ToSet(toServer'[d]) \subseteq ToSet(toServer[d])
                            /\ Opened(d) => Opened(d)'
                            /\ OK \in ToSet(toClient'[d]) =>
                                 OK \in ToSet(toClient[d]) \/ Opened(d)'
                            /\ NOK \in ToSet(toClient'[d]) =>
                                 \/ NOK \in ToSet(toClient[d])
                                 \/ fsm[d] \notin WayIn \/ d \in nameless
                            /\ ERROR \in ToSet(toClient'[d]) =>
                                 \/ ERROR \in ToSet(toClient[d])
                                 \/ fsm[d] \notin WayIn \/ d \in nameless
                                 \/ ~(counterForBye[d] <= 1)
  PROVE  Protocol'
<1>1. ClientTypes' /\ NotStarted'
  BY DEF Protocol, ClientTypes, NotStarted
<1>2. OnlyOpened'
  <2> SUFFICES ASSUME NEW d \in Clients,
                      \/ fsm[d] = "Open"
                      \/ \E line \in ToSet(toServer'[d]) : line \in OpenLines
                      \/ OK \in ToSet(toClient'[d])
                      \/ buffer[d] = OK
               PROVE  Opened(d)'
    BY DEF OnlyOpened
  <2> QED BY DEF Protocol, OnlyOpened
<1>3. NothingToRefuse'
  BY DEF Protocol, NothingToRefuse
<1> QED BY <1>1, <1>2, <1>3 DEF Protocol

\* The asks stay counted when nobody is opened and no line arrives.
LEMMA AsksStayCounted ==
  ASSUME AsksCounted, counterForBye' = counterForBye,
         \A d \in Clients : toServer'[d] = toServer[d] /\ (state'[d] = "Open" => state[d] = "Open")
  PROVE  AsksCounted'
BY DEF AsksCounted

\* Nor does a handler lose count: it opens its client for the AUTH that it takes.
LEMMA HandlerCounts ==
  ASSUME ServerInv, Protocol, NEW c \in Clients, Recv(c), UNCHANGED clientVars,
         \A d \in Clients : state'[d] = "Open" => state[d] = "Open" \/ (d = c /\ First(c) = AUTH)
  PROVE  AsksCounted'
<1> DEFINE s == toServer[c]
           n == Len(Received(c))
<1>1. s \in Seq(ClientLines) /\ s # <<>> /\ First(c) = s[1]
  BY RecvTakes DEF First
<1>2. n \in DOMAIN s
  <2>1. Received(c) = SubSeq(s, 1, Min({RecvLines, Len(s)}))
    BY DEF Received
  <2>2. Len(s) \in Nat \ {0} /\ RecvLines \in Nat \ {0}
    BY <1>1, ServerAssumption
  <2>3. Min({RecvLines, Len(s)}) \in 1 .. Len(s)
    <3> HIDE DEF s
    <3>1. Min({RecvLines, Len(s)}) = IF RecvLines <= Len(s) THEN RecvLines ELSE Len(s)
      BY <2>2, MinOfTwo
    <3> QED BY <2>2, <3>1
  <2> HIDE DEF s
  <2>4. n = Min({RecvLines, Len(s)})
    BY <1>1, <2>1, <2>2, <2>3
  <2> QED BY <1>1, <2>3, <2>4
<1>3. toServer' = [toServer EXCEPT ![c] = SubSeq(s, n + 1, Len(s))]
  BY DEF Recv
<1> HIDE DEF n
<1>4. toServer'[c] = SubSeq(s, n + 1, Len(s)) /\ \A d \in Clients \ {c} : toServer'[d] = toServer[d]
  BY <1>3 DEF ServerInv, Buffers
<1>5. ToSet(toServer'[c]) \subseteq ToSet(s)
  BY <1>1, <1>2, <1>4, RestSet
<1>6. Once(s) => /\ Once(toServer'[c])
                 /\ First(c) = AUTH => AUTH \notin ToSet(toServer'[c])
  BY <1>1, <1>2, <1>4, RestOnce
<1>7. AUTH \notin ToSet(s) => First(c) # AUTH
  BY <1>1 DEF ToSet
<1>8. counterForBye' = counterForBye
  BY DEF clientVars
<1> SUFFICES ASSUME NEW d \in Clients
             PROVE  /\ counterForBye[d] = 0 =>
                         state'[d] # "Open" /\ AUTH \notin ToSet(toServer'[d])
                    /\ counterForBye[d] = 1 =>
                         /\ Once(toServer'[d])
                         /\ state'[d] = "Open" => AUTH \notin ToSet(toServer'[d])
  BY <1>8 DEF AsksCounted
<1>9. /\ counterForBye[d] = 0 => state[d] # "Open" /\ AUTH \notin ToSet(toServer[d])
      /\ counterForBye[d] = 1 => /\ Once(toServer[d])
                                 /\ state[d] = "Open" => AUTH \notin ToSet(toServer[d])
  BY DEF Protocol, AsksCounted
<1>10. CASE d # c
  BY <1>4, <1>9, <1>10
<1>11. CASE d = c
  BY <1>5, <1>6, <1>7, <1>9, <1>11
<1> QED BY <1>10, <1>11

\* What has got through of some sends is in the sockets.
LEMMA Arrived ==
  ASSUME ServerInv, NEW s \in Seq(Sends), Transmit(Accepted(s)), NEW d \in Clients,
         NEW line \in ToSet(toClient'[d])
  PROVE  line \in ToSet(toClient[d]) \/ line \in ToSet(LinesTo(d, s))
<1> DEFINE out == [c \in Clients |-> LinesTo(c, Accepted(s))]
<1>1. toClient' = [c \in Clients |-> toClient[c] \o out[c]]
  BY DEF Transmit
<1>2. out[d] \in Seq(ServerLines) /\ ToSet(out[d]) \subseteq ToSet(LinesTo(d, s))
  BY AcceptedLines
<1> HIDE DEF out
<1>3. toClient[d] \in Seq(ServerLines)
  BY DEF ServerInv, Buffers
<1>4. toClient'[d] = toClient[d] \o out[d]
  BY <1>1
<1>5. ToSet(toClient[d] \o out[d]) = ToSet(toClient[d]) \cup ToSet(out[d])
  BY <1>2, <1>3, ConcatSet
<1> QED BY <1>2, <1>4, <1>5

\* A handler: the clients of the repository send nothing before they are Open but what
\* the server opens them for, and nothing that it refuses then.
LEMMA HandlerKeepsProtocol ==
  ASSUME ServerInv, Protocol, NEW c \in Clients, ServerTurn(c), UNCHANGED clientVars
  PROVE  Protocol'
<1>1. UNCHANGED <<fsm, buffer, counterForBye, nameless>>
  BY DEF clientVars, names
<1>2. CASE ShortLine(c) \/ Vanished(c)
  <2>1. /\ UNCHANGED <<peer, toClient>> /\ server' = "died"
        /\ \A d \in Clients : ToSet(toServer'[d]) \subseteq ToSet(toServer[d])
    <3>1. CASE ShortLine(c)
      <4>1. Recv(c)
        BY <3>1 DEF ShortLine
      <4> QED BY <3>1, <4>1, RecvTakes DEF ShortLine, Dies, Recv
    <3>2. CASE Vanished(c)
      BY <3>2 DEF Vanished, Dies, network
    <3> QED BY <1>2, <3>1, <3>2
  <2>2. \A d \in Clients : Opened(d)'
    BY <2>1 DEF Opened, Running
  <2>3. AsksCounted'
    <3>1. state' = state
      BY <1>2 DEF ShortLine, Vanished, memory
    <3>2. CASE ShortLine(c)
      BY <3>1, <3>2, HandlerCounts DEF ShortLine
    <3>3. CASE Vanished(c)
      BY <1>1, <3>1, <3>3, AsksStayCounted DEF Vanished, network, Protocol
    <3> QED BY <1>2, <3>2, <3>3
  <2> QED BY <1>1, <2>1, <2>2, <2>3, ServerKeepsProtocol
<1>3. CASE ~ShortLine(c) /\ ~Vanished(c)
  <2>1. PICK sends, newState, newChannel, newClients :
          /\ AnswersOf(c, sends, newState)
          /\ Handle(sends, newState, newChannel, newClients)
    BY <1>3, HandlersAnswer
  <2>2. Recv(c) /\ sends \in Seq(Sends)
    BY <1>3, <2>1 DEF AnswersOf, ServerTurn, Authenticate, RefuseAuth, ForwardMessage,
                      JoinChannel, RefuseJoin, ClientErr, ClientBye, Unexpected
  <2>3. /\ Transmit(Accepted(sends)) /\ peer' = peer
        /\ state' = newState \/ (server' = "died" /\ state' = state)
    BY <2>1, <2>2, HandleEffect DEF Dies, Recv, memory
  <2>4. /\ \A d \in Clients : ToSet(toServer'[d]) \subseteq ToSet(toServer[d])
        /\ First(c) \in ClientLines /\ First(c) \in ToSet(toServer[c])
    <3>1. toServer[c] \in Seq(ClientLines) /\ toServer[c] # <<>>
      BY <2>2, RecvTakes
    <3>2. Head(toServer[c]) \in ToSet(toServer[c])
      BY <3>1 DEF ToSet
    <3>3. /\ First(c) \in ClientLines
          /\ \A d \in Clients \ {c} : toServer'[d] = toServer[d]
          /\ ToSet(toServer'[c]) \subseteq ToSet(toServer[c])
      BY <2>2, RecvTakes
    <3> QED BY <3>2, <3>3 DEF First
  <2>5. Running
    BY <2>2 DEF Recv, Turn, Running
  <2>6. \A d \in Clients :
          /\ Opened(d) => Opened(d)'
          /\ OK \in ToSet(LinesTo(d, sends)) => Opened(d)'
    BY <2>1, <2>3, <2>5 DEF AnswersOf, Opened, Running
  <2>7. ASSUME NEW d \in Clients, NOK \in ToSet(LinesTo(d, sends))
        PROVE  fsm[d] \notin WayIn \/ d \in nameless
    <3>1. /\ d = c
          /\ \/ state[c] \in {"Accept", "Auth"} /\ First(c) # AUTH
             \/ First(c) = <<"BADJOIN">>
      BY <2>1, <2>7 DEF AnswersOf, AUTH
    <3>2. <<"BADJOIN">> # AUTH /\ <<"BADJOIN">> \notin OpenLines
      BY DEF OpenLines, AUTH
    <3>3. First(c) \in OpenLines => Opened(c)
      BY <2>4 DEF Protocol, OnlyOpened
    <3>4. First(c) \notin OpenLines /\ First(c) # AUTH
      BY <2>5, <3>1, <3>2, <3>3 DEF Opened
    <3> QED BY <2>4, <3>1, <3>4 DEF Protocol, NothingToRefuse
  <2>8. ASSUME NEW d \in Clients, ERROR \in ToSet(LinesTo(d, sends))
        PROVE  fsm[d] \notin WayIn \/ d \in nameless \/ ~(counterForBye[d] <= 1)
    <3>1. d = c /\ state[c] = "Open" /\ First(c) \notin OpenLines
      BY <2>1, <2>8 DEF AnswersOf
    <3>2. CASE First(c) = AUTH
      <4>1. counterForBye[c] \in Nat \ {0, 1}
        BY <2>4, <3>1, <3>2 DEF Protocol, ClientTypes, AsksCounted
      <4> QED BY <3>1, <4>1
    <3>3. CASE First(c) # AUTH
      BY <2>4, <3>1, <3>3 DEF Protocol, NothingToRefuse
    <3> QED BY <3>2, <3>3
  <2>9. \A d \in Clients :
          /\ OK \in ToSet(toClient'[d]) => OK \in ToSet(toClient[d]) \/ Opened(d)'
          /\ NOK \in ToSet(toClient'[d]) =>
               NOK \in ToSet(toClient[d]) \/ fsm[d] \notin WayIn \/ d \in nameless
          /\ ERROR \in ToSet(toClient'[d]) =>
               \/ ERROR \in ToSet(toClient[d])
               \/ fsm[d] \notin WayIn \/ d \in nameless \/ ~(counterForBye[d] <= 1)
    BY <2>2, <2>3, <2>6, <2>7, <2>8, Arrived
  <2>10. AsksCounted'
    <3>1. \A d \in Clients :
            state'[d] = "Open" => state[d] = "Open" \/ (d = c /\ First(c) = AUTH)
      BY <2>1, <2>3 DEF AnswersOf
    <3> QED BY <2>2, <3>1, HandlerCounts
  <2> QED BY <1>1, <2>3, <2>4, <2>6, <2>9, <2>10, ServerKeepsProtocol
<1> QED BY <1>2, <1>3

\* The end after SIGINT.
LEMMA ShutdownKeepsProtocol ==
  ASSUME ServerInv, Protocol, Shutdown, UNCHANGED clientVars
  PROVE  Protocol'
<1> DEFINE bye == ToEach(clients, <<"BYE">>)
<1>1. /\ UNCHANGED <<fsm, buffer, peer, counterForBye, nameless, toServer>>
      /\ server' \in {"stopped", "died"}
      /\ Transmit(Accepted(bye))
  BY DEF Shutdown, clientVars, names
<1>2. bye \in Seq(Sends) /\ \A d \in Clients : /\ NOK \notin ToSet(LinesTo(d, bye))
                                               /\ ERROR \notin ToSet(LinesTo(d, bye))
  <2> DEFINE b == <<"BYE">>
  <2>1. clients \in Seq(Clients) /\ Distinct(clients) /\ b \in ServerLines /\ b # NOK /\ b # ERROR
    BY NotAnswers DEF ServerInv, Queues, Answer
  <2>2. bye = ToEach(clients, b)
    OBVIOUS
  <2> HIDE DEF b, bye
  <2>3. /\ bye \in Seq(Sends)
        /\ \A d \in Clients : LinesTo(d, bye) = IF d \in ToSet(clients) THEN <<b>> ELSE <<>>
    BY <2>1, <2>2, LinesOfToEach
  <2>4. ToSet(<<b>>) = {b} /\ ToSet(<<>>) = {}
    BY EmptySet DEF ToSet
  <2> QED BY <2>1, <2>3, <2>4
<1> HIDE DEF bye
<1>3. \A d \in Clients : Opened(d)'
  BY <1>1 DEF Opened, Running
<1>4. \A d \in Clients :
        /\ NOK \in ToSet(toClient'[d]) => NOK \in ToSet(toClient[d])
        /\ ERROR \in ToSet(toClient'[d]) => ERROR \in ToSet(toClient[d])
  BY <1>1, <1>2, Arrived
<1>5. AsksCounted'
  <2>1. \A d \in Clients : state'[d] = "Open" => state[d] = "Open"
    BY DEF Shutdown, memory
  <2> QED BY <1>1, <2>1, AsksStayCounted DEF Protocol
<1> QED BY <1>1, <1>3, <1>4, <1>5, ServerKeepsProtocol

\* Every other step of the server.
LEMMA OthersKeepProtocol ==
  ASSUME ServerInv, Protocol, EpollWait \/ AcceptClient \/ FlagOnly, UNCHANGED clientVars
  PROVE  Protocol'
<1>1. UNCHANGED <<fsm, buffer, peer, counterForBye, nameless, toServer, toClient>>
  BY DEF EpollWait, AcceptClient, FlagOnly, clientVars, names, network
<1>2. ASSUME NEW d \in Clients, Opened(d) PROVE Opened(d)'
  <2>1. Running
    BY DEF EpollWait, AcceptClient, FlagOnly, Turn, Running
  <2>2. state[d] \in {"Open", "End"}
    BY <1>2, <2>1 DEF Opened
  <2>3. CASE EpollWait \/ FlagOnly
    BY <2>2, <2>3 DEF EpollWait, FlagOnly, memory, Opened
  <2>4. CASE AcceptClient
    <3>1. backlog # <<>> /\ state' = [state EXCEPT ![Head(backlog)] = "Accept"]
      BY <2>4 DEF AcceptClient
    <3>2. Head(backlog) \in ToSet(backlog)
      <4>1. backlog \in Seq(Clients) /\ Distinct(backlog)
        BY DEF ServerInv, Queues
      <4> QED BY <3>1, <4>1, TailSet
    <3>3. Head(backlog) # d
      BY <2>2, <3>2 DEF ServerInv, Accounts
    <3>4. state'[d] = state[d]
      BY <3>1, <3>3 DEF ServerInv, Types
    <3> QED BY <2>2, <3>4 DEF Opened
  <2> QED BY <2>3, <2>4
<1>3. AsksCounted'
  <2>1. ASSUME NEW d \in Clients, state'[d] = "Open" PROVE state[d] = "Open"
    <3>1. state' = state \/ state' = [state EXCEPT ![Head(backlog)] = "Accept"]
      BY DEF EpollWait, AcceptClient, FlagOnly, memory
    <3> QED BY <2>1, <3>1 DEF ServerInv, Types
  <2> QED BY <1>1, <2>1, AsksStayCounted DEF Protocol
<1> QED BY <1>1, <1>2, <1>3, ServerKeepsProtocol

-----------------------------------------------------------------------------
(* The specification.                                                        *)

SystemInv == ServerInv /\ Protocol

\* A step of the server.
LEMMA ServerStepKeeps ==
  ASSUME SystemInv, Server \/ Shutdown \/ FlagOnly, UNCHANGED clientVars
  PROVE  SystemInv'
<1>1. [Next]_serverVars
  BY DEF Next
<1>2. ServerInv'
  BY <1>1, StepKeeps DEF SystemInv
<1>3. Protocol'
  BY HandlerKeepsProtocol, ShutdownKeepsProtocol, OthersKeepProtocol DEF Server, SystemInv
<1> QED BY <1>2, <1>3 DEF SystemInv

\* A connection, and the reset of one, are steps of the arbitrary clients too.
LEMMA ConnectionKeeps ==
  ASSUME SystemInv, NEW c \in Clients, Start(c) \/ (PeerReset(c) /\ UNCHANGED clientVars)
  PROVE  SystemInv'
<1>1. AnyClient(c)
  BY DEF Start, AnyClient
<1>2. ServerInv'
  BY <1>1, PeersKeep DEF SystemInv
<1>3. /\ UNCHANGED <<buffer, server, state, toServer, toClient, counterForBye, nameless>>
      /\ fsm \in [Clients -> ClientStates]
      /\ peer \in [Clients -> {"away", "connected", "closed", "reset"}]
  BY DEF Start, Connect, PeerReset, clientVars, names, process, memory, SystemInv, Protocol, ClientTypes,
         ServerInv, Types
<1>4. \/ fsm' = fsm /\ peer[c] = "closed" /\ peer' = [peer EXCEPT ![c] = "reset"]
      \/ /\ fsm[c] = "away" \/ peer[c] = "away"
         /\ fsm' = [fsm EXCEPT ![c] = "Start"] /\ peer' = [peer EXCEPT ![c] = "connected"]
  BY DEF Start, Connect, PeerReset, clientVars
<1>5. peer[c] = "away" => fsm[c] = "away"
  BY DEF SystemInv, Protocol, NotStarted
<1>6. \A d \in Clients : \/ fsm'[d] = fsm[d]
                         \/ fsm'[d] = "Start" /\ fsm[d] = "away"
  BY <1>3, <1>4, <1>5
<1>7. fsm' \in [Clients -> ClientStates]
  BY <1>3, <1>4 DEF ClientStates, WayIn
<1>8. NotStarted'
  <2> SUFFICES ASSUME NEW d \in Clients, peer'[d] = "away" PROVE fsm'[d] = "away"
    BY DEF NotStarted
  <2>1. d # c
    BY <1>3, <1>4
  <2>2. peer[d] = "away" /\ fsm'[d] = fsm[d]
    BY <1>3, <1>4, <2>1
  <2> QED BY <2>2 DEF SystemInv, Protocol, NotStarted
<1>9. \A d \in Clients : Opened(d)' <=> Opened(d)
  BY <1>3 DEF Opened, Running
<1>10. OnlyOpened'
  BY <1>3, <1>6, <1>9 DEF SystemInv, Protocol, OnlyOpened
<1>11. NothingToRefuse'
  BY <1>3, <1>6 DEF SystemInv, Protocol, NothingToRefuse, WayIn
<1>12. ClientTypes'
  BY <1>3, <1>7 DEF SystemInv, Protocol, ClientTypes
<1>13. AsksCounted'
  BY <1>3, AsksStayCounted DEF SystemInv, Protocol
<1> QED BY <1>2, <1>8, <1>10, <1>11, <1>12, <1>13 DEF SystemInv, Protocol

\* A step of a client.
LEMMA ClientStepKeeps ==
  ASSUME SystemInv, NEW c \in Clients, User(c) \/ ClientProcess(c)
  PROVE  SystemInv'
<1>1. PICK lines, next : ClientTurn(c, lines, next)
  BY UserTurns, ClientTurns DEF SystemInv
<1> QED BY <1>1, TurnKeepsServer, TurnKeepsProtocol DEF SystemInv, Protocol

\* A step of the system.
LEMMA SystemStepKeeps ==
  ASSUME SystemInv, [SystemNext]_systemVars
  PROVE  SystemInv'
<1>1. CASE UNCHANGED systemVars
  <2>1. UNCHANGED serverVars /\ UNCHANGED <<fsm, buffer, counterForBye, nameless>>
    BY <1>1 DEF systemVars, clientVars, names
  <2>2. ServerInv'
    BY <2>1, StepKeeps DEF SystemInv
  <2>3. UNCHANGED <<server, state, peer, toServer, toClient>>
    BY <2>1 DEF serverVars, process, memory, network
  <2>4. \A d \in Clients : Opened(d)' <=> Opened(d)
    BY <2>3 DEF Opened, Running
  <2>5. Protocol'
    <3>1. AsksCounted'
      BY <2>1, <2>3, AsksStayCounted DEF SystemInv, Protocol
    <3> QED BY <2>1, <2>3, <2>4, <3>1, ServerKeepsProtocol DEF SystemInv
  <2> QED BY <2>2, <2>5 DEF SystemInv
<1>2. CASE (Server \/ Shutdown \/ FlagOnly) /\ UNCHANGED clientVars
  BY <1>2, ServerStepKeeps
<1>3. CASE \E c \in Clients : \/ Start(c) \/ User(c) \/ ClientProcess(c)
                              \/ PeerReset(c) /\ UNCHANGED clientVars
  BY <1>3, ConnectionKeeps, ClientStepKeeps
<1> QED BY <1>1, <1>2, <1>3 DEF SystemNext

\* The invariant of the server, and that of the protocol, hold in every reachable state
\* of the server with its clients.
THEOREM SystemInvariant == SystemSpec => []SystemInv
<1>1. SystemInit => SystemInv
  BY ServerInitial, ProtocolInitial DEF SystemInit, SystemInv
<1>2. SystemInv /\ [SystemNext]_systemVars => SystemInv'
  BY SystemStepKeeps
<1> QED BY <1>1, <1>2, PTL DEF SystemSpec

\* A client of the repository is in Open, or has sent a line of that state, only after
\* the server has opened it, however long the replies and the lines are on their way and
\* however often the client has asked.
THEOREM OpenIsAgreed == SystemSpec => []OpenAgreed
<1>1. SystemInv => OpenAgreed
  <2> SUFFICES ASSUME SystemInv, NEW c \in Clients,
                      \/ fsm[c] = "Open"
                      \/ \E line \in ToSet(toServer[c]) : line[1] \in {"MSG", "JOIN"}
               PROVE  Opened(c)
    BY DEF OpenAgreed, Opened
  <2>1. toServer[c] \in Seq(ClientLines)
    BY DEF SystemInv, ServerInv, Buffers
  <2>2. ToSet(toServer[c]) \subseteq ClientLines
    BY <2>1, ElementsOf
  <2> QED BY <2>2, ClientLinesTyped DEF SystemInv, Protocol, OnlyOpened
<1> QED BY <1>1, SystemInvariant, PTL

\* A client of the repository is refused a line, by NOK or by ERROR, only if it has sent
\* one with an empty display name, or, by ERROR, if it has asked to be authenticated more
\* than once.
THEOREM RefusalsHaveCause == SystemSpec => []RefusedForCause
<1>1. SystemInv => RefusedForCause
  <2> SUFFICES ASSUME SystemInv, NEW c \in Clients, fsm[c] \in {"Auth", "Open"}
               PROVE  /\ NOK \in ToSet(toClient[c]) => c \in nameless
                      /\ ERROR \in ToSet(toClient[c]) =>
                           c \in nameless \/ counterForBye[c] > 1
    BY DEF RefusedForCause, NOK, ERROR
  <2>1. counterForBye[c] \in Nat
    BY DEF SystemInv, Protocol, ClientTypes
  <2> QED BY <2>1 DEF SystemInv, Protocol, NothingToRefuse, WayIn
<1> QED BY <1>1, SystemInvariant, PTL

-----------------------------------------------------------------------------
(* The rooms.                                                                *)

\* A client's own step does not touch the rooms.
LEMMA ClientsStutter ==
  ASSUME NEW c \in Clients, Start(c) \/ User(c) \/ ClientProcess(c) \/ PeerReset(c)
  PROVE  UNCHANGED <<server, state, channel, view, mail>>
<1>1. \/ Connect(c) \/ PeerReset(c) \/ \E lines, next : Emit(c, lines, next)
  BY Zenon DEF Start, User, TypeAuth, TypeHelp, TypeBye, TypeRefused, TypeLine, TypeRename, TypeLocal,
         TypeEof, ClientProcess, ReceiveFromServer, HandleAgain, ReceiveFails, LoopHead, React
<1> QED BY <1>1 DEF Connect, PeerReset, Emit, process, memory, history

\* With the clients of the repository the server implements the chat rooms too.
THEOREM SystemImplementsRooms == SystemSpec => RoomsKept
<1>1. SystemInit => Newcomers /\ Rooms!Init
  BY RoomsInitial DEF SystemInit
<1>2. SystemInv /\ Newcomers /\ [SystemNext]_systemVars =>
        Newcomers' /\ [Rooms!Next]_(Rooms!roomVars)
  <2> SUFFICES ASSUME SystemInv, Newcomers, [SystemNext]_systemVars
               PROVE  Newcomers' /\ [Rooms!Next]_(Rooms!roomVars)
    OBVIOUS
  <2>1. CASE \/ Server \/ Shutdown \/ FlagOnly \/ UNCHANGED systemVars
    <3>1. [Next]_serverVars
      BY <2>1 DEF Next, systemVars
    <3> QED BY <3>1, NewcomersKept, StepIsRoomStep DEF SystemInv
  <2>2. CASE \E c \in Clients : Start(c) \/ User(c) \/ ClientProcess(c) \/ PeerReset(c)
    <3>1. UNCHANGED <<server, state, channel, view, mail>>
      BY <2>2, ClientsStutter
    <3> QED BY <3>1 DEF Newcomers, room, Running, Rooms!roomVars
  <2> QED BY <2>1, <2>2 DEF SystemNext
<1> QED BY <1>1, <1>2, SystemInvariant, PTL DEF SystemSpec, RoomsKept, Rooms!Spec
=============================================================================
