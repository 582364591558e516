----------------------------- MODULE ChatServer -----------------------------
(***************************************************************************)
(* The TCP chat server of IPK/secondproject: one thread, one epoll         *)
(* instance.  The listening socket is level-triggered, the client sockets  *)
(* are edge-triggered and non-blocking.  An action is one turn of the loop *)
(* over events[]: accept(), or one recv() with the whole handler of what   *)
(* it returned.                                                            *)
(*                                                                         *)
(* A line is a tuple whose head is its keyword.  A keyword stands for a    *)
(* line of the right shape; OTHER is any line that matches nothing, SHORT  *)
(* one with fewer words than the handler looks at.  Names and texts decide *)
(* nothing but the validity of a line and are left out.  A Client is one   *)
(* connection: who connects again is another Client.                       *)
(***************************************************************************)
EXTENDS Naturals, SequencesExt

CONSTANTS
  Clients,
  Channels, Default,  \* the channel names; "default" in the code
  MaxEvents,          \* MAX_EVENTS
  RecvLines,          \* how many lines fit into BUFFER_SIZE bytes
  SendBuffer,         \* lines a socket holds before send() returns EAGAIN
  Lines,              \* the lines clients send
  MaxUnread,          \* bound: lines a client sends ahead of the server
  MaxLines,           \* bound: lines all clients send
  MaxInterrupts       \* bound: how often SIGINT is raised

Outside == "outside"  \* the channel of a client that is in none

ASSUME ServerAssumption ==
  /\ Default \in Channels /\ Outside \notin Channels
  /\ {MaxEvents, RecvLines, SendBuffer} \subseteq Nat \ {0}
  /\ {MaxUnread, MaxLines, MaxInterrupts} \subseteq Nat
  /\ "listen" \notin Clients

ClientLines ==
  {<<"AUTH">>, <<"MSG">>, <<"BADJOIN">>, <<"ERR">>, <<"BYE">>, <<"OTHER">>,
   <<"SHORT">>} \cup ({"JOIN"} \X Channels)

ASSUME LinesAssumption == Lines \subseteq ClientLines

VARIABLES
  server,      \* loop, blocked in epoll_wait, batch, stopped, died
  events,      \* the part of events[] that has not been handled
  force_quit, interrupts,
  clients,     \* the vector of client objects
  state, channel,  \* m_state, m_channelId; "none" before accept
  \* the kernel and the network
  backlog,     \* connections waiting for accept()
  ready,       \* the ready list of the epoll instance
  peer,        \* the other end: away, connected, closed, reset
  toServer, toClient, sent,
  \* history: what the lines sent to a client have told it
  view, mail

process == <<server, events, force_quit, interrupts>>
memory == <<clients, state, channel>>
network == <<backlog, ready, peer, toServer, toClient, sent>>
history == <<view, mail>>
serverVars == <<process, memory, network, history>>

Running == server \in {"loop", "blocked", "batch"}

ServerInit ==
  /\ server = "loop" /\ events = <<>> /\ force_quit = FALSE /\ interrupts = 0
  /\ clients = <<>>
  /\ state = [c \in Clients |-> "none"]
  /\ channel = [c \in Clients |-> Default]
  /\ backlog = <<>> /\ ready = <<>>
  /\ peer = [c \in Clients |-> "away"]
  /\ toServer = [c \in Clients |-> <<>>]
  /\ toClient = [c \in Clients |-> <<>>]
  /\ sent = 0
  /\ view = [c \in Clients |-> {}]
  /\ mail = [c \in Clients |-> 0]

-----------------------------------------------------------------------------
(* Sending.  A handler makes a sequence of send() calls; the first that    *)
(* fails ends the process: EAGAIN on a full socket by exit(EXIT_FAILURE),  *)
(* a connection that was reset by SIGPIPE.                                 *)

\* The elements of s that are in S, in their order.
Keep(s, S) ==
  LET kept[i \in 0 .. Len(s)] ==
        IF i = 0 THEN <<>>
        ELSE IF s[i] \in S THEN Append(kept[i - 1], s[i]) ELSE kept[i - 1]
  IN kept[Len(s)]

To(c, lines) == <<[to |-> c, lines |-> lines]>>
ToEach(targets, line) ==
  [i \in DOMAIN targets |-> [to |-> targets[i], lines |-> <<line>>]]

LinesTo(c, sends) ==
  LET lines[i \in 0 .. Len(sends)] ==
        IF i = 0 THEN <<>>
        ELSE IF sends[i].to = c THEN lines[i - 1] \o sends[i].lines ELSE lines[i - 1]
  IN lines[Len(sends)]

Fits(i, sends) ==
  LET c == sends[i].to IN
    /\ peer[c] # "reset"
    /\ Len(toClient[c]) + Len(LinesTo(c, SubSeq(sends, 1, i))) <= SendBuffer

Accepted(sends) ==
  LET fitting == {n \in 0 .. Len(sends) : \A i \in 1 .. n : Fits(i, sends)}
  IN SubSeq(sends, 1, Max(fitting))

\* What a line tells the client that reads it.
Tells(c, known, line) ==
  CASE line[1] = "JOINED" /\ line[2] = c -> {c}
    [] line[1] = "JOINED" /\ line[2] # c -> known \cup {line[2]}
    [] line[1] = "LEFT" -> known \ {line[2]}
    [] OTHER -> known

Reads(c, known, lines) ==
  LET told[i \in 0 .. Len(lines)] ==
        IF i = 0 THEN known ELSE Tells(c, told[i - 1], lines[i])
  IN told[Len(lines)]
Messages(lines) == Cardinality({i \in DOMAIN lines : lines[i][1] = "SAID"})

Transmit(done) ==
  \E out \in {[c \in Clients |-> LinesTo(c, done)]} :
    /\ toClient' = [c \in Clients |-> toClient[c] \o out[c]]
    /\ view' = [c \in Clients |-> Reads(c, view[c], out[c])]
    /\ mail' = [c \in Clients |-> mail[c] + Messages(out[c])]

-----------------------------------------------------------------------------
(* The epoll instance.                                                     *)

Wakes(f) == IF Contains(ready, f) THEN ready ELSE Append(ready, f)

Pollable(f) ==
  IF f = "listen" THEN backlog # <<>>
  ELSE toServer[f] # <<>> \/ peer[f] \in {"closed", "reset"}

\* epoll_wait: the first MaxEvents sockets of the ready list that still have
\* something to report, or sleep.
EpollWait ==
  /\ server = "loop" \/ (server = "blocked" /\ ready # <<>>)
  /\ LET live == Keep(ready, {f \in ToSet(ready) : Pollable(f)})
         batch == SubSeq(live, 1, Min({MaxEvents, Len(live)}))
         rest == SubSeq(live, Len(batch) + 1, Len(live))
     IN /\ events' = batch
        /\ server' = IF batch = <<>> THEN "blocked" ELSE "batch"
        /\ ready' = IF Contains(batch, "listen") THEN Append(rest, "listen") ELSE rest
  /\ UNCHANGED <<force_quit, interrupts, memory, history,
                 backlog, peer, toServer, toClient, sent>>

\* The turn of the loop over events[] that handles socket f.
Turn(f) == server = "batch" /\ Head(events) = f
\* Mutant: the loop runs while n <= nfds.
TurnDoneOneMore ==
  /\ events' = Tail(events) /\ server' = "batch"
  /\ UNCHANGED <<force_quit, interrupts>>
TurnDone ==
  /\ events' = Tail(events)
  /\ server' = IF Len(events) = 1 THEN "loop" ELSE "batch"
  /\ UNCHANGED <<force_quit, interrupts>>
Dies ==
  /\ server' = "died" /\ events' = <<>>
  /\ UNCHANGED <<force_quit, interrupts>>

\* accept(), a new client object, EPOLL_CTL_ADD: the socket is reported at once
\* if something has arrived on it already.
AcceptClient ==
  /\ Turn("listen")
  /\ backlog # <<>>
  /\ LET c == Head(backlog) IN
       /\ clients' = Append(clients, c)
       /\ state' = [state EXCEPT ![c] = "Accept"]
       /\ ready' = IF Pollable(c) THEN Wakes(c) ELSE ready
  /\ backlog' = Tail(backlog)
  /\ TurnDone
  /\ UNCHANGED <<channel, history, peer, toServer, toClient, sent>>

-----------------------------------------------------------------------------
(* A client socket.                                                        *)

\* Mutant: recv() is given a buffer for a single line.
ReceivedOne(c) == SubSeq(toServer[c], 1, 1)

\* recv() takes what is there, up to the size of the buffer, and the handler
\* looks at the words of the first line.
Received(c) == SubSeq(toServer[c], 1, Min({RecvLines, Len(toServer[c])}))
Recv(c) ==
  /\ Turn(c)
  /\ toServer[c] # <<>>
  /\ toServer' = [toServer EXCEPT ![c] = SubSeq(@, Len(Received(c)) + 1, Len(@))]
  /\ UNCHANGED <<backlog, peer, sent>>
First(c) == Head(toServer[c])

\* A line too short for the handler is read beyond its last word: if that does
\* not end the process it matches nothing.
Unmatched(c) == First(c) \in {<<"OTHER">>, <<"SHORT">>}

\* The handler's sends and the state it leaves, unless a send ends the process.
\* A socket that is closed leaves the epoll instance.
Handle(sends, newState, newChannel, newClients) ==
  \E all \in {sends} : \E done \in {Accepted(all)} :
    /\ Transmit(done)
    /\ ready' = Keep(ready, {"listen"} \cup ToSet(newClients))
    /\ IF done = all
         THEN /\ TurnDone
              /\ state' = newState /\ channel' = newChannel /\ clients' = newClients
         ELSE Dies /\ UNCHANGED memory

\* Mutant: the channel is not compared.
AudienceEverywhere(st, ch, r) == Keep(clients, {d \in Clients : st[d] = "Open"})

\* The open clients of a channel, in the order of the vector.
Audience(st, ch, r) ==
  Keep(clients, {d \in Clients : st[d] = "Open" /\ ch[d] = r})
Others(c) == Keep(Audience(state, channel, channel[c]), Clients \ {c})

Authenticate(c) ==
  /\ state[c] \in {"Accept", "Auth"}
  /\ Recv(c) /\ First(c) = <<"AUTH">>
  /\ LET opened == [state EXCEPT ![c] = "Open"] IN
       Handle(To(c, <<<<"REPLY", "OK">>>>)
                \o ToEach(Audience(opened, channel, Default), <<"JOINED", c>>),
              opened, channel, clients)

RefuseAuth(c) ==
  /\ state[c] \in {"Accept", "Auth"}
  /\ Recv(c) /\ First(c) # <<"AUTH">>
  /\ Handle(To(c, <<<<"REPLY", "NOK">>>>),
            [state EXCEPT ![c] = "Auth"], channel, clients)

\* Everything received after the keyword IS is forwarded: the lines that came
\* with the message too.
ForwardMessage(c) ==
  /\ state[c] = "Open"
  /\ Recv(c) /\ First(c) = <<"MSG">>
  /\ LET raw == [i \in 1 .. Len(Received(c)) - 1 |-> <<"RAW">> \o Received(c)[i + 1]]
         text == <<<<"SAID", c>>>> \o raw
     IN Handle([i \in DOMAIN Others(c) |-> [to |-> Others(c)[i], lines |-> text]],
               state, channel, clients)

\* Mutant: the old channel is not told that the client left.
JoinChannelSilently(c) ==
  /\ state[c] = "Open"
  /\ Recv(c) /\ First(c)[1] = "JOIN"
  /\ LET r == First(c)[2]
         moved == [channel EXCEPT ![c] = r]
     IN Handle(To(c, <<<<"REPLY", "OK">>>>)
                 \o ToEach(Audience(state, moved, r), <<"JOINED", c>>),
               state, moved, clients)

JoinChannel(c) ==
  /\ state[c] = "Open"
  /\ Recv(c) /\ First(c)[1] = "JOIN"
  /\ LET r == First(c)[2]
         moved == [channel EXCEPT ![c] = r]
     IN Handle(To(c, <<<<"REPLY", "OK">>>>)
                 \o ToEach(Others(c), <<"LEFT", c>>)
                 \o ToEach(Audience(state, moved, r), <<"JOINED", c>>),
               state, moved, clients)

RefuseJoin(c) ==
  /\ state[c] = "Open"
  /\ Recv(c) /\ First(c) = <<"BADJOIN">>
  /\ Handle(To(c, <<<<"REPLY", "NOK">>>>), state, channel, clients)

\* Mutant: the client is not removed from the vector.
LeaveServerKeepsClient(c, farewell) ==
  Handle(farewell \o ToEach(Others(c), <<"LEFT", c>>),
         [state EXCEPT ![c] = "End"], channel, clients)

\* leaveServer(): tell the channel, close the socket, remove the client.
LeaveServer(c, farewell) ==
  Handle(farewell \o ToEach(Others(c), <<"LEFT", c>>),
         [state EXCEPT ![c] = "End"], channel, Keep(clients, Clients \ {c}))

ClientErr(c) ==
  /\ state[c] = "Open"
  /\ Recv(c) /\ First(c) = <<"ERR">>
  /\ LeaveServer(c, To(c, <<<<"BYE">>>>))

ClientBye(c) ==
  /\ state[c] = "Open"
  /\ Recv(c) /\ First(c) = <<"BYE">>
  /\ LeaveServer(c, <<>>)

\* An unknown line, and a second AUTH.
Unexpected(c) ==
  /\ state[c] = "Open"
  /\ Recv(c) /\ (Unmatched(c) \/ First(c) = <<"AUTH">>)
  /\ LeaveServer(c, To(c, <<<<"ERROR">>>>) \o To(c, <<<<"BYE">>>>))

\* words[] is indexed beyond its end.
ShortLine(c) ==
  /\ Recv(c) /\ First(c) = <<"SHORT">>
  /\ Dies
  /\ UNCHANGED <<memory, history, toClient, ready>>

\* recv() returns 0, and words[0] of an empty vector is read; or it fails.
Vanished(c) ==
  /\ Turn(c)
  /\ toServer[c] = <<>>
  /\ Dies
  /\ UNCHANGED <<memory, network, history>>

ServerTurn(c) ==
  \/ Authenticate(c) \/ RefuseAuth(c) \/ ForwardMessage(c) \/ JoinChannel(c)
  \/ RefuseJoin(c) \/ ClientErr(c) \/ ClientBye(c) \/ Unexpected(c)
  \/ ShortLine(c) \/ Vanished(c)

Server == EpollWait \/ AcceptClient \/ \E c \in Clients : ServerTurn(c)

-----------------------------------------------------------------------------
(* SIGINT.                                                                 *)

\* epoll_wait fails with EINTR: BYE to everybody, close everything, exit.
Shutdown ==
  /\ server = "blocked" /\ ready = <<>>
  /\ interrupts < MaxInterrupts
  /\ interrupts' = interrupts + 1
  /\ force_quit' = TRUE
  /\ events' = <<>>
  /\ Transmit(Accepted(ToEach(clients, <<"BYE">>)))
  /\ IF Accepted(ToEach(clients, <<"BYE">>)) = ToEach(clients, <<"BYE">>)
       THEN /\ server' = "stopped"
            /\ state' = [c \in Clients |-> IF Contains(clients, c) THEN "End" ELSE state[c]]
            /\ clients' = <<>>
            /\ UNCHANGED channel
       ELSE server' = "died" /\ UNCHANGED memory
  /\ UNCHANGED <<backlog, ready, peer, toServer, sent>>

\* The signal arrives anywhere else in the loop: only the flag is set.
FlagOnly ==
  /\ Running /\ (server = "blocked" => ready # <<>>)
  /\ interrupts < MaxInterrupts
  /\ interrupts' = interrupts + 1
  /\ force_quit' = TRUE
  /\ UNCHANGED <<server, events, memory, network, history>>

-----------------------------------------------------------------------------
(* The other end of the connections, and the kernel between.               *)

Connect(c) ==
  /\ Running
  /\ peer[c] = "away"
  /\ peer' = [peer EXCEPT ![c] = "connected"]
  /\ backlog' = Append(backlog, c)
  /\ ready' = Wakes("listen")
  /\ UNCHANGED <<process, memory, toServer, toClient, sent, history>>

\* The socket is in the epoll set.
Registered(c) == Contains(clients, c)

SendLine(c, line) ==
  /\ Running
  /\ peer[c] = "connected" /\ state[c] # "End"
  /\ sent < MaxLines /\ Len(toServer[c]) < MaxUnread
  /\ sent' = sent + 1
  /\ toServer' = [toServer EXCEPT ![c] = Append(@, line)]
  /\ ready' = IF Registered(c) THEN Wakes(c) ELSE ready
  /\ UNCHANGED <<process, memory, backlog, peer, toClient, history>>

ReadLines(c) ==
  /\ peer[c] = "connected"
  /\ toClient[c] # <<>>
  /\ toClient' = [toClient EXCEPT ![c] = <<>>]
  /\ UNCHANGED <<process, memory, backlog, ready, peer, toServer, sent, history>>

\* close(): a FIN, or a RST when lines have not been read.
CloseSocket(c) ==
  /\ Running
  /\ peer[c] = "connected"
  /\ peer' = [peer EXCEPT ![c] = IF toClient[c] = <<>> THEN "closed" ELSE "reset"]
  /\ ready' = IF Registered(c) THEN Wakes(c) ELSE ready
  /\ UNCHANGED <<process, memory, backlog, toServer, toClient, sent, history>>

\* A line sent to a closed socket is answered with a RST.
PeerReset(c) ==
  /\ Running
  /\ peer[c] = "closed" /\ toClient[c] # <<>>
  /\ peer' = [peer EXCEPT ![c] = "reset"]
  /\ ready' = IF Registered(c) THEN Wakes(c) ELSE ready
  /\ UNCHANGED <<process, memory, backlog, toServer, toClient, sent, history>>

AnyClient(c) ==
  \/ Connect(c) \/ ReadLines(c) \/ CloseSocket(c) \/ PeerReset(c)
  \/ \E line \in Lines : SendLine(c, line)

Next ==
  \/ Server \/ Shutdown \/ FlagOnly
  \/ \E c \in Clients : AnyClient(c)

Spec == ServerInit /\ [][Next]_serverVars

\* The server process runs whenever it can.
FairSpec == Spec /\ WF_serverVars(Server)

-----------------------------------------------------------------------------
(* Properties.                                                             *)

ServerLines ==
  {<<"REPLY", "OK">>, <<"REPLY", "NOK">>, <<"ERROR">>, <<"BYE">>}
    \cup ({"JOINED", "LEFT", "SAID"} \X Clients)
    \cup {<<"RAW">> \o line : line \in ClientLines}

\* Every variable keeps its range; the loop over events[] ends with its last event;
\* a socket never holds more than its buffer.
TypeOK ==
  /\ server \in {"loop", "blocked", "batch", "stopped", "died"}
  /\ (server = "batch") = (events # <<>>)
  /\ Len(events) <= MaxEvents
  /\ force_quit = (interrupts > 0) /\ interrupts <= MaxInterrupts
  /\ state \in [Clients -> {"none", "Accept", "Auth", "Open", "End"}]
  /\ channel \in [Clients -> Channels]
  /\ peer \in [Clients -> {"away", "connected", "closed", "reset"}]
  /\ ToSet(events) \cup ToSet(ready) \subseteq Clients \cup {"listen"}
  /\ \A c \in Clients :
       /\ ToSet(toServer[c]) \subseteq ClientLines /\ Len(toServer[c]) <= MaxUnread
       /\ ToSet(toClient[c]) \subseteq ServerLines /\ Len(toClient[c]) <= SendBuffer

\* main() looks the socket of an event up in the vector and gives up the rest of
\* events[] when it is not there: it is always there.  The vector holds each
\* accepted client once, and nobody that has left.
BatchRegistered ==
  /\ \A f \in ToSet(events) \ {"listen"} : Registered(f)
  /\ \A i, j \in DOMAIN clients : clients[i] = clients[j] => i = j
  /\ \A c \in Clients : Registered(c) <=> state[c] \in {"Accept", "Auth", "Open"}

\* Nothing that arrives is left lying on an edge-triggered socket, as long as it
\* fits into one recv(): it is on the ready list or in the batch being handled.
NoLostWakeup ==
  RecvLines >= MaxUnread =>
    \A c \in Clients :
      Registered(c) /\ Running /\ toServer[c] # <<>>
        => Contains(ready, c) \/ Contains(events, c)

\* The vector, the states and the channels implement the chat rooms.
room == [c \in Clients |-> IF Running /\ state[c] = "Open" THEN channel[c] ELSE Outside]
Rooms == INSTANCE ChatRoom

\* Whatever order the events come in, what clients are told of who is in their
\* channel is consistent: see RosterKnown.
RosterConsistent == Rooms!RosterKnown

\* Each handler is one step of a chat room, or the end of the server.
RoomsKept == Rooms!Spec

\* Ctrl-C ends the server.
InterruptStops == force_quit ~> ~Running
=============================================================================
