----------------------------- MODULE ChatSystem -----------------------------
(***************************************************************************)
(* The chat server of IPK/secondproject with the chat clients of           *)
(* IPK/firstproject in place of arbitrary ones.  A client is one thread    *)
(* with a state machine, one buffer for the terminal and the socket, and   *)
(* an epoll instance that reports one event at a time.  An action is one   *)
(* turn of its loop: a line typed by the user or one recv(), with the      *)
(* whole handler, its send() calls included.                               *)
(***************************************************************************)
EXTENDS ChatServer

VARIABLES
  fsm,     \* the variable state of the client's main(); away, exited
  prompt,  \* the client is asleep in getline(), inside a handler
  counterForBye,  \* how often the client has asked to be authenticated
  buffer,  \* the line in buffer[]
  named,   \* displayname is not empty
  nameless \* history: who has sent a line with an empty display name

names == <<named, nameless>>
clientVars == <<fsm, prompt, counterForBye, buffer, names>>
systemVars == <<serverVars, clientVars>>

SystemInit ==
  /\ ServerInit
  /\ fsm = [c \in Clients |-> "away"]
  /\ prompt = [c \in Clients |-> FALSE]
  /\ counterForBye = [c \in Clients |-> 0]
  /\ buffer = [c \in Clients |-> <<"EMPTY">>]
  /\ named = [c \in Clients |-> FALSE]
  /\ nameless = {}

\* The server has closed the connection, or the whole process has ended.
Gone(c) == ~Running \/ state[c] = "End"

\* The handler's send() calls and the state it leaves.  A peer that is gone
\* takes the first send() and answers with a RST: a further one ends the client
\* by SIGPIPE.  A client that exits closes its socket: FIN, or RST when lines
\* are unread.
Emit(c, lines, next) ==
  /\ \E end \in {next} \cup (IF Gone(c) /\ lines # <<>> THEN {"exited"} ELSE {}) :
       /\ fsm' = [fsm EXCEPT ![c] = end]
       /\ peer' = [peer EXCEPT ![c] =
                     CASE end # "exited" -> @
                       [] end = "exited" /\ toClient'[c] = <<>> -> "closed"
                       [] OTHER -> "reset"]
  /\ toServer' = [toServer EXCEPT ![c] = @ \o lines]
  /\ ready' = IF Registered(c) /\ (toServer' # toServer \/ peer' # peer)
                THEN Wakes(c) ELSE ready
  /\ UNCHANGED <<process, memory, backlog, history>>

Start(c) ==
  /\ Connect(c)
  /\ fsm' = [fsm EXCEPT ![c] = "Start"]
  /\ UNCHANGED <<prompt, counterForBye, buffer, names>>

-----------------------------------------------------------------------------
(* The user types a line.  No fairness: the user may never do it.          *)

Typed(c, states) ==
  /\ fsm[c] \in states
  /\ sent < MaxLines
  /\ sent' = sent + 1
  /\ UNCHANGED toClient

Answers(c, line) ==
  /\ prompt' = [prompt EXCEPT ![c] = FALSE]
  /\ buffer' = [buffer EXCEPT ![c] = line]

\* Every line typed before Open clears the display name first, also while the reply to
\* an /auth is on its way; only a valid /auth sets it again.
Names(c, set) == named' = [named EXCEPT ![c] = set] /\ UNCHANGED nameless

\* Mutant: the client does not wait for the reply.
TypeAuthOptimistic(c) ==
  /\ Typed(c, {"Start", "Auth"})
  /\ Answers(c, <<"AUTH">>) /\ Names(c, TRUE)
  /\ counterForBye' = [counterForBye EXCEPT ![c] = @ + 1]
  /\ Emit(c, <<<<"AUTH">>>>, "Open")

\* A valid /auth, also while the reply to an earlier one is on its way.
TypeAuth(c) ==
  /\ Typed(c, {"Start", "Auth"})
  /\ Answers(c, <<"AUTH">>) /\ Names(c, TRUE)
  /\ counterForBye' = [counterForBye EXCEPT ![c] = @ + 1]
  /\ Emit(c, <<<<"AUTH">>>>, "Auth")

\* Mutant: the buffer is sent whatever the command was.
TypeHelpSent(c) ==
  /\ Typed(c, {"Start", "Auth"})
  /\ Answers(c, <<"OTHER">>) /\ Names(c, FALSE)
  /\ Emit(c, <<<<"OTHER">>>>, "Auth")
  /\ UNCHANGED counterForBye

\* /help leads from Start to Auth too.
TypeHelp(c) ==
  /\ Typed(c, {"Start", "Auth"})
  /\ Answers(c, <<"OTHER">>) /\ Names(c, FALSE)
  /\ Emit(c, <<>>, "Auth")
  /\ UNCHANGED counterForBye

\* BYE ends the client once it has asked to be authenticated.
TypeBye(c) ==
  /\ Typed(c, {"Auth"}) /\ counterForBye[c] > 0
  /\ Answers(c, <<"BYE">>) /\ Names(c, FALSE)
  /\ Emit(c, <<<<"BYE">>>>, "End")
  /\ UNCHANGED counterForBye

\* Anything else before Open, and BYE in Open: the handler goes round its loop
\* and waits for another line.  (The name a refused /auth leaves is cleared by it.)
TypeRefused(c) ==
  /\ Typed(c, {"Start", "Auth", "Open"})
  /\ prompt' = [prompt EXCEPT ![c] = TRUE]
  /\ buffer' = [buffer EXCEPT ![c] = IF fsm[c] = "Open" THEN <<"BYE">> ELSE <<"OTHER">>]
  /\ Names(c, IF fsm[c] = "Open" THEN named[c] ELSE FALSE)
  /\ Emit(c, <<>>, fsm[c])
  /\ UNCHANGED counterForBye

\* What the server takes a line for in which the display name is missing.  In
\* "MSG FROM  IS text" it finds the name IS, and the text in the place of IS: the line
\* is none it knows, unless that is the first word of the text, or too short when the
\* text is blank.  "JOIN channel AS" has a word less than the handler reads: the
\* server dies, or takes what it finds there for a name or for none.
OpenLines == {<<"MSG">>} \cup ({"JOIN"} \X Channels)
NamelessLines == OpenLines \cup {<<"OTHER">>, <<"SHORT">>, <<"BADJOIN">>}

TypeLine(c) ==
  /\ Typed(c, {"Open"})
  /\ \E line \in IF named[c] THEN OpenLines ELSE NamelessLines :
       Answers(c, line) /\ Emit(c, <<line>>, "Open")
  /\ nameless' = IF named[c] THEN nameless ELSE nameless \cup {c}
  /\ UNCHANGED <<counterForBye, named>>

TypeRename(c) ==
  /\ Typed(c, {"Open"})
  /\ Answers(c, <<"OTHER">>) /\ Names(c, TRUE)
  /\ Emit(c, <<>>, "Open")
  /\ UNCHANGED counterForBye

\* /help, and a line that is not valid.
TypeLocal(c) ==
  /\ Typed(c, {"Open"})
  /\ Answers(c, <<"OTHER">>)
  /\ Emit(c, <<>>, "Open")
  /\ UNCHANGED <<counterForBye, names>>

\* Ctrl-D.
TypeEof(c) ==
  /\ Typed(c, {"Start", "Auth", "Open"})
  /\ Emit(c, <<<<"BYE">>>>, "exited")
  /\ UNCHANGED <<prompt, counterForBye, buffer, names>>

User(c) ==
  \/ TypeAuth(c) \/ TypeHelp(c) \/ TypeBye(c) \/ TypeRefused(c)
  \/ TypeLine(c) \/ TypeRename(c) \/ TypeLocal(c) \/ TypeEof(c)

-----------------------------------------------------------------------------
(* The socket.                                                             *)

\* What the client takes a line for.  The server's ERROR is not the ERR that
\* the client knows.
Kind(line) ==
  CASE line[1] \in {"JOINED", "LEFT", "SAID"} -> "MSG"
    [] line[1] = "RAW" -> line[2]
    [] OTHER -> line[1]

Does(lines, next, left) == [send |-> lines, next |-> next, left |-> left]

\* Mutant: the reply is compared with the wrong word, as in Open.
ReplyIgnored(s, line) ==
  Does(<<>>, s, IF line[2] = "OK" THEN <<"OTHER">> ELSE line)

\* A reply.  The branch for a refused JOIN in Open tests the wrong word and does
\* nothing.
Reply(s, line) ==
  CASE line[2] = "OK" -> Does(<<>>, "Open", <<"OTHER">>)
    [] line[2] = "NOK" -> Does(<<>>, s, IF s = "Auth" THEN <<"OTHER">> ELSE line)

\* Mutant: a line that fits nothing is ignored.
UnknownIgnored(s) == Does(<<>>, s, <<"OTHER">>)

\* A line that fits nothing: ERROR and BYE, at once or by way of state Error.
Unknown(s) ==
  IF s = "Auth" THEN Does(<<<<"OTHER">>, <<"BYE">>>>, "exited", <<"BYE">>)
  ELSE Does(<<<<"OTHER">>>>, "Error", <<"OTHER">>)

\* The handler of a line in state s: what it sends, the next state and what it
\* leaves in the buffer.  In Start a line is received and ignored.
Reaction(s, line) ==
  CASE s = "Start" -> Does(<<>>, "Start", line)
    [] s # "Start" /\ Kind(line) = "REPLY" -> Reply(s, line)
    [] s # "Start" /\ Kind(line) = "ERR" -> Does(<<<<"BYE">>>>, "End", <<"BYE">>)
    [] s = "Open" /\ Kind(line) = "MSG" -> Does(<<>>, "Open", <<"OTHER">>)
    [] s = "Open" /\ Kind(line) = "BYE" -> Does(<<>>, "End", line)
    [] OTHER -> Unknown(s)

React(c, line) ==
  \E does \in {Reaction(fsm[c], line)} :
    /\ Emit(c, does.send, does.next)
    /\ buffer' = [buffer EXCEPT ![c] = does.left]
    /\ UNCHANGED <<prompt, counterForBye, sent, names>>

AtEpoll(c) == fsm[c] \in {"Start", "Auth", "Open"} /\ ~prompt[c]

\* recv() takes some of the lines that have arrived; only the first is looked at.
ReceiveFromServer(c) ==
  /\ AtEpoll(c) /\ toClient[c] # <<>>
  /\ \E n \in DOMAIN toClient[c] :
       toClient' = [toClient EXCEPT ![c] = SubSeq(@, n + 1, Len(@))]
  /\ React(c, Head(toClient[c]))

\* recv() returns 0: the buffer still holds an earlier line, which is handled
\* again.
HandleAgain(c) ==
  /\ AtEpoll(c) /\ toClient[c] = <<>> /\ Gone(c)
  /\ UNCHANGED toClient
  /\ React(c, buffer[c])

\* The connection was reset, because the server left a line unread or had not
\* accepted it: recv() fails.
ReceiveFails(c) ==
  /\ AtEpoll(c) /\ toClient[c] = <<>> /\ Gone(c)
  /\ toServer[c] # <<>> \/ state[c] = "none"
  /\ UNCHANGED toClient
  /\ Emit(c, <<>>, "exited")
  /\ UNCHANGED <<prompt, counterForBye, buffer, sent, names>>

\* The head of the loop in Error and in End.
LoopHead(c) ==
  /\ fsm[c] \in {"Error", "End"}
  /\ UNCHANGED toClient
  /\ Emit(c, IF fsm[c] = "Error" THEN <<<<"BYE">>>> ELSE <<>>, "exited")
  /\ UNCHANGED <<prompt, counterForBye, buffer, sent, names>>

ClientProcess(c) ==
  ReceiveFromServer(c) \/ HandleAgain(c) \/ ReceiveFails(c) \/ LoopHead(c)

SystemNext ==
  \/ (Server \/ Shutdown \/ FlagOnly) /\ UNCHANGED clientVars
  \/ \E c \in Clients :
       \/ Start(c) \/ User(c) \/ ClientProcess(c)
       \/ PeerReset(c) /\ UNCHANGED clientVars

SystemSpec == SystemInit /\ [][SystemNext]_systemVars

\* The server and each client run whenever they can.
FairSystem ==
  /\ SystemSpec
  /\ WF_systemVars(Server /\ UNCHANGED clientVars)
  /\ \A c \in Clients : WF_systemVars(ClientProcess(c))

-----------------------------------------------------------------------------
(* Properties.                                                             *)

\* The two ends agree on Open: a client is in Open, or has sent a line of that
\* state, only after the server has opened it.
OpenAgreed ==
  \A c \in Clients :
    fsm[c] = "Open" \/ (\E line \in ToSet(toServer[c]) : line[1] \in {"MSG", "JOIN"})
      => state[c] \in {"Open", "End"} \/ ~Running

\* A client that has asked to be authenticated gets out of Auth, unless its user
\* keeps it waiting for input or the server ends.
AuthAnswered ==
  \A c \in Clients :
    (fsm[c] = "Auth" /\ counterForBye[c] > 0) ~> (fsm[c] # "Auth" \/ prompt[c] \/ ~Running)

\* A client beyond Start ends after the server has closed its connection, unless its
\* user keeps it waiting for input or the last line it has read is a NOK in Open: the
\* branch for it does nothing, the line stays in the buffer, and every recv() that
\* returns 0 handles it again.
Spins(c) == fsm[c] = "Open" /\ buffer[c] = <<"REPLY", "NOK">>

ClientEnds ==
  \A c \in Clients :
    (Gone(c) /\ fsm[c] \in {"Auth", "Open", "Error", "End"})
      ~> (fsm[c] = "exited" \/ prompt[c] \/ Spins(c))

\* The server refuses a line of such a client, by NOK or by ERROR, only for one of two
\* causes: the client has sent a line with an empty display name, which it does once
\* it has been opened after its user has typed another line behind the /auth; or it
\* has asked twice, and the second AUTH meets state Open.
RefusedForCause ==
  \A c \in Clients : fsm[c] \in {"Auth", "Open"} =>
    /\ <<"REPLY", "NOK">> \in ToSet(toClient[c]) => c \in nameless
    /\ <<"ERROR">> \in ToSet(toClient[c]) => c \in nameless \/ counterForBye[c] > 1

\* The clients of IPK/firstproject do not bring the server down: it ends only by
\* sending BYE to everybody.
ServerSurvives == server # "died"
=============================================================================
