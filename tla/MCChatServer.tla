---------------------------- MODULE MCChatServer ----------------------------
(* Small instances of ChatServer for TLC.                                  *)
EXTENDS ChatServer

\* Connections are interchangeable (safety runs only).
ClientSymmetry == Permutations(Clients)


AllLines == ClientLines
RoomLines == {<<"AUTH">>, <<"MSG">>, <<"BYE">>} \cup ({"JOIN"} \X Channels)
FewLines == {<<"AUTH">>, <<"OTHER">>}

\* Arbitrary clients do not look at what they read, so of an unread line only
\* its existence matters; what it says is in view.  Once the server has ended
\* only reading is left, and mail never decides anything.
ServerView ==
  IF Running
    THEN <<process, memory, backlog, ready, peer, toServer, sent, view,
           [c \in Clients |-> Len(toClient[c])]>>
    ELSE <<server>>
=============================================================================
