------------------------------- MODULE Presence -------------------------------
(***************************************************************************)
(* The message gateway (src/src/message): who is online, as the            *)
(* ConnectedUser table has it, and the delivery of messages.  The gateway  *)
(* handles connecting, disconnecting, joining a room and sending in        *)
(* callbacks that do not wait for each other; each awaits one database     *)
(* call.  A message is a number, its content is left out.  A socket has a  *)
(* new id for every connection.                                            *)
(***************************************************************************)
EXTENDS Integers, FiniteSets

CONSTANTS
    Users,          \* users with a token
    Sockets,        \* bound: connections made
    MaxMessages     \* bound: messages sent

VARIABLES
    used,           \* sockets that connected so far
    up,             \* connected sockets
    owner,          \* whose token each socket showed
    connections,    \* rows of the ConnectedUser table
    adding,         \* sockets whose addConnection is under way
    updating,       \* sockets whose updateConnection is under way
    rooms,          \* <<socket, user>>: the socket joined the user's room
    sending,        \* handleMessage under way
    history,        \* rows of the Message table
    received,       \* <<socket, id>>: messages emitted to a socket
    sent,           \* messages sent so far
    \* Observed only by the properties:
    early,          \* sockets updated while their row was being added
    lost            \* sockets an update will never come for: it failed, or
                    \* the server died

presenceVars == <<used, up, owner, connections, adding, updating, rooms, sending,
                  history, received, sent, early, lost>>

\* Both tables, and what is sent, as handlers hold them.
Connections == [socket: Sockets, user: Users, online: BOOLEAN]
Messages == [id: Nat, sender: Users, receiver: Users]

PresenceTypeOK ==
    /\ used \subseteq Sockets
    /\ up \subseteq used
    /\ owner \in [Sockets -> Users]
    /\ connections \subseteq Connections
    /\ adding \subseteq Sockets
    /\ updating \subseteq Sockets
    /\ rooms \subseteq Sockets \X Users
    /\ sending \subseteq [message: Messages, phase: {"create", "emit"}]
    /\ history \subseteq Messages
    /\ received \subseteq Sockets \X Messages
    /\ sent \in Nat
    /\ early \subseteq Sockets
    /\ lost \subseteq Sockets

PresenceInit ==
    /\ used = {} /\ up = {} /\ owner \in [Sockets -> Users]
    /\ connections = {} /\ adding = {} /\ updating = {}
    /\ rooms = {} /\ sending = {} /\ history = {} /\ received = {} /\ sent = 0
    /\ early = {} /\ lost = {}

messageVars == <<sending, history, received, sent>>

-----------------------------------------------------------------------------
(* Connections                                                             *)

\* handleConnection with a good token, up to its await.  (Without one the
\* socket is disconnected at once and there is no row to update.)
Connect(s) ==
    /\ s \notin used
    /\ used' = used \cup {s}
    /\ up' = up \cup {s}
    /\ adding' = adding \cup {s}
    /\ UNCHANGED <<owner, connections, updating, rooms, messageVars, early, lost>>

AddConnection(s) ==
    /\ s \in adding
    /\ adding' = adding \ {s}
    /\ connections' = connections \cup {[socket |-> s, user |-> owner[s], online |-> TRUE]}
    /\ UNCHANGED <<used, up, owner, updating, rooms, messageVars, early, lost>>

\* The create fails: handleConnection disconnects the socket.
FailConnection(s) ==
    /\ s \in adding
    /\ adding' = adding \ {s}
    /\ up' = up \ {s}
    /\ updating' = updating \cup {t \in {s} : s \in up}
    /\ rooms' = {r \in rooms : r[1] # s}
    /\ UNCHANGED <<used, owner, connections, messageVars, early, lost>>

\* The socket goes; handleDisconnect, up to its await.  socket.io takes it out
\* of its rooms.
Disconnect(s) ==
    /\ s \in up
    /\ up' = up \ {s}
    /\ updating' = updating \cup {s}
    /\ rooms' = {r \in rooms : r[1] # s}
    /\ UNCHANGED <<used, owner, connections, adding, messageVars, early, lost>>

\* Mutant: the user's other rows are taken.
RowsOfOther(s) == {c \in connections : c.user = owner[s] /\ c.socket # s}

\* The rows updateMany writes.
RowsOf(s) == {c \in connections : c.socket = s}

UpdateConnection(s) ==
    /\ s \in updating
    /\ updating' = updating \ {s}
    /\ connections' = (connections \ RowsOf(s))
                         \cup {[c EXCEPT !.online = FALSE] : c \in RowsOf(s)}
    /\ early' = early \cup {t \in {s} : s \in adding}
    /\ UNCHANGED <<used, up, owner, adding, rooms, messageVars, lost>>

\* The update fails; nothing comes back to it.
FailUpdate(s) ==
    /\ s \in updating
    /\ updating' = updating \ {s}
    /\ lost' = lost \cup {s}
    /\ UNCHANGED <<used, up, owner, connections, adding, rooms, messageVars, early>>

-----------------------------------------------------------------------------
(* Messages                                                                *)

\* handleJoin: any room, that of another user included.
Join(s, u) ==
    /\ s \in up
    /\ rooms' = rooms \cup {<<s, u>>}
    /\ UNCHANGED <<used, up, owner, connections, adding, updating, messageVars, early, lost>>

\* handleMessage, up to its await; the sender is the one of the token.
Send(s, u) ==
    /\ s \in up
    /\ sent < MaxMessages
    /\ sent' = sent + 1
    /\ sending' = sending \cup
         {[message |-> [id |-> sent + 1, sender |-> owner[s], receiver |-> u],
           phase |-> "create"]}
    /\ UNCHANGED <<used, up, owner, connections, adding, updating, rooms, history, received,
                   early, lost>>

CreateMessage(q) ==
    /\ q.phase = "create"
    /\ history' = history \cup {q.message}
    /\ sending' = (sending \ {q}) \cup {[q EXCEPT !.phase = "emit"]}
    /\ UNCHANGED <<used, up, owner, connections, adding, updating, rooms, received, sent,
                   early, lost>>

\* Mutant: the error is swallowed.
AfterFailureEmit(q) == (sending \ {q}) \cup {[q EXCEPT !.phase = "emit"]}

\* The error of the create ends the handler: the message goes to nobody.
AfterFailure(q) == sending \ {q}

FailMessage(q) ==
    /\ q.phase = "create"
    /\ sending' = AfterFailure(q)
    /\ UNCHANGED <<used, up, owner, connections, adding, updating, rooms, history, received,
                   sent, early, lost>>

\* To whoever is in the room of the receiver now.
Emit(q) ==
    /\ q.phase = "emit"
    /\ received' = received \cup
         {<<s, q.message>> : s \in {s \in up : <<s, q.message.receiver>> \in rooms}}
    /\ sending' = sending \ {q}
    /\ UNCHANGED <<used, up, owner, connections, adding, updating, rooms, history, sent,
                   early, lost>>

\* The server dies and is started again; what was under way is gone.
Crash ==
    /\ lost' = lost \cup up \cup adding \cup updating
    /\ up' = {} /\ adding' = {} /\ updating' = {} /\ rooms' = {} /\ sending' = {}
    /\ UNCHANGED <<used, owner, connections, history, received, sent, early>>

PresenceNext ==
    \/ \E s \in Sockets : \/ Connect(s)
                          \/ AddConnection(s)
                          \/ FailConnection(s)
                          \/ Disconnect(s)
                          \/ UpdateConnection(s)
                          \/ FailUpdate(s)
    \/ \E s \in Sockets, u \in Users : Join(s, u) \/ Send(s, u)
    \/ \E q \in sending : CreateMessage(q) \/ FailMessage(q) \/ Emit(q)
    \/ Crash

-----------------------------------------------------------------------------
(* Properties                                                              *)

\* Who is shown ONLINE is connected, or its update is under way, or the update
\* ran before handleConnection had created the row, or will never run: these
\* are the only ways for a row to stay ONLINE for good.
OnlineIsUp ==
    \A c \in connections : c.online => c.socket \in up \cup updating \cup early \cup lost

\* Who is shown OFFLINE is gone: disconnecting one socket does not take the
\* user's others with it.
OfflineIsDown == \A c \in connections : ~c.online => c.socket \notin up

\* The table and the sockets agree, in both directions.
StatusAgrees == OnlineIsUp /\ OfflineIsDown

\* Whatever a socket received is in the history that ChatController answers,
\* even if the server died while it was sent.
ReceivedIsInHistory == \A r \in received : r[2] \in history
=============================================================================
