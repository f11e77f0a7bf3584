----------------------------- MODULE StompClient -----------------------------
(***************************************************************************)
(* The threads of the C++ client: main(), which logs the first user in,    *)
(* runForKeyboard(), which main() starts after it, and runForSocket().     *)
(* They share the flags loggedIn, connected and shut, the socket, and one  *)
(* mutex with its condition variable.  The flags are written without the   *)
(* mutex; a read sees the last write here.                                 *)
(*                                                                         *)
(* The server is what StompBroker and the thread-per-client server let a   *)
(* client see: it answers frames in order, and may refuse some of them.    *)
(*                                                                         *)
(* Left out: subscription and receipt ids, the maps of channels and game   *)
(* summaries, and the command summary, none of which decides about a       *)
(* session; and what is printed.                                           *)
(***************************************************************************)
EXTENDS Naturals, Sequences

CONSTANTS MaxLogins,  \* logins at the keyboard after main()'s
          MaxFlight,  \* frames on their way when a command may add one, at most
          Null

ASSUME BoundsAssumption == MaxLogins \in Nat /\ MaxFlight \in Nat

VARIABLES
  (* shared by the threads *)
    loggedIn, connected, shut,
  (* the socket, the frames on their way, and whether the server has closed *)
    sock, up, down, ended,
  (* where the threads are: kb is main() and then runForKeyboard() *)
    kb, so,
    frame,   \* the frame the keyboard thread is about to send
    logins   \* how many logins there were at the keyboard

flags == <<loggedIn, connected, shut>>
net == <<sock, up, down, ended>>
keyboard == <<kb, frame, logins>>
vars == <<flags, net, keyboard, so>>

Requests == {"CONNECT", "SUBSCRIBE", "UNSUBSCRIBE", "SEND", "DISCONNECT"}
Replies == {"CONNECTED", "RECEIPT", "MESSAGE", "ERROR", ""}

\* Where the socket thread waits for a login.  When it has seen its predicate fail
\* it holds the mutex until it sleeps.  A notification reaches only sleepers.
Waiting == {"test", "blocking", "asleep"}
Notified(pc) == IF pc = "asleep" THEN "test" ELSE pc

-----------------------------------------------------------------------------
(* The server.  It puts a NUL of its own behind the one most frames end in,  *)
(* so that the client reads an empty frame after them.                       *)

Answer(frames, last) == [frames |-> frames, last |-> last]
Refusal == Answer(<<"ERROR", "">>, TRUE)
Receipt == Answer(<<"RECEIPT", "">>, FALSE)

\* Every frame may be refused: a login that is given up before its CONNECT leaves a
\* connection on which the server takes no other.
Answers == [
    CONNECT     |-> {Answer(<<"CONNECTED", "">>, FALSE), Refusal},
    SUBSCRIBE   |-> {Receipt, Answer(<<>>, FALSE), Refusal},
    UNSUBSCRIBE |-> {Receipt, Refusal},
    SEND        |-> {Answer(<<"MESSAGE">>, FALSE), Refusal},
    DISCONNECT  |-> {Answer(<<"RECEIPT", "">>, TRUE), Refusal}]

Serve ==
    /\ up # <<>> /\ ~ended
    /\ up' = Tail(up)
    /\ \E answer \in Answers[Head(up)] :
          /\ down' = down \o answer.frames
          /\ ended' = answer.last
    /\ UNCHANGED <<flags, sock, keyboard, so>>

\* The connection breaks, or an exception ends the server's thread for it.
Break ==
    /\ sock = "open" /\ ~ended
    /\ ended' = TRUE
    /\ UNCHANGED <<flags, sock, up, down, keyboard, so>>

-----------------------------------------------------------------------------
(* main() and runForKeyboard() *)

\* main() spins until the first CONNECTED, and starts the keyboard thread.
StartKeyboard ==
    /\ kb = "spin" /\ connected
    /\ kb' = "command"
    /\ UNCHANGED <<flags, net, frame, logins, so>>

\* login: connect() may fail, and the command goes on all the same.
Login ==
    /\ kb = "command" /\ ~loggedIn /\ logins < MaxLogins
    /\ logins' = logins + 1
    /\ \/ /\ sock = "closed"
          /\ sock' = "open" /\ up' = <<>> /\ down' = <<>> /\ ended' = FALSE
       \/ UNCHANGED net
    /\ kb' = "notify"
    /\ UNCHANGED <<flags, frame, so>>

\* loggedIn is set and notified without the mutex.  A login without a name or a
\* passcode is given up only after that.
NotifySocket ==
    /\ kb = "notify"
    /\ loggedIn' = TRUE
    /\ so' = Notified(so)
    /\ \/ kb' = "send" /\ frame' = "CONNECT"
       \/ kb' = "command" /\ UNCHANGED frame
    /\ UNCHANGED <<connected, shut, net, logins>>

\* waitForCONNECTED.wait(lk, connected), with the mutex.  connected is set before
\* the keyboard thread starts and never reset, so that wait() does not sleep.
TestConnected ==
    /\ kb = "test" /\ so # "blocking" /\ connected
    /\ kb' = "finish"
    /\ UNCHANGED <<flags, net, frame, logins, so>>

FinishLogin ==
    /\ kb = "finish"
    /\ shut' = FALSE
    /\ kb' = "command"
    /\ UNCHANGED <<loggedIn, connected, net, frame, logins, so>>

\* Mutant: any word is sent to the server as it was typed.
Request_Verbatim ==
    /\ kb = "command" /\ loggedIn /\ Len(up) + Len(down) < MaxFlight
    /\ frame' \in {"join", "exit", "report"}
    /\ kb' = "send"
    /\ UNCHANGED <<flags, net, logins, so>>

\* join, exit and report.
Request ==
    /\ kb = "command" /\ loggedIn /\ Len(up) + Len(down) < MaxFlight
    /\ frame' \in {"SUBSCRIBE", "UNSUBSCRIBE", "SEND"}
    /\ kb' = "send"
    /\ UNCHANGED <<flags, net, logins, so>>

Logout ==
    /\ kb = "command" /\ loggedIn /\ Len(up) + Len(down) < MaxFlight
    /\ shut' = TRUE
    /\ frame' = "DISCONNECT"
    /\ kb' = "send"
    /\ UNCHANGED <<loggedIn, connected, net, logins, so>>

\* sendFrameAscii(): a write to a closed socket fails, which nobody looks at.
SendFrame ==
    /\ kb = "send"
    /\ up' = IF sock = "open" THEN Append(up, frame) ELSE up
    /\ kb' = IF frame = "CONNECT" THEN "test" ELSE "command"
    /\ frame' = Null
    /\ UNCHANGED <<flags, sock, down, ended, logins, so>>

-----------------------------------------------------------------------------
(* runForSocket() *)

\* Mutant: an ERROR is printed, and that is all.
ReadFrame_PrintsError ==
    /\ so = "read" /\ sock = "open" /\ down # <<>>
    /\ down' = Tail(down)
    /\ connected' = (connected \/ Head(down) = "CONNECTED")
    /\ so' = "check"
    /\ UNCHANGED <<loggedIn, shut, sock, up, ended, keyboard>>

\* A frame is read and dealt with.
ReadFrame ==
    /\ so = "read" /\ sock = "open" /\ down # <<>>
    /\ down' = Tail(down)
    /\ connected' = (connected \/ Head(down) = "CONNECTED")
    /\ shut' = (shut \/ Head(down) = "ERROR")
    /\ so' = "check"
    /\ UNCHANGED <<loggedIn, sock, up, ended, keyboard>>

\* Mutant: a failed read is tried again at once.
ReadFails_Retry ==
    /\ so = "read"
    /\ sock = "closed" \/ (ended /\ down = <<>>)
    /\ UNCHANGED vars

\* getFrameAscii() fails, and leaves an empty frame.
ReadFails ==
    /\ so = "read"
    /\ sock = "closed" \/ (ended /\ down = <<>>)
    /\ so' = "check"
    /\ UNCHANGED <<flags, net, keyboard>>

CheckShut ==
    /\ so = "check"
    /\ so' = IF shut THEN "close" ELSE "read"
    /\ UNCHANGED <<flags, net, keyboard>>

\* Mutant: loggedIn is reset before the socket is closed.
CloseSocket_LogsOutFirst ==
    /\ so = "close"
    /\ loggedIn' = FALSE
    /\ so' = "logout"
    /\ UNCHANGED <<connected, shut, net, keyboard>>

CloseSocket ==
    /\ so = "close"
    /\ sock' = "closed" /\ up' = <<>> /\ down' = <<>> /\ UNCHANGED ended
    /\ so' = "logout"
    /\ UNCHANGED <<flags, keyboard>>

LogOut ==
    /\ so = "logout"
    /\ loggedIn' = FALSE
    /\ so' = "test"
    /\ UNCHANGED <<connected, shut, net, keyboard>>

\* waitForCONNECTED.wait(lk, loggedIn)
TestLoggedIn ==
    /\ so = "test"
    /\ so' = IF loggedIn THEN "read" ELSE "blocking"
    /\ UNCHANGED <<flags, net, keyboard>>

SleepSocket ==
    /\ so = "blocking"
    /\ so' = "asleep"
    /\ UNCHANGED <<flags, net, keyboard>>

\* wait() may return without a notification; it then tests its predicate again.
WakeUp ==
    /\ so = "asleep"
    /\ so' = Notified(so)
    /\ UNCHANGED <<flags, net, keyboard>>

-----------------------------------------------------------------------------

\* main() has connected, started the socket thread and sent CONNECT.
Init ==
    /\ loggedIn = TRUE /\ connected = FALSE /\ shut = FALSE
    /\ sock = "open" /\ up = <<"CONNECT">> /\ down = <<>> /\ ended = FALSE
    /\ kb = "spin" /\ frame = Null /\ logins = 0
    /\ so = "read"

\* What the keyboard thread does by itself, once it has a command.
Keyboard == StartKeyboard \/ NotifySocket \/ FinishLogin \/ SendFrame
Socket == \/ ReadFrame \/ ReadFails \/ CheckShut
          \/ CloseSocket \/ LogOut \/ TestLoggedIn \/ SleepSocket

Next ==
    \/ Serve \/ Break
    \/ Login \/ Request \/ Logout \/ Keyboard \/ TestConnected
    \/ Socket \/ WakeUp

\* The threads and the server run, and the keyboard thread gets the mutex when it
\* is free again and again.  Nobody has to type, and no wakeup without a
\* notification has to happen.
Fairness ==
    /\ WF_vars(Serve)
    /\ WF_vars(Keyboard) /\ SF_vars(TestConnected)
    /\ WF_vars(Socket)

Spec == Init /\ [][Next]_vars /\ Fairness

-----------------------------------------------------------------------------

TypeOK ==
    /\ loggedIn \in BOOLEAN /\ connected \in BOOLEAN /\ shut \in BOOLEAN
    /\ ended \in BOOLEAN
    /\ sock \in {"open", "closed"}
    /\ up \in Seq(Requests)
    /\ down \in Seq(Replies)
    /\ kb \in {"spin", "command", "notify", "send", "test", "finish"}
    /\ so \in {"read", "check", "close", "logout"} \cup Waiting
    /\ frame \in Requests \cup {Null}
    /\ logins \in 0..MaxLogins

\* A login finds the old socket closed, so that connect() opens a new one: the
\* socket thread has closed it before the keyboard thread may know.
LoginFindsSocketClosed ==
    kb = "command" /\ ~loggedIn => sock = "closed"

\* After logout the socket is closed, also when no receipt comes because the
\* connection broke, unless the socket thread sleeps over a missed notification.
LogoutCloses ==
    kb = "send" /\ frame = "DISCONNECT" ~> sock = "closed" \/ so = "asleep"

\* Whoever is told "you got disconnected please login again" is logged out: nobody
\* resets shut again before the socket thread has acted on it.  Only a login that is
\* under way does, and the next logins do not wait for their answer.
ErrorLogsOut ==
    /\ so = "read" /\ down # <<>> /\ Head(down) = "ERROR"
    /\ kb \notin {"notify", "test", "finish"} /\ frame # "CONNECT"
    ~> ~loggedIn

-----------------------------------------------------------------------------
(* What a comment says of login and does not hold *)

\* StompProtocol.cpp:71, on the end of login: "wait for CONNECTED frame to be proccessed
\* by StompProtocol::runForSocket()".  When login goes on, its CONNECT is no longer on
\* its way to the server, nor the CONNECTED on its way back.
LoginWaitsForCONNECTED ==
    kb = "finish" =>
        /\ \A i \in DOMAIN up : up[i] # "CONNECT"
        /\ \A i \in DOMAIN down : down[i] # "CONNECTED"

=============================================================================
