-------------------------- MODULE StompClientProofs --------------------------
(* Theorems about StompClient, for every bound on logins and frames. *)
EXTENDS StompClient, TLAPS

\* While the socket thread works it finds loggedIn set, as nobody else resets
\* it, so no login can begin; and once it has closed the socket nobody opens it
\* before loggedIn is reset.
SocketThreadOwnsLogout ==
    /\ so \notin Waiting => loggedIn
    /\ so = "logout" => sock = "closed"

\* Between a reset of loggedIn and the end of the next connect() the socket is
\* closed, wherever the keyboard thread is in an earlier login.
ClosedWhileLoggedOut == ~loggedIn /\ kb # "notify" => sock = "closed"

\* The keyboard thread sends only when it has a frame.
FrameReady == kb = "send" => frame \in Requests

IInv == TypeOK /\ SocketThreadOwnsLogout /\ ClosedWhileLoggedOut /\ FrameReady

LEMMA InitInv == Init => IInv
<1> SUFFICES ASSUME Init PROVE IInv
    OBVIOUS
<1>1. <<"CONNECT">> \in Seq(Requests) /\ <<>> \in Seq(Replies)
    BY DEF Requests
<1>2. up \in Seq(Requests) /\ down \in Seq(Replies)
    BY <1>1 DEF Init
<1>3. logins \in 0..MaxLogins
    BY BoundsAssumption DEF Init
<1>4. /\ loggedIn \in BOOLEAN /\ connected \in BOOLEAN /\ shut \in BOOLEAN
      /\ ended \in BOOLEAN /\ sock \in {"open", "closed"}
    BY DEF Init
<1>5. /\ kb \in {"spin", "command", "notify", "send", "test", "finish"}
      /\ so \in {"read", "check", "close", "logout"} \cup Waiting
      /\ frame \in Requests \cup {Null}
    BY DEF Init
<1>6. TypeOK
    BY <1>2, <1>3, <1>4, <1>5 DEF TypeOK
<1> QED
    BY <1>6 DEF Init, IInv, SocketThreadOwnsLogout, ClosedWhileLoggedOut,
                FrameReady, Waiting

\* The answers to a request are frames.
LEMMA AnswersReplies ==
    ASSUME NEW request \in Requests
    PROVE  Answers[request] \subseteq [frames : Seq(Replies), last : BOOLEAN]
<1>1. /\ <<"CONNECTED", "">> \in Seq(Replies) /\ <<"ERROR", "">> \in Seq(Replies)
      /\ <<"RECEIPT", "">> \in Seq(Replies) /\ <<"MESSAGE">> \in Seq(Replies)
      /\ <<>> \in Seq(Replies)
    BY DEF Replies
<1>2. \A frames \in Seq(Replies), last \in BOOLEAN :
        Answer(frames, last) \in [frames : Seq(Replies), last : BOOLEAN]
    BY DEF Answer
<1>3. CASE request = "CONNECT"
  <2>1. Answers["CONNECT"] = {Answer(<<"CONNECTED", "">>, FALSE), Refusal}
      BY DEF Answers
  <2> QED
      BY <1>1, <1>2, <1>3, <2>1 DEF Refusal
<1>4. CASE request = "SUBSCRIBE"
  <2>1. Answers["SUBSCRIBE"] = {Receipt, Answer(<<>>, FALSE), Refusal}
      BY DEF Answers
  <2> QED
      BY <1>1, <1>2, <1>4, <2>1 DEF Receipt, Refusal
<1>5. CASE request = "UNSUBSCRIBE"
  <2>1. Answers["UNSUBSCRIBE"] = {Receipt, Refusal}
      BY DEF Answers
  <2> QED
      BY <1>1, <1>2, <1>5, <2>1 DEF Receipt, Refusal
<1>6. CASE request = "SEND"
  <2>1. Answers["SEND"] = {Answer(<<"MESSAGE">>, FALSE), Refusal}
      BY DEF Answers
  <2> QED
      BY <1>1, <1>2, <1>6, <2>1 DEF Refusal
<1>7. CASE request = "DISCONNECT"
  <2>1. Answers["DISCONNECT"] = {Answer(<<"RECEIPT", "">>, TRUE), Refusal}
      BY DEF Answers
  <2> QED
      BY <1>1, <1>2, <1>7, <2>1 DEF Refusal
<1> QED
    BY <1>3, <1>4, <1>5, <1>6, <1>7 DEF Requests

LEMMA ServerInv ==
    ASSUME IInv, Serve \/ Break
    PROVE  IInv'
<1> USE DEF IInv, TypeOK, SocketThreadOwnsLogout, ClosedWhileLoggedOut, FrameReady, flags, keyboard
<1>1. CASE Serve
  <2>1. Head(up) \in Requests /\ Tail(up) \in Seq(Requests)
      BY <1>1 DEF Serve
  <2>2. PICK answer \in Answers[Head(up)] : down' = down \o answer.frames /\ ended' = answer.last
      BY <1>1 DEF Serve
  <2>3. down' \in Seq(Replies) /\ ended' \in BOOLEAN
      BY <2>1, <2>2, AnswersReplies
  <2> QED
      BY <1>1, <2>1, <2>3 DEF Serve
<1>2. CASE Break
    BY <1>2 DEF Break
<1> QED
    BY <1>1, <1>2

LEMMA KeyboardInv ==
    ASSUME IInv, Login \/ Request \/ Logout \/ Keyboard \/ TestConnected
    PROVE  IInv'
<1> USE DEF IInv, TypeOK, SocketThreadOwnsLogout, ClosedWhileLoggedOut, FrameReady, flags, net, Waiting
<1>1. CASE Login
  <2>1. <<>> \in Seq(Requests) /\ <<>> \in Seq(Replies) /\ logins' \in 0..MaxLogins
      BY <1>1, BoundsAssumption DEF Login
  <2> QED
      BY <1>1, <2>1 DEF Login
<1>2. CASE Request \/ Logout
    BY <1>2 DEF Request, Logout, Requests
<1>3. CASE StartKeyboard \/ FinishLogin \/ TestConnected
    BY <1>3 DEF StartKeyboard, FinishLogin, TestConnected
<1>4. CASE NotifySocket
    BY <1>4 DEF NotifySocket, Notified, Requests
<1>5. CASE SendFrame
    BY <1>5 DEF SendFrame
<1> QED
    BY <1>1, <1>2, <1>3, <1>4, <1>5 DEF Keyboard

LEMMA SocketInv ==
    ASSUME IInv, Socket \/ WakeUp
    PROVE  IInv'
<1> USE DEF IInv, TypeOK, SocketThreadOwnsLogout, ClosedWhileLoggedOut, FrameReady, flags, net, keyboard, Waiting
<1>1. CASE ReadFrame
  <2>1. down' \in Seq(Replies)
      BY <1>1 DEF ReadFrame
  <2>2. connected' \in BOOLEAN /\ shut' \in BOOLEAN
      BY <1>1 DEF ReadFrame
  <2> QED
      BY <1>1, <2>1, <2>2 DEF ReadFrame
<1>2. CASE ReadFails \/ CheckShut \/ SleepSocket \/ TestLoggedIn
    BY <1>2 DEF ReadFails, CheckShut, SleepSocket, TestLoggedIn
<1>3. CASE CloseSocket
    BY <1>3 DEF CloseSocket
<1>4. CASE LogOut
    BY <1>4 DEF LogOut
<1>5. CASE WakeUp
    BY <1>5 DEF WakeUp, Notified
<1> QED
    BY <1>1, <1>2, <1>3, <1>4, <1>5 DEF Socket

LEMMA NextInv == IInv /\ [Next]_vars => IInv'
<1> SUFFICES ASSUME IInv, [Next]_vars PROVE IInv'
    OBVIOUS
<1>1. CASE UNCHANGED vars
    BY <1>1 DEF vars, flags, net, keyboard, IInv, TypeOK, SocketThreadOwnsLogout,
                ClosedWhileLoggedOut, FrameReady
<1> QED
    BY <1>1, ServerInv, KeyboardInv, SocketInv DEF Next

\* Every variable of the client keeps its type.
THEOREM TypeCorrect == Spec => []TypeOK
<1>1. IInv => TypeOK
    BY DEF IInv
<1> QED
    BY <1>1, InitInv, NextInv, PTL DEF Spec

\* A login at the keyboard always finds the old socket closed.
THEOREM LoginsFindSocketClosed == Spec => []LoginFindsSocketClosed
<1>1. IInv => LoginFindsSocketClosed
    BY DEF IInv, ClosedWhileLoggedOut, LoginFindsSocketClosed
<1> QED
    BY <1>1, InitInv, NextInv, PTL DEF Spec

=============================================================================
