----------------------- MODULE StompBrokerThreadsProofs -----------------------
(* Theorems about StompBrokerThreads, for any number of connections, users   *)
(* and channels.                                                             *)
EXTENDS StompBrokerThreads, ListLemmas

-----------------------------------------------------------------------------
(* The inductive invariant *)

\* A user object that is in use has been made.
Accounts ==
    /\ \A u \in Users : userToData[u] # Null => userData[userToData[u]] # Null
    /\ \A c \in Conns : currUser[c] # Null => userData[currUser[c]] # Null

Login   == {"addUser", "isCorrectPassword", "isUserLoggedIn", "getUser", "logUser", "addUserName"}
Naming  == {"logUser", "addUserName"}
Leaving == {"nSubscribers", "dropChannel", "removeSubscriber"}
OnChannel == Leaving \cup {"isSubscribed", "createChannel", "addSubscriber", "addChannel",
                           "removeChannel", "send", "getSubscribers"}
Session == OnChannel \cup {"next", "getSubId", "containsKey", "deliver", "leave", "logOut",
                           "clear", "leaveAll", "removeClient", "removeName"}

\* What a thread has at its label: the frame's headers, a user, a name, and somebody
\* behind the name.
Standing(c) ==
    /\ pc[c] \in Login => frame[c].user # Null /\ frame[c].passcode # Null
    /\ pc[c] \in Login \ {"addUser"} => userToData[frame[c].user] # Null
    /\ pc[c] \in Session \cup Naming => currUser[c] # Null
    /\ pc[c] \in OnChannel => frame[c].channel # Null
    /\ pc[c] \in Leaving => frame[c].command \in {"UNSUBSCRIBE", "DISCONNECT"}
    /\ pc[c] = "leave" => frame[c].command = "DISCONNECT"
    /\ pc[c] = "isSubscribed" => frame[c].command \in {"SUBSCRIBE", "SEND", "UNSUBSCRIBE"}
    /\ currUser[c] # Null /\ pc[c] \notin Naming \cup {"terminated"} => connToName[c] # Null
    /\ connToName[c] # Null => userToData[connToName[c]] # Null

\* An iterator over a list that has not changed is within it.
Turns == \A c \in Conns : ~it[c].stale => it[c].cursor <= Len(it[c].list)

\* A thread that is about to add its connection to a list: it is not there, for nobody
\* else adds it.
NotYetListed ==
    \A c \in Conns : At(c, "addSubscriber") => ~OnList(channel(c), c)

IInv == /\ TypeOK /\ Accounts /\ Turns
        /\ \A c \in Conns : Standing(c)
        /\ ListedOnce /\ NotYetListed

-----------------------------------------------------------------------------
(* Steps in general *)

\* The other threads are where they were, with their frames, users and names.
OthersStay(c) ==
    \A d \in Conns \ {c} :
        /\ pc'[d] = pc[d] /\ frame'[d] = frame[d]
        /\ currUser'[d] = currUser[d] /\ connToName'[d] = connToName[d]

UsersStay == \A u \in Users : userToData[u] # Null => userToData'[u] # Null

\* Nobody but c is put on a list.
ListsShrink(c) ==
    \A d \in Conns \ {c}, ch \in Channels :
        chanNameToChanData'[ch] # Null /\ d \in ToSet(chanNameToChanData'[ch]) => OnList(ch, d)

\* What c has to see to in a step of its own.
Own(c) ==
    /\ Standing(c)'
    /\ pc'[c] = "addSubscriber" =>
          ~(/\ chanNameToChanData'[frame'[c].channel] # Null
            /\ c \in ToSet(chanNameToChanData'[frame'[c].channel]))

LEMMA ThreadStep ==
    ASSUME IInv, NEW c \in Conns, TypeOK', Accounts', Turns', ListedOnce',
           OthersStay(c), UsersStay, ListsShrink(c), Own(c)
    PROVE  IInv'
<1>1. ASSUME NEW d \in Conns \ {c} PROVE Standing(d)'
  <2>1. Standing(d) /\ frame[d] \in Frame /\ connToName[d] \in Users \cup {Null}
      BY DEF IInv, TypeOK
  <2>2. frame[d].user \in Users \cup {Null}
      BY <2>1 DEF Frame
  <2> QED
      BY <2>1, <2>2, NullAssumption DEF OthersStay, UsersStay, Standing, Login
<1>2. ASSUME NEW d \in Conns \ {c}, pc'[d] = "addSubscriber"
      PROVE  ~(/\ chanNameToChanData'[frame'[d].channel] # Null
               /\ d \in ToSet(chanNameToChanData'[frame'[d].channel]))
  <2>1. pc[d] = "addSubscriber" /\ frame'[d] = frame[d]
      BY <1>2 DEF OthersStay
  <2>2. frame[d].channel \in Channels
      BY <2>1, NullAssumption DEF IInv, TypeOK, Standing, OnChannel, Frame
  <2>3. ~OnList(frame[d].channel, d)
      BY <2>1 DEF IInv, NotYetListed, At, channel
  <2> QED
      BY <2>1, <2>2, <2>3 DEF ListsShrink
<1> QED
    BY <1>1, <1>2 DEF IInv, NotYetListed, At, channel, OnList, Own

\* A step that changes nothing but where c is and c's frame.
LEMMA LocalStep ==
    ASSUME IInv, NEW c \in Conns, NEW l \in Labels, NEW f \in Frame,
           pc' = [pc EXCEPT ![c] = l], frame' = [frame EXCEPT ![c] = f],
           visited' \in [Conns -> SUBSET Channels],
           UNCHANGED <<registry, chanNameToChanData, userData, currUser, it>>,
           Standing(c)',
           l = "addSubscriber" => ~OnList(f.channel, c)
    PROVE  IInv'
<1> USE DEF registry
<1>1. TypeOK'
    BY DEF IInv, TypeOK
<1>2. Accounts' /\ Turns' /\ ListedOnce'
    BY DEF IInv, Accounts, Turns, ListedOnce
<1>3. OthersStay(c) /\ UsersStay /\ ListsShrink(c)
    BY DEF OthersStay, UsersStay, ListsShrink, OnList, IInv, TypeOK
<1>4. pc'[c] = l /\ frame'[c] = f
    BY DEF IInv, TypeOK
<1> QED
    BY <1>1, <1>2, <1>3, <1>4, ThreadStep DEF Own, OnList

LEMMA LookStep ==
    ASSUME IInv, NEW c \in Conns, NEW l \in Labels, NEW here, Look(c, here, l),
           Standing(c)',
           l = "addSubscriber" => ~OnList(frame[c].channel, c)
    PROVE  IInv'
<1>1. frame[c] \in Frame /\ frame' = [frame EXCEPT ![c] = frame[c]]
    BY DEF Look, locals, IInv, TypeOK
<1>2. visited' \in [Conns -> SUBSET Channels] /\ pc' = [pc EXCEPT ![c] = l]
    BY DEF Look, Goto, locals, IInv, TypeOK
<1> QED
    BY <1>1, <1>2, LocalStep DEF Look

\* Where a thread is after it has looked, and what it has there.
LEMMA LookStanding ==
    ASSUME IInv, NEW c \in Conns, NEW l \in Labels, NEW here, Look(c, here, l)
    PROVE  /\ pc'[c] = l /\ pc[c] = here
           /\ UNCHANGED <<frame, userToData, connToName, currUser>>
           /\ Standing(c) /\ frame[c] \in Frame
BY DEF Look, Goto, At, locals, registry, IInv, TypeOK

-----------------------------------------------------------------------------
(* Steps that only look *)

LEMMA LooksInv ==
    ASSUME IInv, NEW c \in Conns,
           \/ isCorrectPassword(c) \/ isUserLoggedIn(c) \/ isSubscribed(c)
           \/ nSubscribers(c) \/ NoSubscriptionLeft(c) \/ sendToChannel(c)
           \/ containsKey(c) \/ ERROR(c) \/ AllLeft(c) \/ Break(c)
    PROVE  IInv'
<1>1. CASE isCorrectPassword(c)
  <2>1. PICK l \in {"isUserLoggedIn", "error"} : Look(c, "isCorrectPassword", l)
      BY <1>1 DEF isCorrectPassword
  <2>2. l \in Labels
      BY <2>1 DEF Labels
  <2>3. /\ pc'[c] = l /\ pc[c] = "isCorrectPassword" /\ Standing(c)
        /\ UNCHANGED <<frame, userToData, connToName, currUser>>
      BY <2>1, <2>2, LookStanding
  <2>4. Standing(c)'
      BY <2>1, <2>3 DEF Standing, Login, Naming, Leaving, OnChannel, Session
  <2> QED
      BY <2>1, <2>2, <2>4, LookStep
<1>2. CASE isUserLoggedIn(c)
  <2>1. PICK l \in {"getUser", "error"} : Look(c, "isUserLoggedIn", l)
      BY <1>2 DEF isUserLoggedIn
  <2>2. l \in Labels
      BY <2>1 DEF Labels
  <2>3. /\ pc'[c] = l /\ pc[c] = "isUserLoggedIn" /\ Standing(c)
        /\ UNCHANGED <<frame, userToData, connToName, currUser>>
      BY <2>1, <2>2, LookStanding
  <2>4. Standing(c)'
      BY <2>1, <2>3 DEF Standing, Login, Naming, Leaving, OnChannel, Session
  <2> QED
      BY <2>1, <2>2, <2>4, LookStep
<1>3. CASE isSubscribed(c)
  <2> DEFINE l == IF ~exists(c) THEN "thrown"
                  ELSE IF c \in ToSet(list(c))
                  THEN Subscribed[command(c)] ELSE NotSubscribed[command(c)]
  <2>1. Look(c, "isSubscribed", l)
      BY <1>3 DEF isSubscribed
  <2>2. pc[c] = "isSubscribed"
      BY <2>1 DEF Look, At
  <2>3. frame[c].command \in {"SUBSCRIBE", "SEND", "UNSUBSCRIBE"}
      BY <2>2 DEF IInv, Standing
  <2>4. /\ l \in {"thrown", "done", "send", "nSubscribers", "addSubscriber", "error"}
        /\ l = "nSubscribers" => frame[c].command = "UNSUBSCRIBE"
        /\ l = "addSubscriber" => ~OnList(frame[c].channel, c)
      BY <2>3 DEF Subscribed, NotSubscribed, command, OnList, exists, list, channel
  <2> HIDE DEF l
  <2>5. l \in Labels
      BY <2>4 DEF Labels
  <2>6. /\ pc'[c] = l /\ Standing(c)
        /\ UNCHANGED <<frame, userToData, connToName, currUser>>
      BY <2>1, <2>5, LookStanding
  <2>7. Standing(c)'
      BY <2>2, <2>4, <2>6 DEF Standing, Login, Naming, Leaving, OnChannel, Session
  <2> QED
      BY <2>1, <2>4, <2>5, <2>7, LookStep
<1>4. CASE nSubscribers(c)
  <2>1. PICK l \in {"thrown", "dropChannel", "removeSubscriber"} : Look(c, "nSubscribers", l)
      BY <1>4 DEF nSubscribers
  <2>2. l \in Labels
      BY <2>1 DEF Labels
  <2>3. /\ pc'[c] = l /\ pc[c] = "nSubscribers" /\ Standing(c)
        /\ UNCHANGED <<frame, userToData, connToName, currUser>>
      BY <2>1, <2>2, LookStanding
  <2>4. Standing(c)'
      BY <2>1, <2>3 DEF Standing, Login, Naming, Leaving, OnChannel, Session
  <2> QED
      BY <2>1, <2>2, <2>4, LookStep
<1>5. CASE NoSubscriptionLeft(c)
  <2>1. Look(c, "leave", "logOut") /\ "logOut" \in Labels
      BY <1>5 DEF NoSubscriptionLeft, Labels
  <2>2. /\ pc'[c] = "logOut" /\ pc[c] = "leave" /\ Standing(c)
        /\ UNCHANGED <<frame, userToData, connToName, currUser>>
      BY <2>1, LookStanding
  <2>3. Standing(c)'
      BY <2>2 DEF Standing, Login, Naming, Leaving, OnChannel, Session
  <2> QED
      BY <2>1, <2>3, LookStep
<1>6. CASE sendToChannel(c)
  <2>1. PICK l \in {"getSubscribers", "done"} : Look(c, "send", l)
      BY <1>6 DEF sendToChannel
  <2>2. l \in Labels
      BY <2>1 DEF Labels
  <2>3. /\ pc'[c] = l /\ pc[c] = "send" /\ Standing(c)
        /\ UNCHANGED <<frame, userToData, connToName, currUser>>
      BY <2>1, <2>2, LookStanding
  <2>4. Standing(c)'
      BY <2>1, <2>3 DEF Standing, Login, Naming, Leaving, OnChannel, Session
  <2> QED
      BY <2>1, <2>2, <2>4, LookStep
<1>7. CASE containsKey(c)
  <2>1. PICK l \in {"deliver", "next"} : Look(c, "containsKey", l)
      BY <1>7 DEF containsKey
  <2>2. l \in Labels
      BY <2>1 DEF Labels
  <2>3. /\ pc'[c] = l /\ pc[c] = "containsKey" /\ Standing(c)
        /\ UNCHANGED <<frame, userToData, connToName, currUser>>
      BY <2>1, <2>2, LookStanding
  <2>4. Standing(c)'
      BY <2>1, <2>3 DEF Standing, Login, Naming, Leaving, OnChannel, Session
  <2> QED
      BY <2>1, <2>2, <2>4, LookStep
<1>8. CASE ERROR(c)
  <2>1. PICK l \in {"terminated", "logOut"} :
            Look(c, "error", l) /\ (l = "logOut" => currUser[c] # Null)
      BY <1>8 DEF ERROR
  <2>2. l \in Labels
      BY <2>1 DEF Labels
  <2>3. /\ pc'[c] = l /\ pc[c] = "error" /\ Standing(c)
        /\ UNCHANGED <<frame, userToData, connToName, currUser>>
      BY <2>1, <2>2, LookStanding
  <2>4. Standing(c)'
      BY <2>1, <2>3 DEF Standing, Login, Naming, Leaving, OnChannel, Session
  <2> QED
      BY <2>1, <2>2, <2>4, LookStep
<1>9. CASE AllLeft(c)
  <2>1. Look(c, "leaveAll", "removeClient") /\ "removeClient" \in Labels
      BY <1>9 DEF AllLeft, Labels
  <2>2. /\ pc'[c] = "removeClient" /\ pc[c] = "leaveAll" /\ Standing(c)
        /\ UNCHANGED <<frame, userToData, connToName, currUser>>
      BY <2>1, LookStanding
  <2>3. Standing(c)'
      BY <2>2 DEF Standing, Login, Naming, Leaving, OnChannel, Session
  <2> QED
      BY <2>1, <2>3, LookStep
<1>10. CASE Break(c)
  <2>1. Look(c, "idle", "thrown") /\ "thrown" \in Labels
      BY <1>10 DEF Break, Labels
  <2>2. /\ pc'[c] = "thrown" /\ pc[c] = "idle" /\ Standing(c)
        /\ UNCHANGED <<frame, userToData, connToName, currUser>>
      BY <2>1, LookStanding
  <2>3. Standing(c)'
      BY <2>2 DEF Standing, Login, Naming, Leaving, OnChannel, Session
  <2> QED
      BY <2>1, <2>3, LookStep
<1> QED
    BY <1>1, <1>2, <1>3, <1>4, <1>5, <1>6, <1>7, <1>8, <1>9, <1>10

-----------------------------------------------------------------------------
(* Frames begin and end *)

LEMMA ConnectInv ==
    ASSUME IInv, NEW c \in Conns, NEW u \in Users, NEW p \in Passcodes, Connect(c, u, p)
    PROVE  IInv'
<1> DEFINE f == [frame[c] EXCEPT !.user = u, !.passcode = p]
<1>1. frame[c] \in Frame /\ Standing(c)
    BY DEF IInv, TypeOK
<1>2. f \in Frame /\ f.user = u /\ f.passcode = p
    BY <1>1 DEF Frame
<1>3. PICK l \in {"addUser", "isCorrectPassword"} :
          /\ pc' = [pc EXCEPT ![c] = l] /\ frame' = [frame EXCEPT ![c] = f]
          /\ l = "isCorrectPassword" => userToData[u] # Null
    BY DEF Connect, Goto
<1>4. /\ UNCHANGED <<registry, chanNameToChanData, userData, currUser, it>>
      /\ visited' \in [Conns -> SUBSET Channels] /\ pc[c] = "idle" /\ currUser[c] = Null
    BY DEF Connect, At, IInv, TypeOK
<1> HIDE DEF f
<1>5. Standing(c)'
  <2>1. pc'[c] = l /\ frame'[c] = f
      BY <1>3 DEF IInv, TypeOK
  <2> QED
      BY <1>1, <1>2, <1>3, <1>4, <2>1, NullAssumption
         DEF Standing, Login, Naming, Leaving, OnChannel, Session, registry
<1> QED
    BY <1>2, <1>3, <1>4, <1>5, LocalStep DEF Labels

LEMMA BeginInv ==
    ASSUME IInv, NEW c \in Conns, NEW type, NEW ch \in Channels \cup {Null}, NEW l,
           Begin(c, type, ch, l),
           \/ type = "SUBSCRIBE" /\ ch # Null /\ l \in {"createChannel", "isSubscribed"}
           \/ type = "SEND" /\ ch # Null /\ l \in {"error", "isSubscribed"}
           \/ type = "UNSUBSCRIBE" /\ ch # Null /\ l \in {"error", "isSubscribed"}
           \/ type = "DISCONNECT" /\ l = "leave"
    PROVE  IInv'
<1> DEFINE f == [frame[c] EXCEPT !.command = type, !.channel = ch]
<1>1. frame[c] \in Frame /\ Standing(c)
    BY DEF IInv, TypeOK
<1>2. f \in Frame /\ f.command = type /\ f.channel = ch
    BY <1>1 DEF Frame
<1>3. pc' = [pc EXCEPT ![c] = l] /\ frame' = [frame EXCEPT ![c] = f]
    BY DEF Begin, Goto
<1>4. /\ UNCHANGED <<registry, chanNameToChanData, userData, currUser, it>>
      /\ visited' \in [Conns -> SUBSET Channels] /\ pc[c] = "idle" /\ currUser[c] # Null
    BY DEF Begin, At, IInv, TypeOK
<1> HIDE DEF f
<1>5. Standing(c)'
  <2>1. pc'[c] = l /\ frame'[c] = f
      BY <1>3 DEF IInv, TypeOK
  <2> QED
      BY <1>1, <1>2, <1>3, <1>4, <2>1, NullAssumption
         DEF Standing, Login, Naming, Leaving, OnChannel, Session, registry
<1> QED
    BY <1>2, <1>3, <1>4, <1>5, LocalStep DEF Labels

LEMMA ReceiveInv ==
    ASSUME IInv, NEW c \in Conns, Receive(c)
    PROVE  IInv'
<1>1. CASE \E u \in Users, p \in Passcodes : Connect(c, u, p)
    BY <1>1, ConnectInv
<1>2. ASSUME NEW ch \in Channels, Subscribe(c, ch) \/ Send(c, ch) \/ Unsubscribe(c, ch)
      PROVE  IInv'
    BY <1>2, BeginInv, NullAssumption DEF Subscribe, Send, Unsubscribe
<1>3. CASE Disconnect(c)
    BY <1>3, BeginInv DEF Disconnect
<1> QED
    BY <1>1, <1>2, <1>3 DEF Receive

\* Done() as a step of its own, or with a step that changes data.
LEMMA DoneState ==
    ASSUME IInv, NEW c \in Conns, Done(c)
    PROVE  /\ pc' = [pc EXCEPT ![c] = "idle"] /\ frame' = [frame EXCEPT ![c] = NoFrame]
           /\ visited' = [visited EXCEPT ![c] = {}]
           /\ NoFrame \in Frame
           /\ pc' \in [Conns -> Labels] /\ frame' \in [Conns -> Frame]
           /\ visited' \in [Conns -> SUBSET Channels]
           /\ pc'[c] = "idle" /\ frame'[c] = NoFrame
BY DEF Done, Goto, NoFrame, Frame, Labels, IInv, TypeOK

LEMMA EndHandlerInv ==
    ASSUME IInv, NEW c \in Conns, EndHandler(c)
    PROVE  IInv'
<1>1. /\ Done(c) /\ pc[c] = "done" /\ Standing(c)
      /\ UNCHANGED <<registry, chanNameToChanData, userData, currUser, it>>
    BY DEF EndHandler, At, IInv
<1>2. Standing(c)'
    BY <1>1, DoneState DEF Standing, Login, Naming, Leaving, OnChannel, Session, registry
<1> QED
    BY <1>1, <1>2, DoneState, LocalStep DEF Labels

LEMMA NextSubscriptionInv ==
    ASSUME IInv, NEW c \in Conns, NextSubscription(c)
    PROVE  IInv'
<1>1. PICK ch \in mySubs(c) \ visited[c] :
          /\ visited' = [visited EXCEPT ![c] = @ \cup {ch}]
          /\ frame' = [frame EXCEPT ![c].channel = ch]
    BY DEF NextSubscription
<1>2. /\ pc[c] = "leave" /\ pc' = [pc EXCEPT ![c] = "nSubscribers"]
      /\ UNCHANGED <<registry, chanNameToChanData, userData, currUser, it>>
    BY DEF NextSubscription, At, Goto
<1>3. Standing(c) /\ frame[c] \in Frame
    BY DEF IInv, TypeOK
<1>4. ch \in Channels
  <2>1. currUser[c] # Null
      BY <1>2, <1>3 DEF Standing, Session
  <2>2. userData[currUser[c]] \in UserData
      BY <2>1 DEF IInv, TypeOK, Accounts
  <2> QED
      BY <1>1, <2>2 DEF mySubs, UserData
<1> DEFINE f == [frame[c] EXCEPT !.channel = ch]
<1>5. f \in Frame /\ f.channel = ch /\ f.command = frame[c].command
    BY <1>3, <1>4 DEF Frame
<1>6. frame' = [frame EXCEPT ![c] = f]
    BY <1>1
<1> HIDE DEF f
<1>7. visited' \in [Conns -> SUBSET Channels]
    BY <1>1, <1>4 DEF IInv, TypeOK
<1>8. Standing(c)'
  <2>1. pc'[c] = "nSubscribers" /\ frame'[c] = f
      BY <1>2, <1>6 DEF IInv, TypeOK
  <2> QED
      BY <1>2, <1>3, <1>4, <1>5, <2>1, NullAssumption
         DEF Standing, Login, Naming, Leaving, OnChannel, Session, registry
<1> QED
    BY <1>2, <1>5, <1>6, <1>7, <1>8, LocalStep DEF Labels

-----------------------------------------------------------------------------
(* Steps that change users, names or handlers, and no list *)

LEMMA DataStep ==
    ASSUME IInv, NEW c \in Conns, NEW l \in Labels, l # "addSubscriber",
           pc' = [pc EXCEPT ![c] = l], frame' \in [Conns -> Frame],
           \A d \in Conns \ {c} : frame'[d] = frame[d],
           visited' \in [Conns -> SUBSET Channels],
           UNCHANGED <<chanNameToChanData, it>>,
           clientsToCH' \in SUBSET Conns,
           userToData' \in [Users -> Conns \cup {Null}],
           connToName' \in [Conns -> Users \cup {Null}],
           userData' \in [Conns -> UserData \cup {Null}],
           currUser' \in [Conns -> Conns \cup {Null}],
           \A d \in Conns \ {c} : currUser'[d] = currUser[d] /\ connToName'[d] = connToName[d],
           UsersStay, Accounts', Standing(c)'
    PROVE  IInv'
<1>1. TypeOK'
    BY DEF IInv, TypeOK
<1>2. Turns' /\ ListedOnce'
    BY DEF IInv, Turns, ListedOnce
<1>3. OthersStay(c) /\ ListsShrink(c)
    BY DEF OthersStay, ListsShrink, OnList, IInv, TypeOK
<1>4. pc'[c] = l
    BY DEF IInv, TypeOK
<1> QED
    BY <1>1, <1>2, <1>3, <1>4, ThreadStep DEF Own

\* A user object written where there was one.
LEMMA WrittenData ==
    ASSUME IInv, NEW x \in Conns, userData[x] # Null, NEW new \in UserData,
           userData' = [userData EXCEPT ![x] = new], userToData' = userToData,
           currUser' = currUser
    PROVE  userData' \in [Conns -> UserData \cup {Null}] /\ Accounts' /\ UsersStay
<1>1. \A z \in Conns : userData[z] # Null => userData'[z] # Null
    BY NullAssumption DEF IInv, TypeOK
<1> QED
    BY <1>1, NullAssumption DEF IInv, TypeOK, Accounts, UsersStay

\* The user object of a session, and the one behind its name.
LEMMA SessionData ==
    ASSUME IInv, NEW c \in Conns
    PROVE  /\ pc[c] \in Session => /\ currUser[c] \in Conns
                                   /\ userData[currUser[c]] \in UserData
           /\ connToName[c] # Null => /\ userToData[connToName[c]] \in Conns
                                      /\ userData[userToData[connToName[c]]] \in UserData
           /\ pc[c] \in Session => connToName[c] # Null
<1>1. Standing(c)
    BY DEF IInv
<1>2. pc[c] \in Session => currUser[c] # Null /\ connToName[c] # Null
    BY <1>1 DEF Standing, Session, OnChannel, Leaving, Naming
<1> QED
    BY <1>1, <1>2 DEF IInv, TypeOK, Accounts, Standing

LEMMA getUserInv ==
    ASSUME IInv, NEW c \in Conns, getUser(c)
    PROVE  IInv'
<1> DEFINE u == frame[c].user
<1>1. /\ pc[c] = "getUser" /\ pc' = [pc EXCEPT ![c] = "logUser"]
      /\ currUser' = [currUser EXCEPT ![c] = userToData[u]]
      /\ UNCHANGED <<registry, chanNameToChanData, userData, it, locals>>
    BY DEF getUser, At, Goto
<1>2. Standing(c) /\ frame[c] \in Frame
    BY DEF IInv, TypeOK
<1>3. u \in Users /\ userToData[u] \in Conns
    BY <1>1, <1>2 DEF Standing, Login, Frame, IInv, TypeOK
<1>4. Accounts' /\ UsersStay
    BY <1>1, <1>3 DEF IInv, TypeOK, Accounts, UsersStay, registry
<1>5. Standing(c)'
    BY <1>1, <1>2, <1>3, NullAssumption
       DEF IInv, TypeOK, Standing, Login, Naming, Leaving, OnChannel, Session, registry, locals
<1> QED
    BY <1>1, <1>3, <1>4, <1>5, DataStep DEF IInv, TypeOK, registry, locals, Labels

LEMMA logUserInv ==
    ASSUME IInv, NEW c \in Conns, logUser(c)
    PROVE  IInv'
<1> DEFINE u == frame[c].user
           x == userToData[u]
           new == [userData[x] EXCEPT !.loggedIn = TRUE]
<1>1. /\ pc[c] = "logUser" /\ pc' = [pc EXCEPT ![c] = "addUserName"]
      /\ userData' = [userData EXCEPT ![x] = new]
      /\ UNCHANGED <<registry, chanNameToChanData, currUser, it, locals>>
    BY DEF logUser, At, Goto
<1>2. Standing(c) /\ frame[c] \in Frame
    BY DEF IInv, TypeOK
<1>3. u \in Users /\ x \in Conns /\ userData[x] \in UserData
    BY <1>1, <1>2 DEF Standing, Login, Frame, IInv, TypeOK, Accounts
<1>4. new \in UserData
    BY <1>3 DEF UserData
<1>5. Standing(c)'
    BY <1>1, <1>2, <1>3, NullAssumption
       DEF IInv, TypeOK, Standing, Login, Naming, Leaving, OnChannel, Session, registry, locals
<1>6. userToData' = userToData /\ userData[x] # Null
    BY <1>1, <1>3, NullAssumption DEF registry
<1> HIDE DEF new, x
<1>7. userData' \in [Conns -> UserData \cup {Null}] /\ Accounts' /\ UsersStay
    BY <1>1, <1>3, <1>4, <1>6, WrittenData
<1> QED
    BY <1>1, <1>5, <1>7, DataStep DEF IInv, TypeOK, registry, locals, Labels

LEMMA addUserInv ==
    ASSUME IInv, NEW c \in Conns, addUser(c)
    PROVE  IInv'
<1> DEFINE u == frame[c].user
           new == [password |-> frame[c].passcode, loggedIn |-> TRUE, subs |-> {}]
<1>1. /\ pc[c] = "addUser" /\ pc' = [pc EXCEPT ![c] = "addUserName"]
      /\ userData' = [userData EXCEPT ![c] = new]
      /\ currUser' = [currUser EXCEPT ![c] = c]
      /\ userToData' = [userToData EXCEPT ![u] = c]
      /\ UNCHANGED <<clientsToCH, connToName, chanNameToChanData, it, locals>>
    BY DEF addUser, At, Goto
<1>2. Standing(c) /\ frame[c] \in Frame
    BY DEF IInv, TypeOK
<1>3. u \in Users /\ new \in UserData
    BY <1>1, <1>2 DEF Standing, Login, Frame, UserData
<1> HIDE DEF new
<1>4. userData' \in [Conns -> UserData \cup {Null}] /\ Accounts' /\ UsersStay
  <2>1. userData'[c] # Null /\ \A z \in Conns : userData[z] # Null => userData'[z] # Null
      BY <1>1, <1>3, NullAssumption DEF IInv, TypeOK
  <2> QED
      BY <1>1, <1>3, <2>1, NullAssumption DEF IInv, TypeOK, Accounts, UsersStay
<1>5. Standing(c)'
  <2>1. pc'[c] = "addUserName" /\ frame'[c] = frame[c] /\ connToName'[c] = connToName[c]
        /\ currUser'[c] = c /\ userToData'[u] = c
        /\ \A v \in Users : v # u => userToData'[v] = userToData[v]
      BY <1>1, <1>3 DEF IInv, TypeOK, locals
  <2>2. connToName[c] \in Users \cup {Null}
      BY DEF IInv, TypeOK
  <2> QED
      BY <1>1, <1>2, <1>3, <2>1, <2>2, NullAssumption
         DEF Standing, Login, Naming, Leaving, OnChannel, Session
<1> QED
    BY <1>1, <1>3, <1>4, <1>5, DataStep DEF IInv, TypeOK, locals, Labels

LEMMA addUserNameInv ==
    ASSUME IInv, NEW c \in Conns, addUserName(c)
    PROVE  IInv'
<1> DEFINE u == frame[c].user
<1>1. /\ pc[c] = "addUserName" /\ Done(c)
      /\ connToName' = [connToName EXCEPT ![c] = u]
      /\ UNCHANGED <<clientsToCH, userToData, chanNameToChanData, userData, currUser, it>>
    BY DEF addUserName, At
<1>2. Standing(c) /\ frame[c] \in Frame
    BY DEF IInv, TypeOK
<1>3. u \in Users /\ userToData[u] # Null
    BY <1>1, <1>2 DEF Standing, Login, Frame
<1>4. Accounts' /\ UsersStay
    BY <1>1 DEF IInv, Accounts, UsersStay
<1>5. connToName'[c] = u /\ u # Null
    BY <1>1, <1>3, NullAssumption DEF IInv, TypeOK
<1>6. Standing(c)'
    BY <1>1, <1>2, <1>3, <1>5, DoneState
       DEF Standing, Login, Naming, Leaving, OnChannel, Session
<1>7. /\ connToName' \in [Conns -> Users \cup {Null}]
      /\ \A d \in Conns \ {c} : frame'[d] = frame[d] /\ connToName'[d] = connToName[d]
    BY <1>1, <1>3, DoneState DEF IInv, TypeOK
<1> QED
    BY <1>1, <1>4, <1>6, <1>7, DoneState, DataStep DEF IInv, TypeOK, Labels

\* What a handler writes into the user object of its session.
LEMMA SubsInv ==
    ASSUME IInv, NEW c \in Conns, pc[c] \in Session, NEW new \in UserData,
           userData' = [userData EXCEPT ![currUser[c]] = new],
           UNCHANGED <<registry, chanNameToChanData, currUser, it>>,
           NEW l \in Session \cup {"idle"},
           l \notin OnChannel \cup {"leave"} \/ (l = "send" /\ pc[c] \in OnChannel),
           pc' = [pc EXCEPT ![c] = l],
           frame' = frame \/ (l = "idle" /\ frame' = [frame EXCEPT ![c] = NoFrame]),
           visited' \in [Conns -> SUBSET Channels]
    PROVE  IInv'
<1> USE DEF registry
<1>1. Standing(c) /\ frame[c] \in Frame
    BY DEF IInv, TypeOK
<1>2. currUser[c] \in Conns /\ userData[currUser[c]] # Null
    BY SessionData, NullAssumption
<1>4. userData' \in [Conns -> UserData \cup {Null}] /\ Accounts' /\ UsersStay
    BY <1>2, WrittenData
<1>5. NoFrame \in Frame /\ l \in Labels
    BY DEF NoFrame, Frame, Labels, Session, OnChannel, Leaving
<1>6. frame' \in [Conns -> Frame] /\ \A d \in Conns \ {c} : frame'[d] = frame[d]
    BY <1>5 DEF IInv, TypeOK
<1>7. Standing(c)'
  <2>1. pc'[c] = l /\ (l # "idle" => frame'[c] = frame[c])
      BY DEF IInv, TypeOK
  <2> QED
      BY <1>1, <2>1, SessionData DEF Standing, Login, Naming, Leaving, OnChannel, Session
<1>8. l # "addSubscriber"
    BY DEF OnChannel
<1> QED
    BY <1>4, <1>5, <1>6, <1>7, <1>8, DataStep DEF IInv, TypeOK

LEMMA SubsStepsInv ==
    ASSUME IInv, NEW c \in Conns, addChannel(c) \/ removeChannel(c) \/ logOut(c) \/ clear(c)
    PROVE  IInv'
<1> USE DEF At, Goto, locals
<1> DEFINE old == userData[currUser[c]]
<1>1. pc[c] \in {"addChannel", "removeChannel", "logOut", "clear"}
    BY DEF addChannel, removeChannel, logOut, clear
<1>2. pc[c] \in Session /\ old \in UserData /\ Standing(c)
    BY <1>1, SessionData DEF Session, OnChannel, IInv
<1>3. pc[c] \in {"addChannel", "removeChannel"} => channel(c) \in Channels
    BY <1>2 DEF Standing, OnChannel, IInv, TypeOK, Frame, channel
<1>4. visited' \in [Conns -> SUBSET Channels]
    BY DoneState DEF addChannel, removeChannel, logOut, clear, IInv, TypeOK
<1>5. CASE addChannel(c)
  <2> DEFINE new == [old EXCEPT !.subs = @ \cup {channel(c)}]
  <2>1. new \in UserData /\ userData' = [userData EXCEPT ![currUser[c]] = new]
      BY <1>2, <1>3, <1>5 DEF UserData, addChannel
  <2> HIDE DEF new
  <2> QED
      BY <1>2, <1>4, <1>5, <2>1, DoneState, SubsInv DEF addChannel, OnChannel, Leaving
<1>6. CASE removeChannel(c)
  <2> DEFINE new == [old EXCEPT !.subs = @ \ {channel(c)}]
  <2>1. new \in UserData /\ userData' = [userData EXCEPT ![currUser[c]] = new]
      BY <1>2, <1>3, <1>6 DEF UserData, removeChannel
  <2> HIDE DEF new
  <2>2. /\ pc' = [pc EXCEPT ![c] = "send"] /\ frame' = frame /\ pc[c] \in OnChannel
        /\ UNCHANGED <<registry, chanNameToChanData, currUser, it>>
      BY <1>6 DEF removeChannel, OnChannel
  <2>3. "send" \in Session \cup {"idle"}
      BY DEF OnChannel, Session
  <2> QED
      BY <1>2, <1>4, <2>1, <2>2, <2>3, SubsInv
<1>7. CASE logOut(c)
  <2> DEFINE new == [old EXCEPT !.loggedIn = FALSE]
  <2>1. new \in UserData /\ userData' = [userData EXCEPT ![currUser[c]] = new]
      BY <1>2, <1>7 DEF UserData, logOut
  <2> HIDE DEF new
  <2>2. /\ pc' = [pc EXCEPT ![c] = "clear"] /\ frame' = frame
        /\ UNCHANGED <<registry, chanNameToChanData, currUser, it>>
      BY <1>7 DEF logOut
  <2>3. "clear" \in Session /\ "clear" \notin OnChannel \cup {"leave"}
      BY DEF OnChannel, Session, Leaving
  <2> QED
      BY <1>2, <1>4, <2>1, <2>2, <2>3, SubsInv
<1>8. CASE clear(c)
  <2> DEFINE new == [old EXCEPT !.subs = {}]
  <2>1. new \in UserData /\ userData' = [userData EXCEPT ![currUser[c]] = new]
      BY <1>2, <1>8 DEF UserData, clear
  <2> HIDE DEF new
  <2>2. /\ pc' = [pc EXCEPT ![c] = "leaveAll"] /\ frame' = frame
        /\ UNCHANGED <<registry, chanNameToChanData, currUser, it>>
      BY <1>8 DEF clear
  <2>3. "leaveAll" \in Session /\ "leaveAll" \notin OnChannel \cup {"leave"}
      BY DEF OnChannel, Session, Leaving
  <2> QED
      BY <1>2, <1>4, <2>1, <2>2, <2>3, SubsInv
<1> QED
    BY <1>5, <1>6, <1>7, <1>8

LEMMA removeClientInv ==
    ASSUME IInv, NEW c \in Conns, removeClient(c) \/ removeName(c)
    PROVE  IInv'
<1> USE DEF At, Goto, locals
<1>1. PICK l \in {"removeName", "terminated"} :
          /\ pc' = [pc EXCEPT ![c] = l] /\ pc[c] \in Session
          /\ UNCHANGED <<userToData, chanNameToChanData, userData, currUser, it, frame, visited>>
          /\ clientsToCH' \in SUBSET Conns
          /\ \/ connToName' = connToName
             \/ l = "terminated" /\ connToName' = [connToName EXCEPT ![c] = Null]
    BY DEF removeClient, removeName, Session, IInv, TypeOK
<1>2. Accounts' /\ UsersStay
    BY <1>1 DEF IInv, Accounts, UsersStay
<1>3. Standing(c)'
  <2>1. pc'[c] = l /\ Standing(c)
      BY <1>1 DEF IInv, TypeOK
  <2>2. connToName'[c] = connToName[c] \/ (l = "terminated" /\ connToName'[c] = Null)
    <3>1. connToName \in [Conns -> Users \cup {Null}]
        BY DEF IInv, TypeOK
    <3> QED
        BY <1>1, <3>1
  <2> QED
      BY <1>1, <2>1, <2>2, SessionData DEF Standing, Login, Naming, Leaving, OnChannel, Session
<1>4. /\ connToName' \in [Conns -> Users \cup {Null}]
      /\ \A d \in Conns \ {c} : connToName'[d] = connToName[d]
    BY <1>1 DEF IInv, TypeOK
<1> QED
    BY <1>1, <1>2, <1>3, <1>4, DataStep DEF IInv, TypeOK, Labels

-----------------------------------------------------------------------------
(* Iterators *)

LEMMA IteratorType ==
    ASSUME NEW ch \in Channels \cup {Null}, NEW l \in Seq(Conns)
    PROVE  /\ Iterator(ch, l) \in Iterators
           /\ Iterator(ch, l).cursor <= Len(Iterator(ch, l).list)
<1>1. ToSet(l) \subseteq Conns
    BY DEF ToSet
<1>2. Len(l) \in Nat
    OBVIOUS
<1> QED
    BY <1>1, <1>2 DEF Iterator, Iterators

LEMMA IteratorStep ==
    ASSUME IInv, NEW c \in Conns, pc[c] \in Session, NEW new \in Iterators,
           it' = [it EXCEPT ![c] = new], ~new.stale => new.cursor <= Len(new.list),
           UNCHANGED <<registry, chanNameToChanData, userData, currUser>>,
           NEW l \in {"next", "getSubId", "containsKey", "thrown", "idle"},
           pc' = [pc EXCEPT ![c] = l],
           frame' = frame \/ (l = "idle" /\ frame' = [frame EXCEPT ![c] = NoFrame]),
           visited' \in [Conns -> SUBSET Channels]
    PROVE  IInv'
<1> USE DEF registry
<1>1. frame' \in [Conns -> Frame] /\ \A d \in Conns \ {c} : frame'[d] = frame[d]
    BY DEF NoFrame, Frame, IInv, TypeOK
<1>2. TypeOK'
  <2>1. pc' \in [Conns -> Labels] /\ it' \in [Conns -> Iterators]
      BY DEF Labels, IInv, TypeOK
  <2> QED
      BY <1>1, <2>1 DEF IInv, TypeOK
<1>3. Accounts' /\ ListedOnce'
    BY DEF IInv, Accounts, ListedOnce
<1>4. Turns'
    BY DEF IInv, TypeOK, Turns
<1>5. OthersStay(c) /\ UsersStay /\ ListsShrink(c)
    BY <1>1 DEF OthersStay, UsersStay, ListsShrink, OnList, IInv, TypeOK
<1>6. Own(c)
  <2>1. pc'[c] = l /\ Standing(c) /\ (l # "idle" => frame'[c] = frame[c])
      BY DEF IInv, TypeOK
  <2>2. Standing(c)'
      BY <2>1, SessionData DEF Standing, Login, Naming, Leaving, OnChannel
  <2> QED
      BY <2>1, <2>2 DEF Own
<1> QED
    BY <1>2, <1>3, <1>4, <1>5, <1>6, ThreadStep

\* A list that exists, and the channel a frame is about.
LEMMA ChannelOfFrame ==
    ASSUME IInv, NEW c \in Conns, pc[c] \in OnChannel
    PROVE  /\ channel(c) \in Channels
           /\ exists(c) => list(c) \in Seq(Conns) /\ IsInjective(list(c))
<1>1. Standing(c) /\ frame[c] \in Frame
    BY DEF IInv, TypeOK
<1>2. channel(c) \in Channels
    BY <1>1 DEF Standing, Frame, channel
<1> QED
    BY <1>2 DEF exists, list, IInv, TypeOK, ListedOnce

LEMMA IteratorStepsInv ==
    ASSUME IInv, NEW c \in Conns,
           \/ getSubscribers(c) \/ NextSubscriber(c) \/ NoSubscriberLeft(c)
           \/ ListChanged(c) \/ getSubId(c) \/ deliver(c)
    PROVE  IInv'
<1> USE DEF At, Goto, locals, Throws
<1>1. /\ it[c] \in Iterators /\ it = [it EXCEPT ![c] = it[c]]
      /\ ~it[c].stale => it[c].cursor <= Len(it[c].list)
      /\ visited \in [Conns -> SUBSET Channels]
    BY DEF IInv, TypeOK, Turns
<1>2. /\ NoIterator \in Iterators
      /\ ~NoIterator.stale => NoIterator.cursor <= Len(NoIterator.list)
  <2>1. <<>> \in Seq(Conns) /\ Null \in Channels \cup {Null}
      OBVIOUS
  <2> QED
      BY <2>1, IteratorType DEF NoIterator
<1>3. CASE getSubscribers(c)
  <2>1. pc[c] \in OnChannel /\ pc[c] \in Session
      BY <1>3 DEF getSubscribers, OnChannel, Session
  <2>2. CASE ~exists(c)
      BY <1>1, <1>3, <2>1, <2>2, IteratorStep DEF getSubscribers
  <2>3. CASE exists(c)
    <3> DEFINE new == Iterator(channel(c), list(c))
    <3>1. new \in Iterators /\ new.cursor <= Len(new.list)
        BY <2>1, <2>3, ChannelOfFrame, IteratorType
    <3>2. it' = [it EXCEPT ![c] = new]
        BY <1>3, <2>3 DEF getSubscribers
    <3> HIDE DEF new
    <3> QED
        BY <1>1, <1>3, <2>1, <2>3, <3>1, <3>2, IteratorStep DEF getSubscribers
  <2> QED
      BY <2>2, <2>3
<1>4. CASE NextSubscriber(c)
  <2> DEFINE d   == it[c].list[it[c].cursor + 1]
             new == [[[it[c] EXCEPT !.cursor = it[c].cursor + 1] EXCEPT !.member = d]
                       EXCEPT !.owed = it[c].owed \ {d}]
  <2>1. /\ pc[c] \in Session /\ hasNext(c) /\ ~it[c].stale
        /\ UNCHANGED <<registry, chanNameToChanData, userData, currUser, frame, visited>>
    <3>1. At(c, "next") /\ hasNext(c) /\ ~it[c].stale
        BY <1>4 DEF NextSubscriber
    <3>2. UNCHANGED <<registry, chanNameToChanData, userData, currUser, locals>>
        BY <1>4 DEF NextSubscriber
    <3> QED
        BY <3>1, <3>2 DEF Session
  <2>6. it' = [it EXCEPT ![c] = new]
      BY <1>4 DEF NextSubscriber
  <2>2. PICK l \in {"getSubId", "containsKey"} : pc' = [pc EXCEPT ![c] = l]
      BY <1>4 DEF NextSubscriber
  <2>3. /\ it[c].list \in Seq(Conns) /\ it[c].cursor \in Nat
        /\ it[c].cursor + 1 <= Len(it[c].list)
      BY <1>1, <2>1 DEF hasNext, Iterators
  <2>4. d \in Conns
      BY <2>3
  <2>5. /\ new \in Iterators /\ new.cursor = it[c].cursor + 1 /\ new.list = it[c].list
    <3> HIDE DEF d
    <3> DEFINE moved == [it[c] EXCEPT !.cursor = it[c].cursor + 1]
               shown == [moved EXCEPT !.member = d]
    <3>1. /\ moved \in Iterators /\ moved.owed = it[c].owed
          /\ moved.cursor = it[c].cursor + 1 /\ moved.list = it[c].list
        BY <1>1, <2>3 DEF Iterators
    <3>2. new = [shown EXCEPT !.owed = moved.owed \ {d}]
        BY <3>1
    <3> HIDE DEF moved, new
    <3>3. /\ shown \in Iterators /\ shown.owed = moved.owed
          /\ shown.cursor = moved.cursor /\ shown.list = moved.list
        BY <2>4, <3>1 DEF Iterators
    <3> HIDE DEF shown
    <3> QED
        BY <3>1, <3>2, <3>3 DEF Iterators
  <2> HIDE DEF new
  <2> QED
      BY <1>1, <2>1, <2>2, <2>3, <2>5, <2>6, IteratorStep
<1>5. CASE NoSubscriberLeft(c)
  <2>1. pc[c] \in Session
      BY <1>5 DEF NoSubscriberLeft, Session
  <2>2. /\ Done(c) /\ it' = [it EXCEPT ![c] = NoIterator]
        /\ UNCHANGED <<registry, chanNameToChanData, userData, currUser>>
      BY <1>5 DEF NoSubscriberLeft
  <2>3. /\ pc' = [pc EXCEPT ![c] = "idle"] /\ frame' = [frame EXCEPT ![c] = NoFrame]
        /\ visited' \in [Conns -> SUBSET Channels]
      BY <1>1, <2>2 DEF Done
  <2> HIDE DEF At, Goto, locals, Throws
  <2> QED
      BY <1>2, <2>1, <2>2, <2>3, IteratorStep
<1>6. CASE ListChanged(c)
  <2>1. pc[c] \in Session
      BY <1>6 DEF ListChanged, Session
  <2>2. /\ pc' = [pc EXCEPT ![c] = "thrown"] /\ it' = [it EXCEPT ![c] = NoIterator]
        /\ UNCHANGED <<registry, chanNameToChanData, userData, currUser, frame, visited>>
      BY <1>6 DEF ListChanged
  <2> HIDE DEF At, Goto, locals, Throws
  <2> QED
      BY <1>1, <1>2, <2>1, <2>2, IteratorStep
<1>7. CASE getSubId(c) \/ deliver(c)
  <2>1. PICK l \in {"thrown", "containsKey", "next"} : pc' = [pc EXCEPT ![c] = l]
      BY <1>7 DEF getSubId, deliver
  <2>2. /\ pc[c] \in Session /\ (it' = it \/ it' = [it EXCEPT ![c] = NoIterator])
        /\ UNCHANGED <<registry, chanNameToChanData, userData, currUser, frame, visited>>
      BY <1>7 DEF getSubId, deliver, Session
  <2> HIDE DEF At, Goto, locals, Throws
  <2>3. CASE it' = it
    <3>1. it' = [it EXCEPT ![c] = it[c]]
        BY <1>1, <2>3
    <3> QED
        BY <1>1, <2>1, <2>2, <3>1, IteratorStep
  <2>4. CASE it' = [it EXCEPT ![c] = NoIterator]
      BY <1>1, <1>2, <2>1, <2>2, <2>4, IteratorStep
  <2> QED
      BY <2>2, <2>3, <2>4
<1> QED
    BY <1>3, <1>4, <1>5, <1>6, <1>7

-----------------------------------------------------------------------------
(* Steps that change a list *)

\* What lists and iterators come to: the list of ch is new, and nobody but c has been
\* put on it.
Relisted(ch, c) ==
    /\ chanNameToChanData' \in [Channels -> Seq(Conns) \cup {Null}]
    /\ it' \in [Conns -> Iterators]
    /\ Turns'
    /\ \A x \in Channels \ {ch} : chanNameToChanData'[x] = chanNameToChanData[x]
    /\ chanNameToChanData'[ch] # Null =>
          /\ IsInjective(chanNameToChanData'[ch])
          /\ \A d \in Conns \ {c} : d \in ToSet(chanNameToChanData'[ch]) => OnList(ch, d)

LEMMA SetListState ==
    ASSUME IInv, NEW ch \in Channels, NEW l \in Seq(Conns), SetList(ch, l)
    PROVE  /\ chanNameToChanData' = [chanNameToChanData EXCEPT ![ch] = l]
           /\ it' \in [Conns -> Iterators] /\ Turns'
<1>1. ASSUME NEW c \in Conns
      PROVE  it'[c] \in Iterators /\ (~it'[c].stale => it'[c].cursor <= Len(it'[c].list))
  <2>1. it[c] \in Iterators /\ (~it[c].stale => it[c].cursor <= Len(it[c].list))
      BY DEF IInv, TypeOK, Turns
  <2>2. CASE it[c].on # ch
      BY <2>1, <2>2 DEF SetList
  <2>3. CASE it[c].on = ch
    <3> DEFINE new == [it[c] EXCEPT !.list = l, !.stale = TRUE, !.owed = @ \cap ToSet(l)]
    <3>1. it'[c] = new
        BY <2>3 DEF SetList
    <3>2. new \in Iterators /\ new.stale
        BY <2>1 DEF Iterators
    <3> QED
        BY <3>1, <3>2
  <2> QED
      BY <2>2, <2>3
<1> QED
    BY <1>1 DEF SetList, Turns

LEMMA SetChannelState ==
    ASSUME IInv, NEW ch \in Channels, NEW l, SetChannel(ch, l)
    PROVE  /\ chanNameToChanData' = [chanNameToChanData EXCEPT ![ch] = l]
           /\ it' \in [Conns -> Iterators] /\ Turns'
<1>1. ASSUME NEW c \in Conns
      PROVE  it'[c] \in Iterators /\ (~it'[c].stale => it'[c].cursor <= Len(it'[c].list))
  <2>1. it[c] \in Iterators /\ (~it[c].stale => it[c].cursor <= Len(it[c].list))
      BY DEF IInv, TypeOK, Turns
  <2>2. CASE it[c].on # ch
      BY <2>1, <2>2 DEF SetChannel
  <2>3. CASE it[c].on = ch
    <3> DEFINE new == [it[c] EXCEPT !.on = Null]
    <3>1. it'[c] = new
        BY <2>3 DEF SetChannel
    <3>2. /\ new \in Iterators /\ new.stale = it[c].stale /\ new.cursor = it[c].cursor
          /\ new.list = it[c].list
        BY <2>1 DEF Iterators
    <3> HIDE DEF new
    <3> QED
        BY <2>1, <3>1, <3>2
  <2> QED
      BY <2>2, <2>3
<1> QED
    BY <1>1 DEF SetChannel, Turns

\* Taking c off a list takes nobody else off, and puts nobody on.
LEMMA TakeOffState ==
    ASSUME IInv, NEW ch \in Channels, chanNameToChanData[ch] # Null, NEW c \in Conns,
           TakeOff(ch, c)
    PROVE  /\ Relisted(ch, c)
           /\ chanNameToChanData'[ch] # Null /\ c \notin ToSet(chanNameToChanData'[ch])
<1> DEFINE old == chanNameToChanData[ch]
<1>1. old \in Seq(Conns) /\ IsInjective(old)
    BY DEF IInv, TypeOK, ListedOnce
<1>2. CASE c \in ToSet(old)
  <2> DEFINE new == RemoveFirst(old, c)
  <2>1. SetList(ch, new)
      BY <1>2 DEF TakeOff
  <2> HIDE DEF old
  <2>2. new \in Seq(Conns) /\ IsInjective(new) /\ ToSet(new) = ToSet(old) \ {c}
      BY <1>1, <1>2, RemoveFirstFromList
  <2> HIDE DEF new
  <2>3. /\ chanNameToChanData' = [chanNameToChanData EXCEPT ![ch] = new]
        /\ it' \in [Conns -> Iterators] /\ Turns'
      BY <2>1, <2>2, SetListState
  <2>4. new # Null
      BY <2>2, NullAssumption
  <2> QED
      BY <2>2, <2>3, <2>4 DEF Relisted, OnList, IInv, TypeOK, old
<1>3. CASE c \notin ToSet(old)
    BY <1>1, <1>3 DEF TakeOff, Relisted, OnList, IInv, TypeOK, Turns
<1> QED
    BY <1>2, <1>3

LEMMA ListStep ==
    ASSUME IInv, NEW c \in Conns, pc[c] \in Session, NEW ch \in Channels, Relisted(ch, c),
           UNCHANGED <<registry, userData, currUser, frame>>,
           visited' \in [Conns -> SUBSET Channels],
           NEW l \in {"addSubscriber", "addChannel", "removeChannel", "leave", "leaveAll", "thrown"},
           pc' = [pc EXCEPT ![c] = l],
           l \in {"addSubscriber", "addChannel", "removeChannel"} => pc[c] \in OnChannel,
           l = "leave" => frame[c].command = "DISCONNECT",
           l = "addSubscriber" => ch = channel(c) /\ c \notin ToSet(chanNameToChanData'[ch])
    PROVE  IInv'
<1> USE DEF registry
<1>1. TypeOK'
  <2>1. pc' \in [Conns -> Labels]
      BY DEF Labels, IInv, TypeOK
  <2> QED
      BY <2>1 DEF IInv, TypeOK, Relisted
<1>2. Accounts' /\ Turns'
    BY DEF IInv, Accounts, Relisted
<1>3. ListedOnce'
    BY DEF IInv, ListedOnce, Relisted
<1>4. OthersStay(c) /\ UsersStay /\ ListsShrink(c)
    BY DEF OthersStay, UsersStay, ListsShrink, OnList, IInv, TypeOK, Relisted
<1>5. Own(c)
  <2>1. pc'[c] = l /\ Standing(c)
      BY DEF IInv, TypeOK
  <2>2. Standing(c)'
      BY <2>1, SessionData DEF Standing, Login, Naming, Leaving, OnChannel, Session
  <2> QED
      BY <2>1, <2>2 DEF Own, channel
<1> QED
    BY <1>1, <1>2, <1>3, <1>4, <1>5, ThreadStep

LEMMA createChannelInv ==
    ASSUME IInv, NEW c \in Conns, createChannel(c)
    PROVE  IInv'
<1>1. /\ pc[c] \in OnChannel /\ pc[c] \in Session /\ pc' = [pc EXCEPT ![c] = "addSubscriber"]
      /\ SetChannel(channel(c), <<>>)
      /\ UNCHANGED <<registry, userData, currUser, frame, visited>>
    BY DEF createChannel, At, Goto, OnChannel, Session, locals
<1>2. channel(c) \in Channels
    BY <1>1, ChannelOfFrame
<1>3. <<>> \in Seq(Conns) /\ IsInjective(<<>>) /\ ToSet(<<>>) = {}
    BY DEF IsInjective, ToSet
<1>4. /\ chanNameToChanData' = [chanNameToChanData EXCEPT ![channel(c)] = <<>>]
      /\ it' \in [Conns -> Iterators] /\ Turns'
    BY <1>1, <1>2, SetChannelState
<1>5. Relisted(channel(c), c) /\ c \notin ToSet(chanNameToChanData'[channel(c)])
    BY <1>2, <1>3, <1>4 DEF Relisted, IInv, TypeOK
<1> QED
    BY <1>1, <1>2, <1>5, ListStep DEF IInv, TypeOK

LEMMA addSubscriberInv ==
    ASSUME IInv, NEW c \in Conns, addSubscriber(c)
    PROVE  IInv'
<1>1. /\ pc[c] = "addSubscriber" /\ pc[c] \in OnChannel /\ pc[c] \in Session
      /\ UNCHANGED <<registry, userData, currUser, frame, visited>>
    BY DEF addSubscriber, At, OnChannel, Session, locals
<1>2. channel(c) \in Channels /\ (exists(c) => list(c) \in Seq(Conns) /\ IsInjective(list(c)))
    BY <1>1, ChannelOfFrame
<1>3. CASE ~exists(c)
  <2>1. /\ pc' = [pc EXCEPT ![c] = "thrown"]
        /\ UNCHANGED <<chanNameToChanData, it>>
      BY <1>3 DEF addSubscriber, Throws, Goto
  <2>2. Relisted(channel(c), c)
      BY <1>2, <1>3, <2>1 DEF Relisted, exists, list, IInv, TypeOK, Turns
  <2> QED
      BY <1>1, <1>2, <2>1, <2>2, ListStep DEF IInv, TypeOK
<1>4. CASE exists(c)
  <2> DEFINE new == Append(list(c), c)
  <2>1. /\ pc' = [pc EXCEPT ![c] = "addChannel"]
        /\ SetList(channel(c), new)
      BY <1>4 DEF addSubscriber, Goto
  <2>2. c \notin ToSet(list(c))
      BY <1>1, <1>4 DEF IInv, NotYetListed, At, OnList, exists, list
  <2>3. new \in Seq(Conns) /\ IsInjective(new) /\ ToSet(new) = ToSet(list(c)) \cup {c}
      BY <1>2, <1>4, <2>2, AppendToList
  <2> HIDE DEF new
  <2>4. /\ chanNameToChanData' = [chanNameToChanData EXCEPT ![channel(c)] = new]
        /\ it' \in [Conns -> Iterators] /\ Turns'
      BY <1>2, <2>1, <2>3, SetListState
  <2>5. Relisted(channel(c), c)
      BY <1>2, <1>4, <2>3, <2>4 DEF Relisted, OnList, exists, list, IInv, TypeOK
  <2> QED
      BY <1>1, <1>2, <2>1, <2>5, ListStep DEF IInv, TypeOK
<1> QED
    BY <1>3, <1>4

\* Where removeSubscriber() returns to.
LEMMA RemovedLabel ==
    ASSUME IInv, NEW c \in Conns, pc[c] \in Leaving
    PROVE  /\ Removed[command(c)] \in {"removeChannel", "leave"}
           /\ Removed[command(c)] = "leave" => frame[c].command = "DISCONNECT"
<1>1. frame[c].command \in {"UNSUBSCRIBE", "DISCONNECT"}
    BY DEF IInv, Standing
<1> QED
    BY <1>1 DEF Removed, command

LEMMA dropChannelInv ==
    ASSUME IInv, NEW c \in Conns, dropChannel(c)
    PROVE  IInv'
<1>1. /\ pc[c] \in Leaving /\ pc[c] \in OnChannel /\ pc[c] \in Session
      /\ pc' = [pc EXCEPT ![c] = Removed[command(c)]]
      /\ SetChannel(channel(c), Null)
      /\ UNCHANGED <<registry, userData, currUser, frame, visited>>
    BY DEF dropChannel, At, Goto, OnChannel, Session, Leaving, locals
<1>2. channel(c) \in Channels
    BY <1>1, ChannelOfFrame
<1>3. /\ chanNameToChanData' = [chanNameToChanData EXCEPT ![channel(c)] = Null]
      /\ it' \in [Conns -> Iterators] /\ Turns'
    BY <1>1, <1>2, SetChannelState
<1>4. Relisted(channel(c), c)
    BY <1>2, <1>3 DEF Relisted, IInv, TypeOK
<1>5. /\ Removed[command(c)] \in {"removeChannel", "leave"}
      /\ Removed[command(c)] = "leave" => frame[c].command = "DISCONNECT"
    BY <1>1, RemovedLabel
<1> QED
    BY <1>1, <1>2, <1>4, <1>5, ListStep DEF IInv, TypeOK

LEMMA removeSubscriberInv ==
    ASSUME IInv, NEW c \in Conns, removeSubscriber(c)
    PROVE  IInv'
<1>1. /\ pc[c] \in Leaving /\ pc[c] \in OnChannel /\ pc[c] \in Session
      /\ UNCHANGED <<registry, userData, currUser, frame, visited>>
    BY DEF removeSubscriber, At, OnChannel, Session, Leaving, locals
<1>2. channel(c) \in Channels
    BY <1>1, ChannelOfFrame
<1>3. CASE ~exists(c)
  <2>1. pc' = [pc EXCEPT ![c] = "thrown"] /\ UNCHANGED <<chanNameToChanData, it>>
      BY <1>3 DEF removeSubscriber, Throws, Goto
  <2>2. Relisted(channel(c), c)
      BY <1>2, <1>3, <2>1 DEF Relisted, exists, list, IInv, TypeOK, Turns
  <2> QED
      BY <1>1, <1>2, <2>1, <2>2, ListStep DEF IInv, TypeOK
<1>4. CASE exists(c)
  <2>1. pc' = [pc EXCEPT ![c] = Removed[command(c)]] /\ TakeOff(channel(c), c)
      BY <1>4 DEF removeSubscriber, Goto
  <2>2. Relisted(channel(c), c)
      BY <1>2, <1>4, <2>1, TakeOffState DEF exists, list
  <2>3. /\ Removed[command(c)] \in {"removeChannel", "leave"}
        /\ Removed[command(c)] = "leave" => frame[c].command = "DISCONNECT"
      BY <1>1, RemovedLabel
  <2> QED
      BY <1>1, <1>2, <2>1, <2>2, <2>3, ListStep DEF IInv, TypeOK
<1> QED
    BY <1>3, <1>4

LEMMA LeaveAnotherInv ==
    ASSUME IInv, NEW c \in Conns, LeaveAnother(c)
    PROVE  IInv'
<1>1. PICK ch \in theirSubs(c) \ visited[c] :
          /\ visited' = [visited EXCEPT ![c] = @ \cup {ch}]
          /\ \/ /\ chanNameToChanData[ch] = Null /\ Throws(c)
                /\ UNCHANGED <<chanNameToChanData, it>>
             \/ /\ chanNameToChanData[ch] # Null
                /\ TakeOff(ch, c)
                /\ UNCHANGED pc
    BY DEF LeaveAnother
<1>2. /\ pc[c] = "leaveAll" /\ pc[c] \in Session
      /\ UNCHANGED <<registry, userData, currUser, frame>>
    BY DEF LeaveAnother, At, Session
<1>3. ch \in Channels
    BY <1>1, <1>2, SessionData DEF theirSubs, UserData
<1>4. visited' \in [Conns -> SUBSET Channels]
    BY <1>1, <1>3 DEF IInv, TypeOK
<1>5. CASE chanNameToChanData[ch] = Null
  <2>1. pc' = [pc EXCEPT ![c] = "thrown"] /\ UNCHANGED <<chanNameToChanData, it>>
      BY <1>1, <1>5 DEF Throws, Goto
  <2>2. Relisted(ch, c)
      BY <1>3, <1>5, <2>1 DEF Relisted, IInv, TypeOK, Turns
  <2> QED
      BY <1>2, <1>3, <1>4, <2>1, <2>2, ListStep
<1>6. CASE chanNameToChanData[ch] # Null
  <2>1. pc' = [pc EXCEPT ![c] = "leaveAll"] /\ TakeOff(ch, c)
      BY <1>1, <1>2, <1>6 DEF IInv, TypeOK
  <2>2. Relisted(ch, c)
      BY <1>3, <1>6, <2>1, TakeOffState
  <2> QED
      BY <1>2, <1>3, <1>4, <2>1, <2>2, ListStep
<1> QED
    BY <1>5, <1>6

-----------------------------------------------------------------------------
(* The theorems *)

LEMMA InitInv == Init => IInv
<1> SUFFICES ASSUME Init PROVE IInv
    OBVIOUS
<1>1. NoFrame \in Frame /\ NoIterator \in Iterators
      /\ NoIterator.cursor <= Len(NoIterator.list)
  <2>1. <<>> \in Seq(Conns)
      OBVIOUS
  <2> QED
      BY <2>1, IteratorType DEF NoFrame, Frame, NoIterator
<1>2. TypeOK
    BY <1>1 DEF Init, TypeOK, Labels
<1>3. Accounts /\ Turns /\ ListedOnce /\ NotYetListed
    BY <1>1 DEF Init, Accounts, Turns, ListedOnce, NotYetListed, At
<1>4. \A c \in Conns : Standing(c)
    BY DEF Init, Standing, Login, Naming, Leaving, OnChannel, Session
<1> QED
    BY <1>2, <1>3, <1>4 DEF IInv

LEMMA NextInv == IInv /\ [Next]_vars => IInv'
<1> SUFFICES ASSUME IInv, [Next]_vars PROVE IInv'
    OBVIOUS
<1>1. CASE UNCHANGED vars
  <2>1. UNCHANGED <<clientsToCH, userToData, connToName, chanNameToChanData, userData,
                    currUser, pc, it, frame, visited>>
      BY <1>1 DEF vars, registry, locals
  <2> QED
      BY <2>1 DEF IInv, TypeOK, Accounts, Turns, Standing, ListedOnce, NotYetListed,
                  At, OnList, channel
<1>2. ASSUME NEW c \in Conns, Receive(c) \/ Break(c) \/ Work(c) PROVE IInv'
    BY <1>2, ReceiveInv, LooksInv, EndHandlerInv, NextSubscriptionInv, getUserInv, logUserInv,
       addUserInv, addUserNameInv, SubsStepsInv, removeClientInv, IteratorStepsInv,
       createChannelInv, addSubscriberInv, dropChannelInv, removeSubscriberInv,
       LeaveAnotherInv
       DEF Work
<1> QED
    BY <1>1, <1>2 DEF Next

\* The inductive invariant holds however the handlers overlap.
THEOREM Invariance == Spec => []IInv
<1> QED
    BY InitInv, NextInv, PTL DEF Spec

\* Every variable keeps its type, and every thread is at a label.
THEOREM TypeCorrect == Spec => []TypeOK
<1>1. IInv => TypeOK
    BY DEF IInv
<1> QED
    BY <1>1, Invariance, PTL

\* No connection is ever on a list twice.
THEOREM NobodyIsListedTwice == Spec => []ListedOnce
<1>1. IInv => ListedOnce
    BY DEF IInv
<1> QED
    BY <1>1, Invariance, PTL

\* There is a user behind every name.
THEOREM NamesHaveUsers == Spec => []NamedUsersExist
<1>1. IInv => NamedUsersExist
    BY DEF IInv, Standing, NamedUsersExist
<1> QED
    BY <1>1, Invariance, PTL

-----------------------------------------------------------------------------
(* The second invariant: lists and ids agree                                 *)

\* After clear() a connection has no ids, and after an exception nobody asks for them.
Outside == {"leaveAll", "removeClient", "removeName", "terminated", "thrown"}
Ending  == {"logOut", "clear", "leaveAll", "removeClient", "removeName", "terminated"}

\* Whoever has made a user object is its user.
Makers == \A x \in Conns : userData[x] # Null => currUser[x] = x

Placed(c) ==
    /\ pc[c] = "idle" => frame[c] = NoFrame /\ visited[c] = {}
    /\ pc[c] \in Login \cup {"error"} => frame[c].command # "DISCONNECT"
    /\ pc[c] \in Login \ Naming => currUser[c] = Null
    /\ currUser[c] = Null => \A ch \in Channels : ~OnList(ch, c)

\* How a thread at label l, with frame f, the channels v behind it and the ids subs,
\* can be on the list of ch: it has the id, or is about to have it; it is not where it
\* has just left ch; and its DISCONNECT has yet to come to ch.
MayBeOn(ch, l, f, v, subs) ==
    /\ l \in Outside \/ ch \in subs \/ (l = "addChannel" /\ ch = f.channel)
    /\ ~(l = "removeChannel" /\ ch = f.channel)
    /\ f.command = "DISCONNECT" =>
          /\ l \notin Ending
          /\ l \in Leaving \cup {"leave"} /\ ch \in v => l \in Leaving /\ ch = f.channel

Member(c) ==
    currUser[c] # Null /\ Alone(c) =>
        \A ch \in Channels :
            OnList(ch, c) => MayBeOn(ch, pc[c], frame[c], visited[c], mySubs(c))

JInv == Makers /\ \A c \in Conns : Placed(c) /\ Member(c)

\* What a step of c leaves to the other connections.
Apart(c) ==
    /\ OthersStay(c) /\ ListsShrink(c)
    /\ \A d \in Conns \ {c} : visited'[d] = visited[d]
    /\ currUser'[c] \in Conns \cup {Null}
    /\ currUser[c] # Null => currUser'[c] = currUser[c]
    /\ \A x \in Conns : x # currUser'[c] /\ userData[x] # Null =>
                              userData'[x].subs = userData[x].subs

LEMMA MemberStep ==
    ASSUME IInv, JInv, NEW c \in Conns, Apart(c), Makers', Placed(c)', Member(c)'
    PROVE  JInv'
<1> SUFFICES ASSUME NEW d \in Conns \ {c} PROVE Placed(d)' /\ Member(d)'
    BY DEF JInv
<1>1. /\ pc'[d] = pc[d] /\ frame'[d] = frame[d] /\ currUser'[d] = currUser[d]
      /\ visited'[d] = visited[d]
    BY DEF Apart, OthersStay
<1>2. \A ch \in Channels : OnList(ch, d)' => OnList(ch, d)
    BY DEF Apart, ListsShrink, OnList
<1>3. Placed(d) /\ Member(d)
    BY DEF JInv
<1>4. Placed(d)'
    BY <1>1, <1>2, <1>3 DEF Placed
<1>5. ASSUME currUser[d] # Null, Alone(d)'
      PROVE  Alone(d) /\ mySubs(d)' = mySubs(d)
  <2>1. \A x \in Conns \ {d} : currUser'[x] = Null \/ currUser'[x] # currUser[d]
      BY <1>1, <1>5 DEF Alone
  <2>2. \A x \in Conns \ {c} : currUser'[x] = currUser[x]
      BY DEF Apart, OthersStay
  <2>3. currUser[c] # Null => currUser'[c] = currUser[c]
      BY DEF Apart
  <2>4. Alone(d)
      BY <2>1, <2>2, <2>3 DEF Alone
  <2>5. currUser[d] # currUser'[c]
      BY <1>5, <2>1
  <2>6. currUser[d] \in Conns /\ userData[currUser[d]] # Null
      BY <1>5 DEF IInv, TypeOK, Accounts
  <2> QED
      BY <1>1, <2>4, <2>5, <2>6 DEF Apart, mySubs
<1>6. Member(d)'
    BY <1>1, <1>2, <1>3, <1>5 DEF Member
<1> QED
    BY <1>4, <1>6

\* A step that leaves users alone: what c has to see to is its own place.
LEMMA Steady ==
    ASSUME IInv, JInv, NEW c \in Conns, NEW l, NEW f, NEW v,
           pc' = [pc EXCEPT ![c] = l], frame' = [frame EXCEPT ![c] = f],
           visited' = [visited EXCEPT ![c] = v],
           UNCHANGED <<userData, currUser>>,
           \A d \in Conns \ {c} : connToName'[d] = connToName[d],
           ListsShrink(c),
           currUser[c] = Null => UNCHANGED chanNameToChanData,
           l = "idle" => f = NoFrame /\ v = {},
           l \in Login \cup {"error"} => f.command # "DISCONNECT",
           l \in Login \ Naming => currUser[c] = Null,
           currUser[c] # Null /\ Alone(c) =>
               \A ch \in Channels : OnList(ch, c)' => MayBeOn(ch, l, f, v, mySubs(c))
    PROVE  JInv'
<1>1. /\ pc'[c] = l /\ frame'[c] = f /\ visited'[c] = v
      /\ currUser'[c] = currUser[c] /\ mySubs(c)' = mySubs(c)
    BY DEF IInv, TypeOK, mySubs
<1>2. Apart(c)
    BY DEF Apart, OthersStay, IInv, TypeOK
<1>3. Makers'
    BY DEF JInv, Makers
<1>4. Placed(c)'
  <2>1. currUser[c] = Null => \A ch \in Channels : ~OnList(ch, c)'
      BY DEF JInv, Placed, OnList
  <2> QED
      BY <1>1, <2>1 DEF Placed
<1>5. Member(c)'
    BY <1>1 DEF Member, Alone
<1> QED
    BY <1>2, <1>3, <1>4, <1>5, MemberStep

\* A step that also leaves lists and frames alone, from one label to another.
LEMMA Passing ==
    ASSUME IInv, JInv, NEW c \in Conns, NEW l,
           pc' = [pc EXCEPT ![c] = l],
           UNCHANGED <<chanNameToChanData, userData, currUser, frame, visited>>,
           \A d \in Conns \ {c} : connToName'[d] = connToName[d],
           l \notin {"idle", "addChannel", "removeChannel", "leave"},
           pc[c] # "addChannel",
           l \in Login => pc[c] \in Login \ Naming /\ l \notin Naming,
           l = "error" => frame[c].command # "DISCONNECT",
           pc[c] \in Outside => l \in Outside,
           frame[c].command = "DISCONNECT" => /\ l \in Ending => pc[c] \in Ending
                                              /\ l \in Leaving => pc[c] \in Leaving
    PROVE  JInv'
<1>1. frame' = [frame EXCEPT ![c] = frame[c]] /\ visited' = [visited EXCEPT ![c] = visited[c]]
    BY DEF IInv, TypeOK
<1>2. Placed(c) /\ Member(c)
    BY DEF JInv
<1>3. ListsShrink(c)
    BY DEF ListsShrink, OnList
<1>4. ASSUME currUser[c] # Null, Alone(c), NEW ch \in Channels, OnList(ch, c)'
      PROVE  MayBeOn(ch, l, frame[c], visited[c], mySubs(c))
  <2>1. MayBeOn(ch, pc[c], frame[c], visited[c], mySubs(c))
      BY <1>2, <1>4 DEF Member, OnList
  <2> QED
      BY <2>1 DEF MayBeOn, Leaving
<1>5. /\ l \in Login \cup {"error"} => frame[c].command # "DISCONNECT"
      /\ l \in Login \ Naming => currUser[c] = Null
    BY <1>2 DEF Placed
<1> QED
    BY <1>1, <1>3, <1>4, <1>5, Steady

LEMMA LooksMember ==
    ASSUME IInv, JInv, NEW c \in Conns,
           \/ isCorrectPassword(c) \/ isUserLoggedIn(c) \/ isSubscribed(c)
           \/ nSubscribers(c) \/ sendToChannel(c)
           \/ containsKey(c) \/ ERROR(c) \/ AllLeft(c) \/ Break(c)
    PROVE  JInv'
<1> USE DEF Login, Naming, Leaving, Outside, Ending
<1>1. Standing(c) /\ Placed(c)
    BY DEF IInv, JInv
<1>2. ASSUME NEW here, NEW l, Look(c, here, l)
      PROVE  /\ pc[c] = here /\ pc' = [pc EXCEPT ![c] = l]
             /\ UNCHANGED <<chanNameToChanData, userData, currUser, frame, visited>>
             /\ \A d \in Conns \ {c} : connToName'[d] = connToName[d]
    BY <1>2 DEF Look, Goto, At, registry, locals
<1>3. CASE isCorrectPassword(c)
  <2>1. PICK l \in {"isUserLoggedIn", "error"} : Look(c, "isCorrectPassword", l)
      BY <1>3 DEF isCorrectPassword
  <2> QED
      BY <1>1, <1>2, <2>1, Passing DEF Placed
<1>4. CASE isUserLoggedIn(c)
  <2>1. PICK l \in {"getUser", "error"} : Look(c, "isUserLoggedIn", l)
      BY <1>4 DEF isUserLoggedIn
  <2> QED
      BY <1>1, <1>2, <2>1, Passing DEF Placed
<1>5. CASE isSubscribed(c)
  <2> DEFINE l == IF ~exists(c) THEN "thrown"
                  ELSE IF c \in ToSet(list(c))
                  THEN Subscribed[command(c)] ELSE NotSubscribed[command(c)]
  <2>1. Look(c, "isSubscribed", l)
      BY <1>5 DEF isSubscribed
  <2>2. pc[c] = "isSubscribed"
      BY <2>1 DEF Look, At
  <2>3. frame[c].command \in {"SUBSCRIBE", "SEND", "UNSUBSCRIBE"}
      BY <1>1, <2>2 DEF Standing
  <2>4. l \in {"thrown", "done", "send", "nSubscribers", "addSubscriber", "error"}
      BY <2>3 DEF Subscribed, NotSubscribed, command, exists
  <2> HIDE DEF l
  <2> QED
      BY <1>2, <2>1, <2>2, <2>3, <2>4, Passing
<1>6. CASE nSubscribers(c)
  <2>1. PICK l \in {"thrown", "dropChannel", "removeSubscriber"} : Look(c, "nSubscribers", l)
      BY <1>6 DEF nSubscribers
  <2> QED
      BY <1>2, <2>1, Passing
<1>7. CASE sendToChannel(c)
  <2>1. PICK l \in {"getSubscribers", "done"} : Look(c, "send", l)
      BY <1>7 DEF sendToChannel
  <2> QED
      BY <1>2, <2>1, Passing
<1>8. CASE containsKey(c)
  <2>1. PICK l \in {"deliver", "next"} : Look(c, "containsKey", l)
      BY <1>8 DEF containsKey
  <2> QED
      BY <1>2, <2>1, Passing
<1>9. CASE ERROR(c)
  <2>1. PICK l \in {"terminated", "logOut"} : Look(c, "error", l)
      BY <1>9 DEF ERROR
  <2> QED
      BY <1>1, <1>2, <2>1, Passing DEF Placed
<1>10. CASE AllLeft(c)
    BY <1>2, <1>10, Passing DEF AllLeft
<1>11. CASE Break(c)
    BY <1>2, <1>11, Passing DEF Break
<1> QED
    BY <1>3, <1>4, <1>5, <1>6, <1>7, <1>8, <1>9, <1>10, <1>11

LEMMA IteratorsMember ==
    ASSUME IInv, JInv, NEW c \in Conns,
           \/ getSubscribers(c) \/ NextSubscriber(c) \/ ListChanged(c) \/ getSubId(c)
           \/ deliver(c) \/ removeClient(c) \/ removeName(c)
    PROVE  JInv'
<1>1. PICK l \in {"thrown", "next", "getSubId", "containsKey", "removeName", "terminated"} :
          pc' = [pc EXCEPT ![c] = l]
    BY DEF getSubscribers, NextSubscriber, ListChanged, getSubId, deliver, removeClient,
           removeName, Throws, Goto
<1>2. /\ pc[c] \in {"getSubscribers", "next", "getSubId", "deliver", "removeClient", "removeName"}
      /\ UNCHANGED <<chanNameToChanData, userData, currUser, frame, visited>>
      /\ pc[c] \in {"removeClient", "removeName"} <=> l \in {"removeName", "terminated"}
    BY <1>1 DEF getSubscribers, NextSubscriber, ListChanged, getSubId, deliver, removeClient,
                removeName, Throws, Goto, At, locals, IInv, TypeOK
<1>3. \A d \in Conns \ {c} : connToName'[d] = connToName[d]
    BY DEF getSubscribers, NextSubscriber, ListChanged, getSubId, deliver, removeClient,
           removeName, registry, IInv, TypeOK
<1> QED
    BY <1>1, <1>2, <1>3, Passing DEF Login, Naming, Leaving, Outside, Ending

\* A handler ends.
LEMMA DoneMember ==
    ASSUME IInv, JInv, NEW c \in Conns, Done(c),
           pc[c] \in {"addUserName", "next", "done"},
           UNCHANGED <<chanNameToChanData, userData, currUser>>,
           \A d \in Conns \ {c} : connToName'[d] = connToName[d]
    PROVE  JInv'
<1>1. ListsShrink(c)
    BY DEF ListsShrink, OnList
<1>2. ASSUME currUser[c] # Null, Alone(c), NEW ch \in Channels, OnList(ch, c)'
      PROVE  MayBeOn(ch, "idle", NoFrame, {}, mySubs(c))
  <2>1. MayBeOn(ch, pc[c], frame[c], visited[c], mySubs(c))
      BY <1>2 DEF JInv, Member, OnList
  <2> QED
      BY <2>1 DEF MayBeOn, NoFrame, Outside
<1>3. /\ pc' = [pc EXCEPT ![c] = "idle"] /\ frame' = [frame EXCEPT ![c] = NoFrame]
      /\ visited' = [visited EXCEPT ![c] = {}] /\ UNCHANGED <<userData, currUser>>
    BY DoneState
<1>4. "idle" \notin Login \cup {"error"}
    BY DEF Login
<1> QED
    BY <1>1, <1>2, <1>3, <1>4, Steady

LEMMA EndsMember ==
    ASSUME IInv, JInv, NEW c \in Conns,
           addUserName(c) \/ NoSubscriberLeft(c) \/ EndHandler(c)
    PROVE  JInv'
<1>1. /\ Done(c) /\ pc[c] \in {"addUserName", "next", "done"}
      /\ UNCHANGED <<chanNameToChanData, userData, currUser>>
    BY DEF addUserName, NoSubscriberLeft, EndHandler, At
<1>2. \A d \in Conns \ {c} : connToName'[d] = connToName[d]
    BY DEF addUserName, NoSubscriberLeft, EndHandler, registry, IInv, TypeOK
<1> QED
    BY <1>1, <1>2, DoneMember

\* A frame arrives.
LEMMA ReceiveMember ==
    ASSUME IInv, JInv, NEW c \in Conns, Receive(c)
    PROVE  JInv'
<1> USE DEF Login, Naming, Leaving, Outside, Ending
<1>1. ASSUME NEW f \in Frame, NEW l, pc[c] = "idle",
             pc' = [pc EXCEPT ![c] = l], frame' = [frame EXCEPT ![c] = f],
             UNCHANGED <<registry, chanNameToChanData, userData, currUser, visited>>,
             l \in {"addUser", "isCorrectPassword", "createChannel", "isSubscribed", "error", "leave"},
             l # "leave" => f.command # "DISCONNECT",
             l \in Login => currUser[c] = Null
      PROVE  JInv'
  <2>1. Placed(c) /\ Member(c)
      BY DEF JInv
  <2>2. visited' = [visited EXCEPT ![c] = {}]
      BY <1>1, <2>1 DEF Placed, IInv, TypeOK
  <2>3. ListsShrink(c)
      BY <1>1 DEF ListsShrink, OnList
  <2>4. ASSUME currUser[c] # Null, Alone(c), NEW ch \in Channels, OnList(ch, c)'
        PROVE  MayBeOn(ch, l, f, {}, mySubs(c))
    <3>1. MayBeOn(ch, pc[c], frame[c], visited[c], mySubs(c))
        BY <1>1, <2>1, <2>4 DEF Member, OnList
    <3> QED
        BY <1>1, <3>1 DEF MayBeOn
  <2>5. \A d \in Conns \ {c} : connToName'[d] = connToName[d]
      BY <1>1 DEF registry
  <2> QED
      BY <1>1, <2>2, <2>3, <2>4, <2>5, Steady
<1>2. frame[c] \in Frame /\ (pc[c] = "idle" => frame[c].command = "CONNECT")
    BY DEF JInv, Placed, NoFrame, IInv, TypeOK
<1>3. ASSUME NEW u \in Users, NEW p \in Passcodes, Connect(c, u, p) PROVE JInv'
  <2> DEFINE f == [frame[c] EXCEPT !.user = u, !.passcode = p]
  <2>1. f \in Frame /\ f.command = frame[c].command
      BY <1>2 DEF Frame
  <2>2. /\ pc[c] = "idle" /\ currUser[c] = Null /\ frame' = [frame EXCEPT ![c] = f]
        /\ UNCHANGED <<registry, chanNameToChanData, userData, currUser, visited>>
      BY <1>3 DEF Connect, At
  <2>3. PICK l \in {"addUser", "isCorrectPassword"} : pc' = [pc EXCEPT ![c] = l]
      BY <1>3 DEF Connect, Goto
  <2> HIDE DEF f
  <2> QED
      BY <1>1, <1>2, <2>1, <2>2, <2>3
<1>4. ASSUME NEW type \in {"SUBSCRIBE", "SEND", "UNSUBSCRIBE", "DISCONNECT"},
             NEW ch \in Channels \cup {Null}, NEW l, Begin(c, type, ch, l),
             l \in {"createChannel", "isSubscribed", "error", "leave"},
             l = "leave" <=> type = "DISCONNECT"
      PROVE  JInv'
  <2> DEFINE f == [frame[c] EXCEPT !.command = type, !.channel = ch]
  <2>1. f \in Frame /\ f.command = type
      BY <1>2, <1>4 DEF Frame
  <2>2. /\ pc[c] = "idle" /\ pc' = [pc EXCEPT ![c] = l] /\ frame' = [frame EXCEPT ![c] = f]
        /\ UNCHANGED <<registry, chanNameToChanData, userData, currUser, visited>>
      BY <1>4 DEF Begin, At, Goto
  <2> HIDE DEF f
  <2> QED
      BY <1>1, <1>4, <2>1, <2>2
<1>5. ASSUME NEW ch \in Channels, Subscribe(c, ch) \/ Send(c, ch) \/ Unsubscribe(c, ch)
      PROVE  JInv'
    BY <1>4, <1>5 DEF Subscribe, Send, Unsubscribe
<1>6. CASE Disconnect(c)
    BY <1>4, <1>6 DEF Disconnect
<1> QED
    BY <1>3, <1>5, <1>6 DEF Receive

\* The loop of DISCONNECT: what it has been to is behind it, and at its end that is all.
LEMMA LoopMember ==
    ASSUME IInv, JInv, NEW c \in Conns, NextSubscription(c) \/ NoSubscriptionLeft(c)
    PROVE  JInv'
<1> USE DEF Login, Naming, Leaving, Outside, Ending
<1>1. /\ pc[c] = "leave" /\ UNCHANGED <<chanNameToChanData, userData, currUser>>
      /\ \A d \in Conns \ {c} : connToName'[d] = connToName[d]
    BY DEF NextSubscription, NoSubscriptionLeft, Look, At, registry
<1>2. frame[c].command = "DISCONNECT" /\ frame[c] \in Frame
    BY <1>1 DEF IInv, Standing, TypeOK
<1>3. ListsShrink(c)
    BY <1>1 DEF ListsShrink, OnList
<1>4. ASSUME currUser[c] # Null, Alone(c), NEW ch \in Channels, OnList(ch, c)'
      PROVE  ch \in mySubs(c) /\ ch \notin visited[c]
  <2>1. MayBeOn(ch, pc[c], frame[c], visited[c], mySubs(c))
      BY <1>1, <1>4 DEF JInv, Member, OnList
  <2> QED
      BY <1>1, <1>2, <2>1 DEF MayBeOn
<1>5. CASE NextSubscription(c)
  <2>1. PICK k \in mySubs(c) \ visited[c] :
            /\ visited' = [visited EXCEPT ![c] = @ \cup {k}]
            /\ frame' = [frame EXCEPT ![c].channel = k]
      BY <1>5 DEF NextSubscription
  <2> DEFINE f == [frame[c] EXCEPT !.channel = k]
             v == visited[c] \cup {k}
  <2>2. f.channel = k /\ f.command = "DISCONNECT"
      BY <1>2 DEF Frame
  <2>3. frame' = [frame EXCEPT ![c] = f] /\ visited' = [visited EXCEPT ![c] = v]
      BY <2>1
  <2>4. pc' = [pc EXCEPT ![c] = "nSubscribers"]
      BY <1>5 DEF NextSubscription, Goto
  <2> HIDE DEF f
  <2>5. ASSUME currUser[c] # Null, Alone(c), NEW ch \in Channels, OnList(ch, c)'
        PROVE  MayBeOn(ch, "nSubscribers", f, v, mySubs(c))
      BY <1>4, <2>2, <2>5 DEF MayBeOn
  <2> HIDE DEF v
  <2> QED
      BY <1>1, <1>3, <2>3, <2>4, <2>5, Steady
<1>6. CASE NoSubscriptionLeft(c)
  <2>1. /\ pc' = [pc EXCEPT ![c] = "logOut"] /\ mySubs(c) \subseteq visited[c]
        /\ frame' = [frame EXCEPT ![c] = frame[c]]
        /\ visited' = [visited EXCEPT ![c] = visited[c]]
      BY <1>6 DEF NoSubscriptionLeft, Look, Goto, locals, IInv, TypeOK
  <2>2. ASSUME currUser[c] # Null, Alone(c), NEW ch \in Channels, OnList(ch, c)'
        PROVE  FALSE
      BY <1>4, <2>1, <2>2
  <2> QED
      BY <1>1, <1>3, <2>1, <2>2, Steady
<1> QED
    BY <1>5, <1>6

-----------------------------------------------------------------------------
(* Users are made, entered and left *)

\* A step by which c enters a session: it is on no list.
LEMMA EnterMember ==
    ASSUME IInv, JInv, NEW c \in Conns, getUser(c) \/ addUser(c)
    PROVE  JInv'
<1> USE DEF Login, Naming
<1>1. /\ pc[c] \in {"getUser", "addUser"} /\ currUser[c] = Null /\ Standing(c)
      /\ frame[c].command # "DISCONNECT"
    BY DEF getUser, addUser, At, JInv, Placed, IInv
<1>2. \A ch \in Channels : ~OnList(ch, c)
    BY <1>1 DEF JInv, Placed
<1>3. PICK l \in Naming : pc' = [pc EXCEPT ![c] = l]
    BY DEF getUser, addUser, Goto
<1>4. UNCHANGED <<connToName, chanNameToChanData, frame, visited>>
    BY DEF getUser, addUser, registry, locals
<1>5. userData[c] = Null
    BY <1>1, NullAssumption DEF JInv, Makers
<1>6. PICK x \in Conns : currUser' = [currUser EXCEPT ![c] = x]
  <2>1. frame[c].user \in Users
      BY <1>1 DEF Standing, IInv, TypeOK, Frame
  <2>2. CASE getUser(c)
    <3>1. userToData[frame[c].user] \in Conns
        BY <2>1, <2>2, <1>1 DEF getUser, At, Standing, IInv, TypeOK
    <3> QED
        BY <2>2, <3>1 DEF getUser
  <2>3. CASE addUser(c)
      BY <2>3 DEF addUser
  <2> QED
      BY <2>2, <2>3
<1>7. currUser'[c] = x /\ \A d \in Conns \ {c} : currUser'[d] = currUser[d]
    BY <1>6 DEF IInv, TypeOK
<1>8. /\ \A z \in Conns \ {c} : userData'[z] = userData[z]
      /\ userData'[c] # Null => x = c
  <2>1. CASE getUser(c)
      BY <1>5, <2>1 DEF getUser
  <2>2. CASE addUser(c)
      BY <1>6, <1>7, <2>2 DEF addUser, IInv, TypeOK
  <2> QED
      BY <2>1, <2>2
<1>9. Apart(c)
  <2>1. OthersStay(c) /\ ListsShrink(c)
      BY <1>3, <1>4, <1>7 DEF OthersStay, ListsShrink, OnList, IInv, TypeOK
  <2> QED
      BY <1>1, <1>4, <1>5, <1>7, <1>8, <2>1 DEF Apart
<1>10. Makers'
    BY <1>7, <1>8 DEF JInv, Makers
<1>11. pc'[c] = l /\ \A ch \in Channels : ~OnList(ch, c)'
    BY <1>2, <1>3, <1>4 DEF OnList, IInv, TypeOK
<1>12. Placed(c)' /\ Member(c)'
    BY <1>1, <1>4, <1>7, <1>11, NullAssumption DEF Placed, Member
<1> QED
    BY <1>9, <1>10, <1>12, MemberStep

\* A step that writes one user object, x: another's subscriptions stay as they are.
LEMMA WriteMember ==
    ASSUME IInv, JInv, NEW c \in Conns, NEW x \in Conns, userData[x] \in UserData,
           NEW new \in UserData, userData' = [userData EXCEPT ![x] = new],
           x = currUser[c] \/ new.subs = userData[x].subs,
           UNCHANGED <<registry, chanNameToChanData, currUser>>, currUser[c] # Null,
           NEW l, NEW f, NEW v,
           pc' = [pc EXCEPT ![c] = l], frame' = [frame EXCEPT ![c] = f],
           visited' = [visited EXCEPT ![c] = v],
           l = "idle" => f = NoFrame /\ v = {},
           l \in Login \cup {"error"} => f.command # "DISCONNECT",
           l \notin Login \ Naming,
           Alone(c) => \A ch \in Channels : OnList(ch, c) => MayBeOn(ch, l, f, v, mySubs(c)')
    PROVE  JInv'
<1>1. /\ pc'[c] = l /\ frame'[c] = f /\ visited'[c] = v /\ currUser'[c] = currUser[c]
    BY DEF IInv, TypeOK
<1>2. userData'[x] = new /\ \A z \in Conns \ {x} : userData'[z] = userData[z]
    BY DEF IInv, TypeOK
<1>3. Apart(c)
  <2>1. OthersStay(c) /\ ListsShrink(c)
      BY DEF OthersStay, ListsShrink, OnList, registry, IInv, TypeOK
  <2> QED
      BY <1>1, <1>2, <2>1 DEF Apart, IInv, TypeOK
<1>4. Makers'
    BY <1>2, NullAssumption DEF JInv, Makers
<1>5. Placed(c)'
    BY <1>1 DEF Placed
<1>6. Member(c)'
    BY <1>1 DEF Member, Alone, OnList
<1> QED
    BY <1>3, <1>4, <1>5, <1>6, MemberStep

\* Entries and marks of a user object.
LEMMA WritesMember ==
    ASSUME IInv, JInv, NEW c \in Conns,
           logUser(c) \/ addChannel(c) \/ removeChannel(c) \/ logOut(c) \/ clear(c)
    PROVE  JInv'
<1> USE DEF Login, Naming
<1> DEFINE old == userData[currUser[c]]
<1>1. Standing(c) /\ Placed(c) /\ frame[c] \in Frame /\ visited[c] \in SUBSET Channels
    BY DEF IInv, JInv, TypeOK
<1>2. currUser[c] \in Conns /\ old \in UserData /\ currUser[c] # Null
  <2>1. pc[c] \in Session \cup Naming
      BY DEF logUser, addChannel, removeChannel, logOut, clear, At, Session, OnChannel
  <2> QED
      BY <1>1, <2>1, NullAssumption DEF Standing, IInv, TypeOK, Accounts
<1>3. UNCHANGED <<registry, chanNameToChanData, currUser>>
    BY DEF logUser, addChannel, removeChannel, logOut, clear
<1>4. ASSUME Alone(c), NEW ch \in Channels, OnList(ch, c)
      PROVE  MayBeOn(ch, pc[c], frame[c], visited[c], old.subs)
    BY <1>2, <1>4 DEF JInv, Member, mySubs
<1>5. /\ frame = [frame EXCEPT ![c] = frame[c]]
      /\ visited = [visited EXCEPT ![c] = visited[c]]
    BY DEF IInv, TypeOK
<1>6. ASSUME NEW new \in UserData, userData' = [userData EXCEPT ![currUser[c]] = new]
      PROVE  mySubs(c)' = new.subs
    BY <1>2, <1>3, <1>6 DEF mySubs, IInv, TypeOK
<1>7. CASE logUser(c)
  <2> DEFINE x == userToData[frame[c].user]
             new == [userData[x] EXCEPT !.loggedIn = TRUE]
  <2>1. /\ pc[c] = "logUser" /\ pc' = [pc EXCEPT ![c] = "addUserName"]
        /\ userData' = [userData EXCEPT ![x] = new] /\ UNCHANGED <<frame, visited>>
      BY <1>7 DEF logUser, At, Goto, locals
  <2>2. x \in Conns /\ userData[x] \in UserData
      BY <1>1, <2>1 DEF Standing, Frame, IInv, TypeOK, Accounts
  <2>3. new \in UserData /\ new.subs = userData[x].subs
      BY <2>2 DEF UserData
  <2>4. mySubs(c)' = mySubs(c)
    <3> HIDE DEF new, x
    <3>1. userData'[currUser[c]] = IF currUser[c] = x THEN new ELSE old
        BY <1>2, <2>1 DEF IInv, TypeOK
    <3> QED
        BY <1>3, <2>3, <3>1 DEF mySubs
  <2>5. frame[c].command # "DISCONNECT"
      BY <1>1, <2>1 DEF Placed
  <2> HIDE DEF new, x
  <2>6. ASSUME Alone(c), NEW ch \in Channels, OnList(ch, c)
        PROVE  MayBeOn(ch, "addUserName", frame[c], visited[c], mySubs(c)')
      BY <1>4, <2>1, <2>4, <2>5, <2>6 DEF MayBeOn, mySubs, Outside
  <2> QED
      BY <1>2, <1>3, <1>5, <2>1, <2>2, <2>3, <2>5, <2>6, WriteMember
<1>8. CASE addChannel(c)
  <2> DEFINE ch0 == frame[c].channel
             new == [old EXCEPT !.subs = old.subs \cup {ch0}]
  <2>1. /\ pc[c] = "addChannel" /\ Done(c)
        /\ userData' = [userData EXCEPT ![currUser[c]] = new]
      BY <1>8 DEF addChannel, At, channel
  <2>2. ch0 \in Channels
      BY <1>1, <2>1 DEF Standing, OnChannel, Frame
  <2>3. new \in UserData /\ new.subs = old.subs \cup {ch0}
      BY <1>2, <2>2 DEF UserData
  <2> HIDE DEF new, old
  <2>4. ASSUME Alone(c), NEW ch \in Channels, OnList(ch, c)
        PROVE  MayBeOn(ch, "idle", NoFrame, {}, mySubs(c)')
      BY <1>4, <1>6, <2>1, <2>3, <2>4 DEF MayBeOn, Outside, NoFrame
  <2>5. /\ pc' = [pc EXCEPT ![c] = "idle"] /\ frame' = [frame EXCEPT ![c] = NoFrame]
        /\ visited' = [visited EXCEPT ![c] = {}]
      BY <2>1, DoneState
  <2>6. "idle" \notin Login \cup {"error"}
      OBVIOUS
  <2> QED
      BY <1>2, <1>3, <2>1, <2>3, <2>4, <2>5, <2>6, WriteMember DEF old
<1>9. CASE removeChannel(c)
  <2> DEFINE ch0 == frame[c].channel
             new == [old EXCEPT !.subs = old.subs \ {ch0}]
  <2>1. /\ pc[c] = "removeChannel" /\ pc' = [pc EXCEPT ![c] = "send"]
        /\ userData' = [userData EXCEPT ![currUser[c]] = new] /\ UNCHANGED <<frame, visited>>
      BY <1>9 DEF removeChannel, At, Goto, channel, locals
  <2>2. new \in UserData /\ new.subs = old.subs \ {ch0}
      BY <1>2 DEF UserData
  <2> HIDE DEF new, old
  <2>3. ASSUME Alone(c), NEW ch \in Channels, OnList(ch, c)
        PROVE  MayBeOn(ch, "send", frame[c], visited[c], mySubs(c)')
      BY <1>4, <1>6, <2>1, <2>2, <2>3 DEF MayBeOn, Outside, Ending, Leaving
  <2> QED
      BY <1>2, <1>3, <1>5, <2>1, <2>2, <2>3, WriteMember DEF old
<1>10. CASE logOut(c)
  <2> DEFINE new == [old EXCEPT !.loggedIn = FALSE]
  <2>1. /\ pc[c] = "logOut" /\ pc' = [pc EXCEPT ![c] = "clear"]
        /\ userData' = [userData EXCEPT ![currUser[c]] = new] /\ UNCHANGED <<frame, visited>>
      BY <1>10 DEF logOut, At, Goto, locals
  <2>2. new \in UserData /\ new.subs = old.subs
      BY <1>2 DEF UserData
  <2> HIDE DEF new, old
  <2>3. ASSUME Alone(c), NEW ch \in Channels, OnList(ch, c)
        PROVE  MayBeOn(ch, "clear", frame[c], visited[c], mySubs(c)')
      BY <1>4, <1>6, <2>1, <2>2, <2>3 DEF MayBeOn, Outside, Ending, Leaving
  <2> QED
      BY <1>2, <1>3, <1>5, <2>1, <2>2, <2>3, WriteMember DEF old
<1>11. CASE clear(c)
  <2> DEFINE new == [old EXCEPT !.subs = {}]
  <2>1. /\ pc[c] = "clear" /\ pc' = [pc EXCEPT ![c] = "leaveAll"] /\ UNCHANGED frame
        /\ userData' = [userData EXCEPT ![currUser[c]] = new]
        /\ visited' = [visited EXCEPT ![c] = {}]
      BY <1>11 DEF clear, At, Goto
  <2>2. new \in UserData
      BY <1>2 DEF UserData
  <2> HIDE DEF new, old
  <2>3. ASSUME Alone(c), NEW ch \in Channels, OnList(ch, c)
        PROVE  MayBeOn(ch, "leaveAll", frame[c], {}, mySubs(c)')
      BY <1>4, <2>1, <2>3 DEF MayBeOn, Outside, Ending, Leaving
  <2> QED
      BY <1>2, <1>3, <1>5, <2>1, <2>2, <2>3, WriteMember DEF old
<1> QED
    BY <1>7, <1>8, <1>9, <1>10, <1>11

-----------------------------------------------------------------------------
(* Lists change *)

LEMMA ListMember ==
    ASSUME IInv, JInv, NEW c \in Conns, pc[c] \in Session, NEW ch \in Channels, Relisted(ch, c),
           UNCHANGED <<registry, userData, currUser, frame>>, NEW v,
           visited' = [visited EXCEPT ![c] = v],
           NEW l, l \notin Login \cup {"idle", "error"}, pc' = [pc EXCEPT ![c] = l],
           currUser[c] # Null /\ Alone(c) =>
               \A k \in Channels : OnList(k, c)' => MayBeOn(k, l, frame[c], v, mySubs(c))
    PROVE  JInv'
<1>1. currUser[c] # Null
    BY DEF IInv, Standing
<1>2. ListsShrink(c) /\ frame' = [frame EXCEPT ![c] = frame[c]]
    BY DEF ListsShrink, Relisted, OnList, IInv, TypeOK
<1>3. \A d \in Conns \ {c} : connToName'[d] = connToName[d]
    BY DEF registry
<1> QED
    BY <1>1, <1>2, <1>3, Steady

\* A channel is made or joined: c is on no list it was not on, but the new one.
LEMMA JoinMember ==
    ASSUME IInv, JInv, NEW c \in Conns, createChannel(c) \/ addSubscriber(c)
    PROVE  JInv'
<1> USE DEF Login, Leaving, Outside, Ending
<1>1. /\ pc[c] \in {"createChannel", "addSubscriber"}
      /\ UNCHANGED <<registry, userData, currUser, frame>>
      /\ visited' = [visited EXCEPT ![c] = visited[c]]
    BY DEF createChannel, addSubscriber, At, locals, IInv, TypeOK
<1>2. pc[c] \in Session /\ pc[c] \in OnChannel
    BY <1>1 DEF Session, OnChannel
<1>3. channel(c) \in Channels /\ (exists(c) => list(c) \in Seq(Conns) /\ IsInjective(list(c)))
    BY <1>2, ChannelOfFrame
<1>4. ASSUME currUser[c] # Null, Alone(c), NEW k \in Channels, OnList(k, c)
      PROVE  MayBeOn(k, pc[c], frame[c], visited[c], mySubs(c))
    BY <1>4 DEF JInv, Member
<1>5. PICK l \in {"addSubscriber", "addChannel", "thrown"} :
          /\ pc' = [pc EXCEPT ![c] = l]
          /\ \A k \in Channels \ {channel(c)} : chanNameToChanData'[k] = chanNameToChanData[k]
          /\ l # "addChannel" /\ chanNameToChanData'[channel(c)] # Null
                => c \notin ToSet(chanNameToChanData'[channel(c)])
          /\ Relisted(channel(c), c)
  <2>1. CASE createChannel(c)
    <3>1. SetChannel(channel(c), <<>>) /\ pc' = [pc EXCEPT ![c] = "addSubscriber"]
        BY <2>1 DEF createChannel, Goto
    <3>2. <<>> \in Seq(Conns) /\ IsInjective(<<>>) /\ ToSet(<<>>) = {}
        BY DEF IsInjective, ToSet
    <3>3. /\ chanNameToChanData' = [chanNameToChanData EXCEPT ![channel(c)] = <<>>]
          /\ it' \in [Conns -> Iterators] /\ Turns'
        BY <1>3, <3>1, SetChannelState
    <3> QED
        BY <1>3, <3>1, <3>2, <3>3 DEF Relisted, IInv, TypeOK
  <2>2. CASE addSubscriber(c) /\ ~exists(c)
    <3>1. pc' = [pc EXCEPT ![c] = "thrown"] /\ UNCHANGED <<chanNameToChanData, it>>
        BY <2>2 DEF addSubscriber, Throws, Goto
    <3> QED
        BY <1>3, <2>2, <3>1 DEF Relisted, exists, list, IInv, TypeOK, Turns
  <2>3. CASE addSubscriber(c) /\ exists(c)
    <3> DEFINE new == Append(list(c), c)
    <3>1. pc' = [pc EXCEPT ![c] = "addChannel"] /\ SetList(channel(c), new)
        BY <2>3 DEF addSubscriber, Goto
    <3>2. c \notin ToSet(list(c))
        BY <2>3 DEF addSubscriber, IInv, NotYetListed, At, OnList, exists, list
    <3>3. new \in Seq(Conns) /\ IsInjective(new) /\ ToSet(new) = ToSet(list(c)) \cup {c}
        BY <1>3, <2>3, <3>2, AppendToList
    <3> HIDE DEF new
    <3>4. /\ chanNameToChanData' = [chanNameToChanData EXCEPT ![channel(c)] = new]
          /\ it' \in [Conns -> Iterators] /\ Turns'
        BY <1>3, <3>1, <3>3, SetListState
    <3>5. Relisted(channel(c), c)
        BY <1>3, <2>3, <3>3, <3>4 DEF Relisted, OnList, exists, list, IInv, TypeOK
    <3> QED
        BY <1>3, <3>1, <3>4, <3>5 DEF IInv, TypeOK
  <2> QED
      BY <2>1, <2>2, <2>3
<1>6. ASSUME currUser[c] # Null /\ Alone(c), NEW k \in Channels, OnList(k, c)'
      PROVE  MayBeOn(k, l, frame[c], visited[c], mySubs(c))
  <2>1. CASE k = channel(c)
    <3>1. l = "addChannel"
        BY <1>5, <1>6, <2>1 DEF OnList
    <3> QED
        BY <2>1, <3>1 DEF MayBeOn, channel
  <2>2. CASE k # channel(c)
    <3>1. OnList(k, c)
        BY <1>5, <1>6, <2>2 DEF OnList
    <3> QED
        BY <1>1, <1>4, <1>6, <3>1 DEF MayBeOn
  <2> QED
      BY <2>1, <2>2
<1> QED
    BY <1>1, <1>2, <1>3, <1>5, <1>6, ListMember

\* removeSubscriber(): c is off the list, or its thread has ended.
LEMMA LeaveMember ==
    ASSUME IInv, JInv, NEW c \in Conns, dropChannel(c) \/ removeSubscriber(c)
    PROVE  JInv'
<1> USE DEF Login, Leaving, Outside, Ending
<1>1. /\ pc[c] \in {"dropChannel", "removeSubscriber"}
      /\ UNCHANGED <<registry, userData, currUser, frame>>
      /\ visited' = [visited EXCEPT ![c] = visited[c]]
    BY DEF dropChannel, removeSubscriber, At, locals, IInv, TypeOK
<1>2. pc[c] \in Session /\ pc[c] \in OnChannel /\ pc[c] \in Leaving
    BY <1>1 DEF Session, OnChannel
<1>3. channel(c) \in Channels
    BY <1>2, ChannelOfFrame
<1>4. /\ Removed[command(c)] \in {"removeChannel", "leave"}
      /\ Removed[command(c)] = "leave" => frame[c].command = "DISCONNECT"
    BY <1>2, RemovedLabel
<1>5. PICK l \in {"removeChannel", "leave", "thrown"} :
          /\ pc' = [pc EXCEPT ![c] = l] /\ Relisted(channel(c), c)
          /\ l # "thrown" => ~OnList(channel(c), c)'
  <2>1. CASE dropChannel(c)
    <3>1. SetChannel(channel(c), Null) /\ pc' = [pc EXCEPT ![c] = Removed[command(c)]]
        BY <2>1 DEF dropChannel, Goto
    <3>2. /\ chanNameToChanData' = [chanNameToChanData EXCEPT ![channel(c)] = Null]
          /\ it' \in [Conns -> Iterators] /\ Turns'
        BY <1>3, <3>1, SetChannelState
    <3>3. Relisted(channel(c), c) /\ chanNameToChanData'[channel(c)] = Null
        BY <1>3, <3>2 DEF Relisted, IInv, TypeOK
    <3>4. channel(c)' = channel(c)
        BY <1>1 DEF channel
    <3> QED
        BY <1>4, <3>1, <3>3, <3>4 DEF OnList
  <2>2. CASE removeSubscriber(c) /\ ~exists(c)
    <3>1. pc' = [pc EXCEPT ![c] = "thrown"] /\ UNCHANGED <<chanNameToChanData, it>>
        BY <2>2 DEF removeSubscriber, Throws, Goto
    <3> QED
        BY <1>3, <2>2, <3>1 DEF Relisted, exists, list, IInv, TypeOK, Turns
  <2>3. CASE removeSubscriber(c) /\ exists(c)
    <3>1. pc' = [pc EXCEPT ![c] = Removed[command(c)]] /\ TakeOff(channel(c), c)
        BY <2>3 DEF removeSubscriber, Goto
    <3>2. Relisted(channel(c), c) /\ c \notin ToSet(chanNameToChanData'[channel(c)])
        BY <1>3, <2>3, <3>1, TakeOffState DEF exists, list
    <3>3. channel(c)' = channel(c)
        BY <1>1 DEF channel
    <3> QED
        BY <1>4, <3>1, <3>2, <3>3 DEF OnList
  <2> QED
      BY <2>1, <2>2, <2>3
<1>6. ASSUME currUser[c] # Null /\ Alone(c), NEW k \in Channels, OnList(k, c)'
      PROVE  MayBeOn(k, l, frame[c], visited[c], mySubs(c))
  <2>1. CASE l = "thrown"
      BY <2>1 DEF MayBeOn
  <2>2. CASE l # "thrown"
    <3>1. k # channel(c)
        BY <1>1, <1>5, <1>6, <2>2 DEF channel, OnList
    <3>2. OnList(k, c)
        BY <1>5, <1>6, <3>1 DEF OnList, Relisted
    <3>3. MayBeOn(k, pc[c], frame[c], visited[c], mySubs(c))
        BY <1>6, <3>2 DEF JInv, Member
    <3> QED
        BY <1>1, <1>5, <2>2, <3>1, <3>3 DEF MayBeOn, channel
  <2> QED
      BY <2>1, <2>2
<1> QED
    BY <1>1, <1>2, <1>3, <1>5, <1>6, ListMember

\* The loop of disconnect() takes c off more lists, and puts it on none.
LEMMA LeaveAnotherMember ==
    ASSUME IInv, JInv, NEW c \in Conns, LeaveAnother(c)
    PROVE  JInv'
<1> USE DEF Login, Leaving, Outside, Ending
<1>1. PICK ch \in theirSubs(c) \ visited[c] :
          /\ visited' = [visited EXCEPT ![c] = @ \cup {ch}]
          /\ \/ /\ chanNameToChanData[ch] = Null /\ Throws(c)
                /\ UNCHANGED <<chanNameToChanData, it>>
             \/ /\ chanNameToChanData[ch] # Null
                /\ TakeOff(ch, c)
                /\ UNCHANGED pc
    BY DEF LeaveAnother
<1>2. /\ pc[c] = "leaveAll" /\ pc[c] \in Session
      /\ UNCHANGED <<registry, userData, currUser, frame>>
    BY DEF LeaveAnother, At, Session
<1>3. ch \in Channels
    BY <1>1, <1>2, SessionData DEF theirSubs, UserData
<1>4. PICK l \in {"leaveAll", "thrown"} :
          /\ pc' = [pc EXCEPT ![c] = l] /\ Relisted(ch, c)
          /\ OnList(ch, c)' => OnList(ch, c)
  <2>1. CASE chanNameToChanData[ch] = Null
    <3>1. pc' = [pc EXCEPT ![c] = "thrown"] /\ UNCHANGED <<chanNameToChanData, it>>
        BY <1>1, <2>1 DEF Throws, Goto
    <3> QED
        BY <1>3, <2>1, <3>1 DEF Relisted, OnList, IInv, TypeOK, Turns
  <2>2. CASE chanNameToChanData[ch] # Null
    <3>1. pc' = [pc EXCEPT ![c] = "leaveAll"] /\ TakeOff(ch, c)
        BY <1>1, <1>2, <2>2 DEF IInv, TypeOK
    <3> QED
        BY <1>3, <2>2, <3>1, TakeOffState DEF OnList
  <2> QED
      BY <2>1, <2>2
<1>5. ASSUME currUser[c] # Null /\ Alone(c), NEW k \in Channels, OnList(k, c)'
      PROVE  MayBeOn(k, l, frame[c], visited[c] \cup {ch}, mySubs(c))
  <2>1. OnList(k, c)
      BY <1>4, <1>5 DEF OnList, Relisted
  <2>2. MayBeOn(k, pc[c], frame[c], visited[c], mySubs(c))
      BY <1>5, <2>1 DEF JInv, Member
  <2> QED
      BY <1>2, <2>2 DEF MayBeOn
<1> QED
    BY <1>1, <1>2, <1>3, <1>4, <1>5, ListMember

-----------------------------------------------------------------------------
(* The theorems about lists and ids *)

LEMMA InitMember == Init => JInv
BY DEF Init, JInv, Makers, Placed, Member, OnList, Login, Naming

LEMMA NextMember == IInv /\ JInv /\ [Next]_vars => JInv'
<1> SUFFICES ASSUME IInv, JInv, [Next]_vars PROVE JInv'
    OBVIOUS
<1>1. CASE UNCHANGED vars
  <2>1. UNCHANGED <<clientsToCH, userToData, connToName, chanNameToChanData, userData,
                    currUser, pc, it, frame, visited>>
      BY <1>1 DEF vars, registry, locals
  <2> QED
      BY <2>1 DEF JInv, Makers, Placed, Member, MayBeOn, OnList, Alone, mySubs
<1>2. ASSUME NEW c \in Conns, Receive(c) \/ Break(c) \/ Work(c) PROVE JInv'
    BY <1>2, LooksMember, IteratorsMember, EndsMember, ReceiveMember, LoopMember,
       EnterMember, WritesMember, JoinMember, LeaveMember, LeaveAnotherMember
       DEF Work
<1> QED
    BY <1>1, <1>2 DEF Next

LEMMA Membership == Spec => []JInv
<1> QED
    BY InitMember, NextMember, Invariance, PTL DEF Spec

\* A connection between its frames is on no list that it has no id for, if it is alone
\* with its user: ids and lists are changed in different steps, with other connections'
\* joins, exits and replaced channels between them.
THEOREM ListedHaveIds == Spec => []ListedHasId
<1>1. JInv => ListedHasId
    BY DEF JInv, Member, MayBeOn, ListedHasId, At, Outside
<1> QED
    BY <1>1, Membership, PTL

\* A connection that has been through DISCONNECT is on no list, if it is alone with its
\* user.
THEOREM LogoutsLeaveLists == Spec => []LogoutLeavesChannels
<1>1. JInv => LogoutLeavesChannels
    BY DEF JInv, Placed, Member, MayBeOn, LogoutLeavesChannels, At, command, Ending
<1> QED
    BY <1>1, Membership, PTL

-----------------------------------------------------------------------------
(* The third invariant: marks, as long as sessions are apart                 *)

\* A user object is one user's.
OneName == \A u, v \in Users : userToData[u] # Null /\ userToData[u] = userToData[v] => u = v

Mark(c) ==
    /\ HasSession(c) /\ pc[c] # "logUser" =>
          \A u \in Users : userToData[u] = currUser[c] => userData[currUser[c]].loggedIn
    /\ pc[c] = "logUser" => \A u \in Users : userToData[u] = currUser[c] => u = frame[c].user

KInv == OneName /\ \A c \in Conns : Mark(c)

Gone == {"clear", "leaveAll", "removeClient", "removeName", "terminated", "thrown"}

\* A step that leaves users and marks alone.
LEMMA MarkStep ==
    ASSUME IInv, KInv, NEW c \in Conns, NEW l,
           pc' = [pc EXCEPT ![c] = l], l # "logUser", pc[c] # "logUser",
           pc[c] \in Gone => l \in Gone,
           \A d \in Conns \ {c} : frame'[d] = frame[d],
           UNCHANGED <<userToData, currUser>>,
           \A x \in Conns : userData[x] # Null => userData'[x].loggedIn = userData[x].loggedIn
    PROVE  KInv'
<1>1. OneName'
    BY DEF KInv, OneName
<1>2. ASSUME NEW d \in Conns PROVE Mark(d)'
  <2>1. Mark(d)
      BY DEF KInv
  <2>2. currUser[d] # Null => currUser[d] \in Conns /\ userData[currUser[d]] # Null
      BY DEF IInv, TypeOK, Accounts
  <2>3. CASE d = c
    <3>1. pc'[d] = l
        BY <2>3 DEF IInv, TypeOK
    <3>2. HasSession(d)' => HasSession(d)
        BY <2>3, <3>1 DEF HasSession, Gone
    <3> QED
        BY <2>1, <2>2, <2>3, <3>1, <3>2 DEF Mark, HasSession
  <2>4. CASE d # c
    <3>1. pc'[d] = pc[d] /\ frame'[d] = frame[d]
        BY <2>4 DEF IInv, TypeOK
    <3>2. HasSession(d)' <=> HasSession(d)
        BY <3>1 DEF HasSession
    <3> QED
        BY <2>1, <2>2, <3>1, <3>2 DEF Mark, HasSession
  <2> QED
      BY <2>3, <2>4
<1> QED
    BY <1>1, <1>2 DEF KInv

LEMMA LooksMark ==
    ASSUME IInv, KInv, NEW c \in Conns,
           \/ isCorrectPassword(c) \/ isUserLoggedIn(c) \/ isSubscribed(c)
           \/ nSubscribers(c) \/ sendToChannel(c) \/ containsKey(c) \/ ERROR(c)
           \/ AllLeft(c) \/ Break(c) \/ NoSubscriptionLeft(c)
    PROVE  KInv'
<1>1. PICK here, l : /\ Look(c, here, l) /\ here # "logUser" /\ l # "logUser"
                     /\ here \in Gone => l \in Gone
  <2>1. CASE isSubscribed(c)
    <3> DEFINE l == IF ~exists(c) THEN "thrown"
                    ELSE IF c \in ToSet(list(c))
                    THEN Subscribed[command(c)] ELSE NotSubscribed[command(c)]
    <3>1. Look(c, "isSubscribed", l)
        BY <2>1 DEF isSubscribed
    <3>2. frame[c].command \in {"SUBSCRIBE", "SEND", "UNSUBSCRIBE"}
        BY <3>1 DEF Look, At, IInv, Standing
    <3>3. l # "logUser"
        BY <3>2 DEF Subscribed, NotSubscribed, command, exists
    <3> HIDE DEF l
    <3> QED
        BY <3>1, <3>3 DEF Gone
  <2>2. CASE isCorrectPassword(c) \/ isUserLoggedIn(c)
      BY <2>2 DEF isCorrectPassword, isUserLoggedIn, Gone
  <2>3. CASE nSubscribers(c)
    <3>1. PICK l \in {"thrown", "dropChannel", "removeSubscriber"} : Look(c, "nSubscribers", l)
        BY <2>3 DEF nSubscribers
    <3> QED
        BY <3>1 DEF Gone
  <2>5. CASE sendToChannel(c)
    <3>1. PICK l \in {"getSubscribers", "done"} : Look(c, "send", l)
        BY <2>5 DEF sendToChannel
    <3> QED
        BY <3>1 DEF Gone
  <2>6. CASE containsKey(c)
    <3>1. PICK l \in {"deliver", "next"} : Look(c, "containsKey", l)
        BY <2>6 DEF containsKey
    <3> QED
        BY <3>1 DEF Gone
  <2>4. CASE ERROR(c) \/ AllLeft(c) \/ Break(c) \/ NoSubscriptionLeft(c)
      BY <2>4 DEF ERROR, AllLeft, Break, NoSubscriptionLeft, Gone
  <2> QED
      BY <2>1, <2>2, <2>3, <2>4, <2>5, <2>6
<1> QED
    BY <1>1, MarkStep DEF Look, At, Goto, registry, locals

LEMMA IteratorsMark ==
    ASSUME IInv, KInv, NEW c \in Conns,
           \/ getSubscribers(c) \/ NextSubscriber(c) \/ ListChanged(c) \/ getSubId(c)
           \/ deliver(c) \/ removeClient(c) \/ removeName(c) \/ NextSubscription(c)
    PROVE  KInv'
<1>1. PICK l \in {"thrown", "next", "getSubId", "containsKey", "removeName", "terminated",
                  "nSubscribers"} :
          pc' = [pc EXCEPT ![c] = l]
    BY DEF getSubscribers, NextSubscriber, ListChanged, getSubId, deliver, removeClient,
           removeName, NextSubscription, Throws, Goto
<1>2. /\ pc[c] \in {"getSubscribers", "next", "getSubId", "deliver", "removeClient",
                    "removeName", "leave"}
      /\ pc[c] \in {"removeClient", "removeName"} => l \in {"removeName", "terminated"}
    BY <1>1 DEF getSubscribers, NextSubscriber, ListChanged, getSubId, deliver, removeClient,
                removeName, NextSubscription, Throws, Goto, At, IInv, TypeOK
<1>3. /\ UNCHANGED <<userToData, userData, currUser>>
      /\ \A d \in Conns \ {c} : frame'[d] = frame[d]
    BY DEF getSubscribers, NextSubscriber, ListChanged, getSubId, deliver, removeClient,
           removeName, NextSubscription, registry, locals, IInv, TypeOK
<1> QED
    BY <1>1, <1>2, <1>3, MarkStep DEF Gone

LEMMA EndsMark ==
    ASSUME IInv, KInv, NEW c \in Conns,
           addUserName(c) \/ NoSubscriberLeft(c) \/ EndHandler(c) \/ Receive(c)
    PROVE  KInv'
<1>1. CASE Receive(c)
  <2>1. PICK l \in {"addUser", "isCorrectPassword", "createChannel", "isSubscribed", "error",
                    "leave"} : pc' = [pc EXCEPT ![c] = l]
      BY <1>1 DEF Receive, Connect, Subscribe, Send, Unsubscribe, Disconnect, Begin, Goto
  <2>2. /\ pc[c] = "idle" /\ UNCHANGED <<userToData, userData, currUser>>
        /\ \A d \in Conns \ {c} : frame'[d] = frame[d]
      BY <1>1 DEF Receive, Connect, Subscribe, Send, Unsubscribe, Disconnect, Begin, At,
                  registry, IInv, TypeOK
  <2> QED
      BY <2>1, <2>2, MarkStep DEF Gone
<1>2. CASE addUserName(c) \/ NoSubscriberLeft(c) \/ EndHandler(c)
  <2>1. /\ Done(c) /\ pc[c] \in {"addUserName", "next", "done"}
        /\ UNCHANGED <<userToData, userData, currUser>>
      BY <1>2 DEF addUserName, NoSubscriberLeft, EndHandler, At, registry
  <2>2. \A d \in Conns \ {c} : frame'[d] = frame[d]
      BY <2>1 DEF Done, IInv, TypeOK
  <2> QED
      BY <2>1, <2>2, DoneState, MarkStep DEF Gone
<1> QED
    BY <1>1, <1>2

LEMMA ListsMark ==
    ASSUME IInv, KInv, NEW c \in Conns,
           \/ createChannel(c) \/ addSubscriber(c) \/ dropChannel(c) \/ removeSubscriber(c)
           \/ LeaveAnother(c)
    PROVE  KInv'
<1>1. UNCHANGED <<userToData, userData, currUser, frame>>
    BY DEF createChannel, addSubscriber, dropChannel, removeSubscriber, LeaveAnother,
           registry, locals
<1>2. CASE LeaveAnother(c)
  <2>1. pc[c] = "leaveAll"
      BY <1>2 DEF LeaveAnother, At
  <2>2. PICK l \in {"leaveAll", "thrown"} : pc' = [pc EXCEPT ![c] = l]
      BY <1>2, <2>1 DEF LeaveAnother, Throws, Goto, IInv, TypeOK
  <2> QED
      BY <1>1, <2>1, <2>2, MarkStep DEF Gone
<1>3. CASE createChannel(c) \/ addSubscriber(c)
  <2>1. pc[c] \in {"createChannel", "addSubscriber"}
      BY <1>3 DEF createChannel, addSubscriber, At
  <2>2. PICK l \in {"addSubscriber", "addChannel", "thrown"} : pc' = [pc EXCEPT ![c] = l]
      BY <1>3 DEF createChannel, addSubscriber, Throws, Goto
  <2> QED
      BY <1>1, <2>1, <2>2, MarkStep DEF Gone
<1>4. CASE dropChannel(c) \/ removeSubscriber(c)
  <2>1. pc[c] \in {"dropChannel", "removeSubscriber"} /\ pc[c] \in Leaving
      BY <1>4 DEF dropChannel, removeSubscriber, At, Leaving
  <2>2. Removed[command(c)] \in {"removeChannel", "leave"}
      BY <2>1, RemovedLabel
  <2>3. PICK l \in {"removeChannel", "leave", "thrown"} : pc' = [pc EXCEPT ![c] = l]
      BY <1>4, <2>2 DEF dropChannel, removeSubscriber, Throws, Goto
  <2> QED
      BY <1>1, <2>1, <2>3, MarkStep DEF Gone
<1> QED
    BY <1>2, <1>3, <1>4

\* Subscriptions are entered, removed and cleared under the mark that is there.
LEMMA SubsMark ==
    ASSUME IInv, KInv, NEW c \in Conns, addChannel(c) \/ removeChannel(c) \/ clear(c)
    PROVE  KInv'
<1> DEFINE old == userData[currUser[c]]
<1>1. /\ pc[c] \in {"addChannel", "removeChannel", "clear"} /\ pc[c] \in Session
      /\ UNCHANGED <<userToData, currUser>>
    BY DEF addChannel, removeChannel, clear, At, registry, Session, OnChannel
<1>2. currUser[c] \in Conns /\ old \in UserData
    BY <1>1, SessionData
<1>3. PICK l \in {"idle", "send", "leaveAll"} : /\ pc' = [pc EXCEPT ![c] = l]
                                                /\ pc[c] = "clear" => l = "leaveAll"
    BY <1>1, DoneState DEF addChannel, removeChannel, clear, At, Goto
<1>4. \A d \in Conns \ {c} : frame'[d] = frame[d]
    BY DoneState DEF addChannel, removeChannel, clear, locals, IInv, TypeOK
<1>5. PICK s : userData' = [userData EXCEPT ![currUser[c]] = [old EXCEPT !.subs = s]]
  <2>1. CASE addChannel(c)
    <3>1. userData' = [userData EXCEPT ![currUser[c]] =
                          [old EXCEPT !.subs = old.subs \cup {channel(c)}]]
        BY <2>1 DEF addChannel
    <3> QED
        BY <3>1
  <2>2. CASE removeChannel(c)
    <3>1. userData' = [userData EXCEPT ![currUser[c]] =
                          [old EXCEPT !.subs = old.subs \ {channel(c)}]]
        BY <2>2 DEF removeChannel
    <3> QED
        BY <3>1
  <2>3. CASE clear(c)
    <3>1. userData' = [userData EXCEPT ![currUser[c]] = [old EXCEPT !.subs = {}]]
        BY <2>3 DEF clear
    <3> QED
        BY <3>1
  <2> QED
      BY <2>1, <2>2, <2>3
<1>6. \A x \in Conns : userData[x] # Null => userData'[x].loggedIn = userData[x].loggedIn
  <2> DEFINE new == [old EXCEPT !.subs = s]
  <2>1. new.loggedIn = old.loggedIn
      BY <1>2 DEF UserData
  <2>2. userData' = [userData EXCEPT ![currUser[c]] = new]
      BY <1>5
  <2> HIDE DEF new, old
  <2> QED
      BY <2>1, <2>2 DEF IInv, TypeOK, old
<1> QED
    BY <1>1, <1>3, <1>4, <1>6, MarkStep DEF Gone

\* The step that resets a mark: no other session has it.
LEMMA logOutMark ==
    ASSUME IInv, KInv, SessionsApart, NEW c \in Conns, logOut(c)
    PROVE  KInv'
<1> DEFINE old == userData[currUser[c]]
           new == [old EXCEPT !.loggedIn = FALSE]
<1>1. /\ pc[c] = "logOut" /\ pc' = [pc EXCEPT ![c] = "clear"]
      /\ userData' = [userData EXCEPT ![currUser[c]] = new]
      /\ UNCHANGED <<userToData, currUser, frame>>
    BY DEF logOut, At, Goto, registry, locals
<1>2. currUser[c] \in Conns /\ currUser[c] # Null
    BY <1>1, SessionData DEF Session, IInv, Standing
<1> HIDE DEF new
<1>3. OneName'
    BY <1>1 DEF KInv, OneName
<1>4. ASSUME NEW d \in Conns PROVE Mark(d)'
  <2>1. CASE d = c
    <3>1. pc'[d] = "clear"
        BY <1>1, <2>1 DEF IInv, TypeOK
    <3> QED
        BY <3>1 DEF Mark, HasSession
  <2>2. CASE d # c
    <3>1. pc'[d] = pc[d] /\ frame'[d] = frame[d] /\ currUser'[d] = currUser[d]
        BY <1>1, <2>2 DEF IInv, TypeOK
    <3>2. HasSession(c)
        BY <1>1, <1>2 DEF HasSession
    <3>3. HasSession(d) => currUser[d] # currUser[c]
        BY <2>2, <3>2 DEF SessionsApart
    <3>4. HasSession(d) => userData'[currUser[d]] = userData[currUser[d]]
        BY <1>1, <3>3 DEF HasSession, IInv, TypeOK
    <3> QED
        BY <1>1, <3>1, <3>4 DEF KInv, Mark, HasSession
  <2> QED
      BY <2>1, <2>2
<1> QED
    BY <1>3, <1>4 DEF KInv

LEMMA logUserMark ==
    ASSUME IInv, KInv, NEW c \in Conns, logUser(c)
    PROVE  KInv'
<1> DEFINE x == userToData[frame[c].user]
           new == [userData[x] EXCEPT !.loggedIn = TRUE]
<1>1. /\ pc[c] = "logUser" /\ pc' = [pc EXCEPT ![c] = "addUserName"]
      /\ userData' = [userData EXCEPT ![x] = new]
      /\ UNCHANGED <<userToData, currUser, frame>>
    BY DEF logUser, At, Goto, registry, locals
<1>2. x \in Conns /\ userData[x] \in UserData
    BY <1>1 DEF IInv, Standing, Login, Frame, TypeOK, Accounts
<1>3. new.loggedIn
    BY <1>2 DEF UserData
<1> HIDE DEF new, x
<1>4. \A z \in Conns : userData'[z] = IF z = x THEN new ELSE userData[z]
    BY <1>1 DEF IInv, TypeOK
<1>5. OneName'
    BY <1>1 DEF KInv, OneName
<1>6. ASSUME NEW d \in Conns PROVE Mark(d)'
  <2>1. Mark(d) /\ frame'[d] = frame[d] /\ currUser'[d] = currUser[d]
      BY <1>1 DEF KInv
  <2>2. currUser[d] # Null => currUser[d] \in Conns
      BY DEF IInv, TypeOK
  <2>3. CASE d = c
    <3>1. pc'[d] = "addUserName"
        BY <1>1, <2>3 DEF IInv, TypeOK
    <3>2. \A u \in Users : userToData[u] = currUser[c] => currUser[c] = x
        BY <1>1, <2>1, <2>3 DEF Mark, x
    <3> QED
        BY <1>1, <1>3, <1>4, <2>1, <2>2, <2>3, <3>1, <3>2 DEF Mark, HasSession
  <2>4. CASE d # c
    <3>1. pc'[d] = pc[d]
        BY <1>1, <2>4 DEF IInv, TypeOK
    <3> QED
        BY <1>1, <1>3, <1>4, <2>1, <2>2, <3>1 DEF Mark, HasSession
  <2> QED
      BY <2>3, <2>4
<1> QED
    BY <1>5, <1>6 DEF KInv

LEMMA getUserMark ==
    ASSUME IInv, KInv, NEW c \in Conns, getUser(c)
    PROVE  KInv'
<1>1. /\ pc[c] = "getUser" /\ pc' = [pc EXCEPT ![c] = "logUser"]
      /\ currUser' = [currUser EXCEPT ![c] = userToData[frame[c].user]]
      /\ UNCHANGED <<userToData, userData, frame>>
    BY DEF getUser, At, Goto, registry, locals
<1>2. frame[c].user \in Users /\ userToData[frame[c].user] # Null
    BY <1>1 DEF IInv, Standing, Login, Frame, TypeOK
<1>3. OneName /\ OneName'
    BY <1>1 DEF KInv, OneName
<1>4. ASSUME NEW d \in Conns PROVE Mark(d)'
  <2>1. CASE d = c
    <3>1. pc'[d] = "logUser" /\ currUser'[d] = userToData[frame[c].user] /\ frame'[d] = frame[c]
        BY <1>1, <2>1 DEF IInv, TypeOK
    <3>2. \A u \in Users : userToData'[u] = currUser'[d] => u = frame'[d].user
        BY <1>1, <1>2, <1>3, <3>1 DEF OneName
    <3> QED
        BY <3>1, <3>2 DEF Mark
  <2>2. CASE d # c
    <3>1. pc'[d] = pc[d] /\ currUser'[d] = currUser[d]
        BY <1>1, <2>2 DEF IInv, TypeOK
    <3> QED
        BY <1>1, <3>1 DEF KInv, Mark, HasSession
  <2> QED
      BY <2>1, <2>2
<1> QED
    BY <1>3, <1>4 DEF KInv

\* A new object takes the place of the user's old one, and is nobody else's.
LEMMA addUserMark ==
    ASSUME IInv, JInv, KInv, NEW c \in Conns, addUser(c)
    PROVE  KInv'
<1> DEFINE new == [password |-> frame[c].passcode, loggedIn |-> TRUE, subs |-> {}]
           u0 == frame[c].user
<1>1. /\ pc[c] = "addUser" /\ pc' = [pc EXCEPT ![c] = "addUserName"]
      /\ userData' = [userData EXCEPT ![c] = new]
      /\ currUser' = [currUser EXCEPT ![c] = c]
      /\ userToData' = [userToData EXCEPT ![u0] = c]
      /\ UNCHANGED frame
    BY DEF addUser, At, Goto, locals
<1>2. u0 \in Users
    BY <1>1 DEF IInv, Standing, Login, Frame, TypeOK
<1>3. userData[c] = Null
    BY <1>1, NullAssumption DEF JInv, Makers, Placed, Login, Naming
<1>4. new.loggedIn
    OBVIOUS
<1> HIDE DEF new, u0
<1>5. /\ \A u \in Users : userToData[u] # c
      /\ \A d \in Conns : currUser[d] # c
    BY <1>3, NullAssumption DEF IInv, Accounts
<1>6. \A u \in Users : userToData'[u] = IF u = u0 THEN c ELSE userToData[u]
    BY <1>1 DEF IInv, TypeOK
<1>7. OneName'
    BY <1>5, <1>6 DEF KInv, OneName
<1>8. ASSUME NEW d \in Conns PROVE Mark(d)'
  <2>1. CASE d = c
    <3>1. pc'[d] = "addUserName" /\ currUser'[d] = c /\ userData'[c] = new
        BY <1>1, <2>1 DEF IInv, TypeOK
    <3> QED
        BY <1>4, <3>1 DEF Mark
  <2>2. CASE d # c
    <3>1. /\ pc'[d] = pc[d] /\ currUser'[d] = currUser[d] /\ currUser[d] # c
          /\ frame'[d] = frame[d]
        BY <1>1, <1>5, <2>2 DEF IInv, TypeOK
    <3>2. currUser[d] # Null => userData'[currUser[d]] = userData[currUser[d]]
        BY <1>1, <3>1 DEF IInv, TypeOK
    <3>3. \A u \in Users : userToData'[u] = currUser[d] => userToData[u] = currUser[d]
        BY <1>6, <3>1
    <3> QED
        BY <3>1, <3>2, <3>3 DEF KInv, Mark, HasSession
  <2> QED
      BY <2>1, <2>2
<1> QED
    BY <1>7, <1>8 DEF KInv

LEMMA InitMark == Init => KInv
BY DEF Init, KInv, OneName, Mark, HasSession

LEMMA NextMark == IInv /\ JInv /\ KInv /\ SessionsApart /\ [Next]_vars => KInv'
<1> SUFFICES ASSUME IInv, JInv, KInv, SessionsApart, [Next]_vars PROVE KInv'
    OBVIOUS
<1>1. CASE UNCHANGED vars
  <2>1. UNCHANGED <<clientsToCH, userToData, connToName, chanNameToChanData, userData,
                    currUser, pc, it, frame, visited>>
      BY <1>1 DEF vars, registry, locals
  <2> QED
      BY <2>1 DEF KInv, OneName, Mark, HasSession
<1>2. ASSUME NEW c \in Conns, Receive(c) \/ Break(c) \/ Work(c) PROVE KInv'
    BY <1>2, LooksMark, IteratorsMark, EndsMark, ListsMark, SubsMark, logOutMark, logUserMark,
       getUserMark, addUserMark
       DEF Work
<1> QED
    BY <1>1, <1>2 DEF Next

\* As long as no two sessions have the same user object, a connection finds its user
\* marked as logged in between its frames, however logouts and logins overlap.
THEOREM SettledAreMarked == Spec => SettledIsMarked
<1>1. IInv /\ KInv => MarkedWhenIdle
  <2> SUFFICES ASSUME IInv, KInv, NEW c \in Conns, At(c, "idle"), currUser[c] # Null,
                      currUser[c] = userToData[connToName[c]]
               PROVE  userData[currUser[c]].loggedIn
      BY DEF MarkedWhenIdle
  <2>1. connToName[c] \in Users /\ HasSession(c) /\ pc[c] # "logUser"
      BY DEF At, HasSession, IInv, Standing, Naming, TypeOK
  <2> QED
      BY <2>1 DEF KInv, Mark
<1> QED
    BY <1>1, InitMark, NextMark, Invariance, Membership, PTL DEF Spec, SettledIsMarked

=============================================================================
