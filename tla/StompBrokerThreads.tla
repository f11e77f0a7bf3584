-------------------------- MODULE StompBrokerThreads --------------------------
(***************************************************************************)
(* The handlers of StompBroker as the threads of the thread-per-client     *)
(* server run them: side by side, over maps and lists that are safe for    *)
(* one access each and for no more.  A thread is a program counter, and a  *)
(* step is one access to what threads share.  map.get(k).f() is one step:  *)
(* an object replaced between get() and f() might as well be replaced      *)
(* right after f().                                                        *)
(*                                                                         *)
(* Clients behave: a connection logs in once, before its other frames, and *)
(* has an id of its own for each channel, so that a user's two maps of     *)
(* subscriptions are the set of channels that have an id.  StompBroker has *)
(* the clients that do not.  Receipts, which only a connection's own       *)
(* thread sends, are left out.                                             *)
(***************************************************************************)
EXTENDS Naturals, SequencesExt

CONSTANTS Conns, Users, Passcodes, Channels,
          Null    \* Java's null

VARIABLES
  (* ConnectionsImpl.  A UserData is named by the connection that created it,  *)
  (* and Channel objects are their lists of subscribers.                       *)
    clientsToCH, userToData, connToName, chanNameToChanData,
    userData,
  (* the protocol objects' current users *)
    currUser,
  (* the threads: program counter, frame in work, iterator over subscribers    *)
    pc, frame, it,
    visited   \* the channels the loop of DISCONNECT has been to

registry == <<clientsToCH, userToData, connToName>>
locals == <<frame, visited>>
vars == <<registry, chanNameToChanData, userData, currUser, pc, it, locals>>

UserData == [password : Passcodes, loggedIn : BOOLEAN, subs : SUBSET Channels]
Frame == [command : {"CONNECT", "SUBSCRIBE", "UNSUBSCRIBE", "SEND", "DISCONNECT"},
          user : Users \cup {Null}, passcode : Passcodes \cup {Null},
          channel : Channels \cup {Null}]
NoFrame == [command |-> "CONNECT", user |-> Null, passcode |-> Null, channel |-> Null]

ASSUME NullAssumption ==
    /\ Null \notin Conns \cup Users \cup Passcodes \cup Channels \cup UserData
    /\ Null \notin Seq(Conns)

At(c, label) == pc[c] = label
Goto(c, label) == pc' = [pc EXCEPT ![c] = label]
command(c) == frame[c].command
channel(c) == frame[c].channel

\* The list of the channel the frame is about, and what an exception does: the
\* thread is gone, and nothing is tidied up.
list(c) == chanNameToChanData[channel(c)]
exists(c) == list(c) # Null
Throws(c) == Goto(c, "thrown")

\* A step that only reads what threads share, and decides where the thread goes.
Look(c, here, there) ==
    /\ At(c, here)
    /\ Goto(c, there)
    /\ UNCHANGED <<registry, chanNameToChanData, userData, currUser, it, locals>>

\* The end of a handler.
Done(c) ==
    /\ Goto(c, "idle")
    /\ frame' = [frame EXCEPT ![c] = NoFrame]
    /\ visited' = [visited EXCEPT ![c] = {}]

-----------------------------------------------------------------------------
(* Iterators of ArrayList.  One over a list that has changed throws in next(), *)
(* unless it has as many elements behind it as the list has left: then it ends. *)
(* owed are those who were on the list all along and have not had their turn.  *)

Iterator(ch, l) == [on |-> ch, list |-> l, cursor |-> 0, stale |-> FALSE,
                    owed |-> ToSet(l), member |-> Null]
NoIterator == Iterator(Null, <<>>)

hasNext(c) == it[c].cursor # Len(it[c].list)

\* The channel's list becomes l, under the iterators that are on it.
SetList(ch, l) ==
    /\ chanNameToChanData' = [chanNameToChanData EXCEPT ![ch] = l]
    /\ it' = [c \in Conns |->
                IF it[c].on # ch THEN it[c]
                ELSE [it[c] EXCEPT !.list = l, !.stale = TRUE, !.owed = @ \cap ToSet(l)]]

\* The map has another Channel, or none; iterators stay on the one they have.
SetChannel(ch, l) ==
    /\ chanNameToChanData' = [chanNameToChanData EXCEPT ![ch] = l]
    /\ it' = [c \in Conns |-> IF it[c].on # ch THEN it[c] ELSE [it[c] EXCEPT !.on = Null]]

\* Mutant: remove() with an index where the subscriber is meant.
TakeOff_ByIndex(ch, c) ==
    IF c \in ToSet(chanNameToChanData[ch])
    THEN SetList(ch, Tail(chanNameToChanData[ch]))
    ELSE UNCHANGED <<chanNameToChanData, it>>

\* Channel.removeSubscriber()
TakeOff(ch, c) ==
    IF c \in ToSet(chanNameToChanData[ch])
    THEN SetList(ch, RemoveFirst(chanNameToChanData[ch], c))
    ELSE UNCHANGED <<chanNameToChanData, it>>

-----------------------------------------------------------------------------
(* exectueCONNECT *)

\* isUser()
Connect(c, u, p) ==
    /\ At(c, "idle") /\ currUser[c] = Null
    /\ frame' = [frame EXCEPT ![c] = [@ EXCEPT !.user = u, !.passcode = p]]
    /\ Goto(c, IF userToData[u] = Null THEN "addUser" ELSE "isCorrectPassword")
    /\ UNCHANGED <<registry, chanNameToChanData, userData, currUser, it, visited>>

data(c) == userData[userToData[frame[c].user]]

isCorrectPassword(c) ==
    Look(c, "isCorrectPassword",
         IF data(c).password = frame[c].passcode THEN "isUserLoggedIn" ELSE "error")

isUserLoggedIn(c) ==
    Look(c, "isUserLoggedIn", IF data(c).loggedIn THEN "error" ELSE "getUser")

\* Mutant: the name is kept where the user's data belongs.
getUser_Name(c) ==
    /\ At(c, "getUser")
    /\ currUser' = [currUser EXCEPT ![c] = frame[c].user]
    /\ Goto(c, "logUser")
    /\ UNCHANGED <<registry, chanNameToChanData, userData, it, locals>>

getUser(c) ==
    /\ At(c, "getUser")
    /\ currUser' = [currUser EXCEPT ![c] = userToData[frame[c].user]]
    /\ Goto(c, "logUser")
    /\ UNCHANGED <<registry, chanNameToChanData, userData, it, locals>>

\* Mutant: the mark is left as disconnect() left it.
logUser_Forgets(c) ==
    /\ At(c, "logUser")
    /\ Goto(c, "addUserName")
    /\ UNCHANGED <<registry, chanNameToChanData, userData, currUser, it, locals>>

logUser(c) ==
    /\ At(c, "logUser")
    /\ userData' = [userData EXCEPT ![userToData[frame[c].user]].loggedIn = TRUE]
    /\ Goto(c, "addUserName")
    /\ UNCHANGED <<registry, chanNameToChanData, currUser, it, locals>>

addUser(c) ==
    /\ At(c, "addUser")
    /\ userData' = [userData EXCEPT ![c] = [password |-> frame[c].passcode,
                                            loggedIn |-> TRUE, subs |-> {}]]
    /\ currUser' = [currUser EXCEPT ![c] = c]
    /\ userToData' = [userToData EXCEPT ![frame[c].user] = c]
    /\ Goto(c, "addUserName")
    /\ UNCHANGED <<clientsToCH, connToName, chanNameToChanData, it, locals>>

addUserName(c) ==
    /\ At(c, "addUserName")
    /\ connToName' = [connToName EXCEPT ![c] = frame[c].user]
    /\ Done(c)
    /\ UNCHANGED <<clientsToCH, userToData, chanNameToChanData, userData, currUser, it>>

-----------------------------------------------------------------------------
(* The other frames begin *)

Begin(c, type, ch, label) ==
    /\ At(c, "idle") /\ currUser[c] # Null
    /\ frame' = [frame EXCEPT ![c] = [@ EXCEPT !.command = type, !.channel = ch]]
    /\ Goto(c, label)
    /\ UNCHANGED <<registry, chanNameToChanData, userData, currUser, it, visited>>

mySubs(c) == userData[currUser[c]].subs

\* isChannel(), isChannel(), getChannel()
Subscribe(c, ch) ==
    Begin(c, "SUBSCRIBE", ch,
          IF chanNameToChanData[ch] = Null THEN "createChannel" ELSE "isSubscribed")
Send(c, ch) ==
    Begin(c, "SEND", ch, IF chanNameToChanData[ch] = Null THEN "error" ELSE "isSubscribed")
Unsubscribe(c, ch) ==
    Begin(c, "UNSUBSCRIBE", ch, IF ch \in mySubs(c) THEN "isSubscribed" ELSE "error")
\* Mutant: the user's data is cleared before the loop over its subscriptions.
Disconnect_ClearsFirst(c) == Begin(c, "DISCONNECT", Null, "logOut")

Disconnect(c) == Begin(c, "DISCONNECT", Null, "leave")

\* isSubscribed() of the three handlers.
NotSubscribed == [SUBSCRIBE |-> "addSubscriber", SEND |-> "error", UNSUBSCRIBE |-> "error"]
Subscribed == [SUBSCRIBE |-> "done", SEND |-> "send", UNSUBSCRIBE |-> "nSubscribers"]

\* Mutant: a connection is never found on the channel it subscribes to.
isSubscribed_Forgotten(c) ==
    Look(c, "isSubscribed",
         IF ~exists(c) THEN "thrown"
         ELSE IF c \in ToSet(list(c)) /\ command(c) # "SUBSCRIBE"
         THEN Subscribed[command(c)] ELSE NotSubscribed[command(c)])

isSubscribed(c) ==
    Look(c, "isSubscribed",
         IF ~exists(c) THEN "thrown"
         ELSE IF c \in ToSet(list(c))
         THEN Subscribed[command(c)] ELSE NotSubscribed[command(c)])

\* A frame is dropped or done with.
EndHandler(c) ==
    /\ At(c, "done")
    /\ Done(c)
    /\ UNCHANGED <<registry, chanNameToChanData, userData, currUser, it>>

-----------------------------------------------------------------------------
(* exectueSUBSCRIBE *)

createChannel(c) ==
    /\ At(c, "createChannel")
    /\ SetChannel(channel(c), <<>>)
    /\ Goto(c, "addSubscriber")
    /\ UNCHANGED <<registry, userData, currUser, locals>>

addSubscriber(c) ==
    /\ At(c, "addSubscriber")
    /\ \/ /\ ~exists(c) /\ Throws(c)
          /\ UNCHANGED <<chanNameToChanData, it>>
       \/ /\ exists(c)
          /\ SetList(channel(c), Append(list(c), c))
          /\ Goto(c, "addChannel")
    /\ UNCHANGED <<registry, userData, currUser, locals>>

addChannel(c) ==
    /\ At(c, "addChannel")
    /\ userData' = [userData EXCEPT ![currUser[c]].subs = @ \cup {channel(c)}]
    /\ Done(c)
    /\ UNCHANGED <<registry, chanNameToChanData, currUser, it>>

-----------------------------------------------------------------------------
(* ConnectionsImpl.removeSubscriber(), for UNSUBSCRIBE and for each turn of the  *)
(* loop of DISCONNECT                                                           *)

Removed == [UNSUBSCRIBE |-> "removeChannel", DISCONNECT |-> "leave"]

nSubscribers(c) ==
    Look(c, "nSubscribers",
         IF ~exists(c) THEN "thrown"
         ELSE IF Len(list(c)) = 1 THEN "dropChannel" ELSE "removeSubscriber")

dropChannel(c) ==
    /\ At(c, "dropChannel")
    /\ SetChannel(channel(c), Null)
    /\ Goto(c, Removed[command(c)])
    /\ UNCHANGED <<registry, userData, currUser, locals>>

removeSubscriber(c) ==
    /\ At(c, "removeSubscriber")
    /\ \/ /\ ~exists(c) /\ Throws(c)
          /\ UNCHANGED <<chanNameToChanData, it>>
       \/ /\ exists(c)
          /\ TakeOff(channel(c), c)
          /\ Goto(c, Removed[command(c)])
    /\ UNCHANGED <<registry, userData, currUser, locals>>

\* UserData.removeChannel(), and then UNSUBSCRIBED() tells the channel.
removeChannel(c) ==
    /\ At(c, "removeChannel")
    /\ userData' = [userData EXCEPT ![currUser[c]].subs = @ \ {channel(c)}]
    /\ Goto(c, "send")
    /\ UNCHANGED <<registry, chanNameToChanData, currUser, it, locals>>

\* The loop of exectueDISCONNECT: an entry that is there, each one once.
NextSubscription(c) ==
    /\ At(c, "leave")
    /\ \E ch \in mySubs(c) \ visited[c] :
          /\ visited' = [visited EXCEPT ![c] = @ \cup {ch}]
          /\ frame' = [frame EXCEPT ![c].channel = ch]
    /\ Goto(c, "nSubscribers")
    /\ UNCHANGED <<registry, chanNameToChanData, userData, currUser, it>>

NoSubscriptionLeft(c) ==
    /\ Look(c, "leave", "logOut")
    /\ mySubs(c) \subseteq visited[c]

-----------------------------------------------------------------------------
(* send(channel, m): the MESSAGE of SEND, and the UNSUBSCRIBE frame of UNSUBSCRIBE *)

sendToChannel(c) ==
    Look(c, "send", IF exists(c) THEN "getSubscribers" ELSE "done")

getSubscribers(c) ==
    /\ At(c, "getSubscribers")
    /\ \/ /\ ~exists(c) /\ Throws(c)
          /\ UNCHANGED it
       \/ /\ exists(c)
          /\ it' = [it EXCEPT ![c] = Iterator(channel(c), list(c))]
          /\ Goto(c, "next")
    /\ UNCHANGED <<registry, chanNameToChanData, userData, currUser, locals>>

NextSubscriber(c) ==
    /\ At(c, "next") /\ hasNext(c) /\ ~it[c].stale
    /\ LET d == it[c].list[it[c].cursor + 1]
       IN  it' = [it EXCEPT ![c].cursor = @ + 1, ![c].member = d, ![c].owed = @ \ {d}]
    /\ Goto(c, IF command(c) = "SEND" THEN "getSubId" ELSE "containsKey")
    /\ UNCHANGED <<registry, chanNameToChanData, userData, currUser, locals>>

NoSubscriberLeft(c) ==
    /\ At(c, "next") /\ ~hasNext(c)
    /\ Done(c)
    /\ it' = [it EXCEPT ![c] = NoIterator]
    /\ UNCHANGED <<registry, chanNameToChanData, userData, currUser>>

\* Mutant: the loop starts over when the list has changed.
ListChanged_StartsOver(c) ==
    /\ At(c, "next") /\ hasNext(c) /\ it[c].stale
    /\ Goto(c, "send")
    /\ it' = [it EXCEPT ![c] = NoIterator]
    /\ UNCHANGED <<registry, chanNameToChanData, userData, currUser, locals>>

\* ConcurrentModificationException
ListChanged(c) ==
    /\ At(c, "next") /\ hasNext(c) /\ it[c].stale
    /\ Throws(c)
    /\ it' = [it EXCEPT ![c] = NoIterator]
    /\ UNCHANGED <<registry, chanNameToChanData, userData, currUser, locals>>

\* getUser(getName(d)).getSubId(channel): d has a user, unless it has just left.
getSubId(c) ==
    LET user  == connToName[it[c].member]
        known == IF user = Null THEN FALSE ELSE userToData[user] # Null
    IN  /\ At(c, "getSubId")
        /\ \/ /\ ~known /\ Throws(c)
              /\ it' = [it EXCEPT ![c] = NoIterator]
           \/ /\ known /\ Goto(c, "containsKey")
              /\ UNCHANGED it
        /\ UNCHANGED <<registry, chanNameToChanData, userData, currUser, locals>>

\* send(d, msg): is d's handler there, and what is it?
containsKey(c) ==
    Look(c, "containsKey", IF it[c].member \in clientsToCH THEN "deliver" ELSE "next")

\* BlockingConnectionHandler.send(): the sender's thread writes to d's socket and
\* flushes.  When d does not read, that may last as long as the server keeps the
\* socket open, which it does until d's thread ends.
MayBlock(c) ==
    /\ At(c, "deliver") /\ it[c].member # c
    /\ pc[it[c].member] \notin {"thrown", "terminated"}

deliver(c) ==
    /\ At(c, "deliver")
    /\ \/ /\ it[c].member \notin clientsToCH /\ Throws(c)
          /\ it' = [it EXCEPT ![c] = NoIterator]
       \/ /\ it[c].member \in clientsToCH /\ Goto(c, "next")
          /\ UNCHANGED it
    /\ UNCHANGED <<registry, chanNameToChanData, userData, currUser, locals>>

-----------------------------------------------------------------------------
(* ERROR(), and disconnect(), with which DISCONNECT goes on.  An ERROR before    *)
(* the login has nothing to disconnect.                                         *)

ERROR(c) ==
    Look(c, "error", IF currUser[c] = Null THEN "terminated" ELSE "logOut")

\* UserData.disconnect(), in two steps.
logOut(c) ==
    /\ At(c, "logOut")
    /\ userData' = [userData EXCEPT ![currUser[c]].loggedIn = FALSE]
    /\ Goto(c, "clear")
    /\ UNCHANGED <<registry, chanNameToChanData, currUser, it, locals>>

clear(c) ==
    /\ At(c, "clear")
    /\ userData' = [userData EXCEPT ![currUser[c]].subs = {}]
    /\ visited' = [visited EXCEPT ![c] = {}]
    /\ Goto(c, "leaveAll")
    /\ UNCHANGED <<registry, chanNameToChanData, currUser, it, frame>>

\* The loop of ConnectionsImpl.disconnect().  It finds only what another connection
\* of the same user has subscribed to since clear().
theirSubs(c) == userData[userToData[connToName[c]]].subs

LeaveAnother(c) ==
    /\ At(c, "leaveAll")
    /\ \E ch \in theirSubs(c) \ visited[c] :
          /\ visited' = [visited EXCEPT ![c] = @ \cup {ch}]
          /\ \/ /\ chanNameToChanData[ch] = Null /\ Throws(c)
                /\ UNCHANGED <<chanNameToChanData, it>>
             \/ /\ chanNameToChanData[ch] # Null
                /\ TakeOff(ch, c)
                /\ UNCHANGED pc
    /\ UNCHANGED <<registry, userData, currUser, frame>>

AllLeft(c) ==
    /\ Look(c, "leaveAll", "removeClient")
    /\ theirSubs(c) \subseteq visited[c]

\* Mutant: the user is forgotten with the connection.
removeClient_DropsUser(c) ==
    /\ At(c, "removeClient")
    /\ clientsToCH' = clientsToCH \ {c}
    /\ userToData' = [userToData EXCEPT ![connToName[c]] = Null]
    /\ Goto(c, "removeName")
    /\ UNCHANGED <<connToName, chanNameToChanData, userData, currUser, it, locals>>

removeClient(c) ==
    /\ At(c, "removeClient")
    /\ clientsToCH' = clientsToCH \ {c}
    /\ Goto(c, "removeName")
    /\ UNCHANGED <<userToData, connToName, chanNameToChanData, userData, currUser, it, locals>>

removeName(c) ==
    /\ At(c, "removeName")
    /\ connToName' = [connToName EXCEPT ![c] = Null]
    /\ Goto(c, "terminated")
    /\ UNCHANGED <<clientsToCH, userToData, chanNameToChanData, userData, currUser, it, locals>>

\* The connection breaks while its thread waits for a frame.
Break(c) ==
    Look(c, "idle", "thrown")

-----------------------------------------------------------------------------

\* The server has accepted all connections.
Init ==
    /\ clientsToCH = Conns
    /\ userToData = [u \in Users |-> Null]
    /\ connToName = [c \in Conns |-> Null]
    /\ chanNameToChanData = [ch \in Channels |-> Null]
    /\ userData = [c \in Conns |-> Null]
    /\ currUser = [c \in Conns |-> Null]
    /\ pc = [c \in Conns |-> "idle"]
    /\ frame = [c \in Conns |-> NoFrame]
    /\ it = [c \in Conns |-> NoIterator]
    /\ visited = [c \in Conns |-> {}]

\* A frame has arrived.
Receive(c) ==
    \/ \E u \in Users, p \in Passcodes : Connect(c, u, p)
    \/ \E ch \in Channels : Subscribe(c, ch) \/ Send(c, ch) \/ Unsubscribe(c, ch)
    \/ Disconnect(c)

\* The thread works on its frame.
Work(c) ==
    \/ isCorrectPassword(c) \/ isUserLoggedIn(c) \/ getUser(c) \/ logUser(c)
    \/ addUser(c) \/ addUserName(c)
    \/ isSubscribed(c) \/ createChannel(c) \/ addSubscriber(c) \/ addChannel(c)
    \/ nSubscribers(c) \/ dropChannel(c) \/ removeSubscriber(c) \/ removeChannel(c)
    \/ NextSubscription(c) \/ NoSubscriptionLeft(c)
    \/ sendToChannel(c) \/ getSubscribers(c) \/ NextSubscriber(c) \/ NoSubscriberLeft(c)
    \/ ListChanged(c) \/ getSubId(c) \/ containsKey(c) \/ deliver(c) \/ EndHandler(c)
    \/ ERROR(c) \/ logOut(c) \/ clear(c)
    \/ LeaveAnother(c) \/ AllLeft(c) \/ removeClient(c) \/ removeName(c)

Next == \E c \in Conns : Receive(c) \/ Break(c) \/ Work(c)

\* Every thread that has work is scheduled, and a client reads the answers to its own
\* frames.  No client has to send anything, or to read what another one sends it.
Fairness == \A c \in Conns : WF_vars(Work(c) /\ ~MayBlock(c))

Spec == Init /\ [][Next]_vars /\ Fairness

-----------------------------------------------------------------------------

Labels == {"idle", "thrown", "terminated"} \cup
          {"addUser", "isCorrectPassword", "isUserLoggedIn", "getUser", "logUser",
           "addUserName", "isSubscribed", "createChannel", "addSubscriber",
           "addChannel", "nSubscribers", "dropChannel", "removeSubscriber",
           "removeChannel", "leave", "send", "getSubscribers", "next", "getSubId",
           "containsKey", "deliver", "done", "error", "logOut", "clear", "leaveAll",
           "removeClient", "removeName"}

Iterators ==
    [on : Channels \cup {Null}, list : Seq(Conns), cursor : Nat, stale : BOOLEAN,
     owed : SUBSET Conns, member : Conns \cup {Null}]

\* Every variable keeps its type, and a thread is at one of its labels.
TypeOK ==
    /\ clientsToCH \in SUBSET Conns
    /\ userToData \in [Users -> Conns \cup {Null}]
    /\ connToName \in [Conns -> Users \cup {Null}]
    /\ chanNameToChanData \in [Channels -> Seq(Conns) \cup {Null}]
    /\ userData \in [Conns -> UserData \cup {Null}]
    /\ currUser \in [Conns -> Conns \cup {Null}]
    /\ pc \in [Conns -> Labels]
    /\ frame \in [Conns -> Frame]
    /\ it \in [Conns -> Iterators]
    /\ visited \in [Conns -> SUBSET Channels]

OnList(ch, c) == chanNameToChanData[ch] # Null /\ c \in ToSet(chanNameToChanData[ch])

\* No other connection has been given the same user object.
Alone(c) == \A d \in Conns \ {c} : currUser[d] = Null \/ currUser[d] # currUser[c]

\* However joins, exits and replaced channels overlap, no connection is on a list
\* twice, so that one SEND is one MESSAGE for each subscriber: isSubscribed() and
\* addSubscriber() are two steps, but both of the connection's own thread.
ListedOnce ==
    \A ch \in Channels : chanNameToChanData[ch] # Null => IsInjective(chanNameToChanData[ch])

\* c has a session: it has been given a user object and has not reset its mark.
HasSession(c) ==
    /\ currUser[c] # Null
    /\ pc[c] \notin {"clear", "leaveAll", "removeClient", "removeName", "terminated", "thrown"}

\* No two sessions have the same user object: isUserLoggedIn() and logUser(), being two
\* steps, do not rule that out.
SessionsApart ==
    \A c, d \in Conns : c # d /\ HasSession(c) /\ HasSession(d) => currUser[c] # currUser[d]

\* Between its frames a connection finds its user marked as logged in, unless the
\* user's object has been replaced under it.
MarkedWhenIdle ==
    \A c \in Conns : At(c, "idle") /\ currUser[c] # Null /\ currUser[c] = userToData[connToName[c]]
                        => userData[currUser[c]].loggedIn

\* As long as no two sessions have the same user object, the next CONNECT of a user who
\* is logged in is refused: disconnect() resets the mark long before its logout is over,
\* and a login of the same user may come in between.
SettledIsMarked == []SessionsApart => []MarkedWhenIdle

\* There is a user behind every name in connToName: send(channel, m) follows the
\* names of others without a null check, while those log in and out.
NamedUsersExist ==
    \A c \in Conns : connToName[c] # Null => userToData[connToName[c]] # Null

\* A connection that is on a channel has the id to leave it by whenever it can send its
\* next frame; the other way round does not hold.
ListedHasId ==
    \A c \in Conns : At(c, "idle") /\ currUser[c] # Null /\ Alone(c) =>
        \A ch \in Channels : OnList(ch, c) => ch \in mySubs(c)

\* A connection that has been through DISCONNECT is on no channel, whatever others
\* did to its channels meanwhile.
LogoutLeavesChannels ==
    \A c \in Conns : At(c, "terminated") /\ command(c) = "DISCONNECT" /\ Alone(c) =>
        \A ch \in Channels : ~OnList(ch, c)

\* Every frame is dealt with in the end, or ends its thread, unless the thread stays in
\* its write to another client that does not read: nothing else makes a handler wait,
\* and the loops over subscribers end though the lists keep changing.
HandlersEnd ==
    \A c \in Conns : pc[c] \notin {"idle", "thrown", "terminated"}
        ~> pc[c] \in {"idle", "thrown", "terminated"} \/ []MayBlock(c)

-----------------------------------------------------------------------------
(* What comments say of one handler and do not hold of two *)

\* ConnectionsImpl.java:152, on removeSubscriber(): "@INV
\* channelToSubsribers.get(channel).contains(connectionId)".
ListedWhenLeaving ==
    \A c \in Conns : At(c, "nSubscribers") => OnList(channel(c), c)

\* StompMessagingProtocolImpl.java:389, on SEND(): "sending MESSAGE frame to
\* everyone in 'channel'".  Whoever was there all along has had a turn when the
\* loop ends.
SendReachesEveryone ==
    [][\A c \in Conns : At(c, "next") /\ command(c) = "SEND" /\ pc'[c] \in {"idle", "thrown"}
                           => it[c].owed = {}]_vars

=============================================================================
