----------------------------- MODULE StompBroker -----------------------------
(***************************************************************************)
(* The STOMP server behind the sockets: StompMessagingProtocolImpl (one    *)
(* protocol object per connection) over the shared ConnectionsImpl,        *)
(* Channel and UserData objects, as the thread-per-client server drives    *)
(* them (BaseServer, BlockingConnectionHandler).                           *)
(*                                                                         *)
(* One action is one call of process(): a whole frame handler, with every  *)
(* call it makes.  StompBroker therefore shows what the code does when     *)
(* handlers do not overlap.  An uncaught exception leaves what the handler *)
(* did so far in place and ends the connection's thread (Thrown).          *)
(*                                                                         *)
(* Data: names, passcodes, ids and channels are opaque.  A frame is        *)
(* abstracted to whether extract() and the check...() of its command       *)
(* accept it, and to the header values the handler reads.  Channel's       *)
(* isStarted is left out: setStarted() has no caller, so it stays false.   *)
(***************************************************************************)
EXTENDS Naturals, SequencesExt

CONSTANTS Conns,      \* the ids connectionIdGenerator hands out
          Users,      \* login names
          Passcodes,
          Channels,   \* destinations
          SubIds,     \* values of the id header
          Null        \* Java's null, and the clientId -1

VARIABLES sock,               \* the socket of a connection and its thread
          clientsToCH,        \* ConnectionsImpl: the registered handlers
          userToData,         \* ConnectionsImpl: user -> UserData
          chanNameToChanData, \* ConnectionsImpl: channel -> its list of subscribers
          connToName,         \* ConnectionsImpl: connection -> user
          loggedIn,           \* protocol object: a well-formed CONNECT was seen
          currUser,           \* protocol object: its UserData, by user name
          shouldTerminate,    \* protocol object
          out                 \* the frames the last handler sent

vars == <<sock, clientsToCH, userToData, chanNameToChanData, connToName,
          loggedIn, currUser, shouldTerminate, out>>
protocol == <<currUser, shouldTerminate>>

-----------------------------------------------------------------------------
(* UserData *)

SubMap  == [SubIds -> Channels \cup {Null}]
ChanMap == [Channels -> SubIds \cup {Null}]

UserData == [password        : Passcodes,
             clientId        : Conns \cup {Null},
             loggedIn        : BOOLEAN,
             subIdTochannels : SubMap,
             channelsToSubId : ChanMap]

ASSUME NullAssumption ==
    /\ Null \notin Conns \cup Users \cup Channels \cup SubIds
    /\ Null \notin Seq(Conns)
    /\ Null \notin UserData

NoSubs  == [s \in SubIds |-> Null]
NoChans == [ch \in Channels |-> Null]

NewUserData(p, c) ==
    [password |-> p, clientId |-> c, loggedIn |-> TRUE,
     subIdTochannels |-> NoSubs, channelsToSubId |-> NoChans]

\* Mutant: disconnect() keeps the subscription maps.
UserDisconnect_KeepsMaps(data) ==
    [data EXCEPT !.loggedIn = FALSE, !.clientId = Null]

UserDisconnect(data) ==
    [data EXCEPT !.loggedIn = FALSE, !.clientId = Null,
                 !.subIdTochannels = NoSubs, !.channelsToSubId = NoChans]

\* Mutant: the id is stored where the channel belongs.
addChannel_WrongValue(data, s, ch) ==
    [data EXCEPT !.subIdTochannels[s] = s, !.channelsToSubId[ch] = s]

addChannel(data, s, ch) ==
    [data EXCEPT !.subIdTochannels[s] = ch, !.channelsToSubId[ch] = s]

removeChannel(data, s) ==
    [data EXCEPT !.channelsToSubId[data.subIdTochannels[s]] = Null,
                 !.subIdTochannels[s] = Null]

-----------------------------------------------------------------------------
(* Channel and the channel map of ConnectionsImpl.  RemoveFirst is what       *)
(* List.remove((Object) c) does.                                           *)

isChannel(ch) == chanNameToChanData[ch] # Null
isSubscribed(ch, c) == c \in ToSet(chanNameToChanData[ch])

\* Mutant: an off-by-one in nSubscribers() == 1.
LastSubscriber_OffByOne(list) == Len(list) <= 2
\* Mutant: the channel is never removed from the map.
LastSubscriber_Never(list) == FALSE

LastSubscriber(list) == Len(list) = 1

\* ConnectionsImpl.removeSubscriber(): the last one out removes the channel.
removeSubscriber(list, c) ==
    IF LastSubscriber(list) THEN Null ELSE RemoveFirst(list, c)

\* The channels a UserData's subscription ids lead to.
SubscribedTo(data) == {data.subIdTochannels[s] : s \in SubIds} \ {Null}

-----------------------------------------------------------------------------
(* Sending.  send(connectionId, msg) reaches registered handlers only.     *)

Frame(c, type, sub) == [to |-> c, type |-> type, sub |-> sub]
FrameTypes == {"CONNECTED", "MESSAGE", "RECEIPT", "ERROR", "UNSUBSCRIBE"}
Frames == [to : Conns, type : FrameTypes, sub : SubIds \cup {Null}]

send(c, type) ==
    IF c \in clientsToCH THEN {Frame(c, type, Null)} ELSE {}

RECEIPT(c, receipt) == IF receipt THEN send(c, "RECEIPT") ELSE {}

\* process() answers a frame other than CONNECT on a connection that has not
\* logged in with ERROR, then runs the frame's handler all the same.
NotLoggedInError(c) == IF loggedIn[c] THEN {} ELSE send(c, "ERROR")
NotLoggedInTerminate(c) ==
    shouldTerminate' = [shouldTerminate EXCEPT ![c] = @ \/ ~loggedIn[c]]

-----------------------------------------------------------------------------
(* Leaving *)

\* The loop of ConnectionsImpl.disconnect() over the user's subscriptions.
ConnectionsLeave(chans, data, c) ==
    [ch \in Channels |->
        IF ch \in SubscribedTo(data) THEN RemoveFirst(chans[ch], c) ELSE chans[ch]]

\* StompMessagingProtocolImpl.disconnect(): it clears the user's data first, so
\* ConnectionsImpl.disconnect() finds no subscription left to walk through.
\* chans are the channels as the caller leaves them.
disconnect(c, chans) ==
    IF currUser[c] = Null
    THEN /\ chanNameToChanData' = chans
         /\ UNCHANGED <<userToData, clientsToCH, connToName>>
    ELSE LET data == [userToData EXCEPT ![currUser[c]] = UserDisconnect(@)]
         IN  /\ userToData' = data
             /\ chanNameToChanData' = ConnectionsLeave(chans, data[connToName[c]], c)
             /\ clientsToCH' = clientsToCH \ {c}
             /\ connToName' = [connToName EXCEPT ![c] = Null]

terminate(c) == shouldTerminate' = [shouldTerminate EXCEPT ![c] = TRUE]

\* ERROR(): answer, disconnect(), terminate().  replies were sent before it.
ERROR(c, replies) ==
    /\ out' = replies \cup send(c, "ERROR")
    /\ disconnect(c, chanNameToChanData)
    /\ terminate(c)
    /\ UNCHANGED <<sock, currUser>>

\* An exception leaves process() and run(); try-with-resources closes the
\* socket, and nothing else is tidied up.
Thrown(c) ==
    /\ sock' = [sock EXCEPT ![c] = "closed"]
    /\ UNCHANGED currUser

-----------------------------------------------------------------------------
(* The frame handlers.  run() calls process() until shouldTerminate().      *)

Ready(c) == sock[c] = "open" /\ ~shouldTerminate[c]

\* Mutant: only users who are logged in count as known.
isUser_LoggedInOnly(u) == userToData[u] # Null /\ userToData[u].loggedIn

isUser(u) == userToData[u] # Null

\* Mutant: nobody is ever found logged in.
isUserLoggedIn_Never(u) == FALSE

isUserLoggedIn(u) == userToData[u].loggedIn

\* The user of a successful CONNECT becomes the connection's current user.
Login(c, u, data, receipt) ==
    /\ currUser' = [currUser EXCEPT ![c] = u]
    /\ userToData' = [userToData EXCEPT ![u] = data]
    /\ connToName' = [connToName EXCEPT ![c] = u]
    /\ out' = send(c, "CONNECTED") \cup RECEIPT(c, receipt)
    /\ UNCHANGED <<sock, clientsToCH, chanNameToChanData, shouldTerminate>>

\* CONNECT of a known user with the right passcode logs the user in unless
\* somebody is; an unknown user is created, unless this connection has one.
exectueCONNECT(c, u, p, receipt) ==
    LET data     == userToData[u]
        admitted == data.password = p /\ ~isUserLoggedIn(u)
        occupied == currUser[c] # Null /\ userToData[currUser[c]].loggedIn
    IN  /\ Ready(c)
        /\ loggedIn' = [loggedIn EXCEPT ![c] = TRUE]
        /\ \/ /\ isUser(u) /\ admitted
              /\ Login(c, u, [data EXCEPT !.loggedIn = TRUE, !.clientId = c], receipt)
           \/ /\ isUser(u) /\ ~admitted
              /\ ERROR(c, {})
           \/ /\ ~isUser(u) /\ occupied
              /\ ERROR(c, {})
           \/ /\ ~isUser(u) /\ ~occupied
              /\ Login(c, u, NewUserData(p, c), receipt)

\* The list SUBSCRIBE leaves: a new channel's, or the old one's with c added.
Joined(ch, c) ==
    IF isChannel(ch) THEN Append(chanNameToChanData[ch], c) ELSE <<c>>

\* A second SUBSCRIBE to the same channel is dropped without an answer.  Before
\* CONNECT the connection joins the channel, and then currUser is null.
exectueSUBSCRIBE(c, s, ch, receipt) ==
    /\ Ready(c)
    /\ NotLoggedInTerminate(c)
    /\ \/ /\ isChannel(ch) /\ isSubscribed(ch, c)
          /\ out' = NotLoggedInError(c)
          /\ UNCHANGED <<sock, currUser, userToData, chanNameToChanData>>
       \/ /\ ~(isChannel(ch) /\ isSubscribed(ch, c))
          /\ chanNameToChanData' = [chanNameToChanData EXCEPT ![ch] = Joined(ch, c)]
          /\ \/ /\ currUser[c] = Null
                /\ out' = NotLoggedInError(c)
                /\ Thrown(c)
                /\ UNCHANGED userToData
             \/ /\ currUser[c] # Null
                /\ userToData' = [userToData EXCEPT ![currUser[c]] = addChannel(@, s, ch)]
                /\ out' = RECEIPT(c, receipt)
                /\ UNCHANGED <<sock, currUser>>
    /\ UNCHANGED <<clientsToCH, connToName, loggedIn>>

\* UNSUBSCRIBE by id.  Those who stay on the channel are told.
executeUNSUBSCRIBE(c, s) ==
    LET ch    == userToData[currUser[c]].subIdTochannels[s]
        legal == ch # Null /\ isSubscribed(ch, c)
        rest  == removeSubscriber(chanNameToChanData[ch], c)
        told  == IF rest = Null THEN {} ELSE ToSet(rest)
    IN  /\ Ready(c)
        /\ UNCHANGED loggedIn
        /\ \/ /\ currUser[c] = Null
              /\ out' = NotLoggedInError(c)
              /\ NotLoggedInTerminate(c)
              /\ Thrown(c)
              /\ UNCHANGED <<clientsToCH, userToData, chanNameToChanData, connToName>>
           \/ /\ currUser[c] # Null /\ ~legal
              /\ ERROR(c, {})
           \/ /\ currUser[c] # Null /\ legal
              /\ chanNameToChanData' = [chanNameToChanData EXCEPT ![ch] = rest]
              /\ userToData' = [userToData EXCEPT ![currUser[c]] = removeChannel(@, s)]
              /\ out' = (UNION {send(d, "UNSUBSCRIBE") : d \in told}) \cup RECEIPT(c, TRUE)
              /\ UNCHANGED <<sock, clientsToCH, connToName, protocol>>

\* ConnectionsImpl.send(channel, m) looks up the user of each subscriber in
\* turn; a subscriber without a user ends the loop with an exception.
Reached(list) ==
    {list[i] : i \in {k \in DOMAIN list : \A j \in 1..k : connToName[list[j]] # Null}}

MESSAGE(ch) ==
    {Frame(d, "MESSAGE", userToData[connToName[d]].channelsToSubId[ch]) :
        d \in Reached(chanNameToChanData[ch]) \cap clientsToCH}

\* SEND needs an existing channel with the sender on it.
executeSEND(c, ch, receipt) ==
    LET allowed == isChannel(ch) /\ isSubscribed(ch, c)
        orphans == ToSet(chanNameToChanData[ch]) \ Reached(chanNameToChanData[ch])
    IN  /\ Ready(c)
        /\ UNCHANGED loggedIn
        /\ \/ /\ ~allowed
              /\ ERROR(c, NotLoggedInError(c))
           \/ /\ allowed /\ orphans = {}
              /\ out' = MESSAGE(ch) \cup RECEIPT(c, receipt)
              /\ UNCHANGED <<sock, clientsToCH, userToData, chanNameToChanData,
                             connToName, protocol>>
           \/ /\ allowed /\ orphans # {}
              /\ out' = MESSAGE(ch)
              /\ Thrown(c)
              /\ UNCHANGED <<clientsToCH, userToData, chanNameToChanData,
                             connToName, shouldTerminate>>

\* Mutant: only the first of the user's channels is left.
LeaveChannels_First(c) ==
    LET mine == SubscribedTo(userToData[currUser[c]])
    IN  [ch \in Channels |->
            IF ch \in mine /\ ch = CHOOSE one \in mine : TRUE
            THEN removeSubscriber(chanNameToChanData[ch], c)
            ELSE chanNameToChanData[ch]]

\* The loop of exectueDISCONNECT over the user's subscriptions.
LeaveChannels(c) ==
    [ch \in Channels |->
        IF ch \in SubscribedTo(userToData[currUser[c]])
        THEN removeSubscriber(chanNameToChanData[ch], c)
        ELSE chanNameToChanData[ch]]

exectueDISCONNECT(c) ==
    /\ Ready(c)
    /\ UNCHANGED <<loggedIn, currUser>>
    /\ \/ /\ currUser[c] = Null
          /\ out' = NotLoggedInError(c)
          /\ NotLoggedInTerminate(c)
          /\ Thrown(c)
          /\ UNCHANGED <<clientsToCH, userToData, chanNameToChanData, connToName>>
       \/ /\ currUser[c] # Null
          /\ out' = RECEIPT(c, TRUE)
          /\ disconnect(c, LeaveChannels(c))
          /\ terminate(c)
          /\ UNCHANGED sock

\* A frame whose headers fail its check...(), or an unsupported command.
RejectFrame(c) ==
    /\ Ready(c)
    /\ ERROR(c, NotLoggedInError(c))
    /\ UNCHANGED loggedIn

\* A frame extract() cannot take apart: an empty one, a header with no value.
BreakFrame(c) ==
    /\ Ready(c)
    /\ Thrown(c)
    /\ out' = {}
    /\ UNCHANGED <<clientsToCH, userToData, chanNameToChanData, connToName,
                   loggedIn, shouldTerminate>>

-----------------------------------------------------------------------------
(* Connections come and go *)

\* serve(): the handler is registered before its thread starts.
Accept(c) ==
    /\ sock[c] = "none"
    /\ sock' = [sock EXCEPT ![c] = "open"]
    /\ clientsToCH' = clientsToCH \cup {c}
    /\ out' = {}
    /\ UNCHANGED <<userToData, chanNameToChanData, connToName, loggedIn, protocol>>

\* run() leaves its loop: end of stream, an IOException, or shouldTerminate().
EndRun(c) ==
    /\ sock[c] = "open"
    /\ sock' = [sock EXCEPT ![c] = "closed"]
    /\ out' = {}
    /\ UNCHANGED <<clientsToCH, userToData, chanNameToChanData, connToName,
                   loggedIn, protocol>>

-----------------------------------------------------------------------------

Init ==
    /\ sock = [c \in Conns |-> "none"]
    /\ clientsToCH = {}
    /\ userToData = [u \in Users |-> Null]
    /\ chanNameToChanData = [ch \in Channels |-> Null]
    /\ connToName = [c \in Conns |-> Null]
    /\ loggedIn = [c \in Conns |-> FALSE]
    /\ currUser = [c \in Conns |-> Null]
    /\ shouldTerminate = [c \in Conns |-> FALSE]
    /\ out = {}

\* process(): whatever one frame of connection c does.
process(c) ==
    \/ \E u \in Users, p \in Passcodes, r \in BOOLEAN : exectueCONNECT(c, u, p, r)
    \/ \E s \in SubIds, ch \in Channels, r \in BOOLEAN : exectueSUBSCRIBE(c, s, ch, r)
    \/ \E s \in SubIds : executeUNSUBSCRIBE(c, s)
    \/ \E ch \in Channels, r \in BOOLEAN : executeSEND(c, ch, r)
    \/ exectueDISCONNECT(c)
    \/ RejectFrame(c)
    \/ BreakFrame(c)

Next == \E c \in Conns : Accept(c) \/ process(c) \/ EndRun(c)

Spec == Init /\ [][Next]_vars

-----------------------------------------------------------------------------
(* Properties that hold whenever handlers do not overlap *)

\* Every variable keeps its type: the maps of ConnectionsImpl and UserData only
\* ever hold the kind of key and value they are declared with.
TypeOK ==
    /\ sock \in [Conns -> {"none", "open", "closed"}]
    /\ clientsToCH \in SUBSET Conns
    /\ userToData \in [Users -> UserData \cup {Null}]
    /\ chanNameToChanData \in [Channels -> Seq(Conns) \cup {Null}]
    /\ connToName \in [Conns -> Users \cup {Null}]
    /\ loggedIn \in [Conns -> BOOLEAN]
    /\ currUser \in [Conns -> Users \cup {Null}]
    /\ shouldTerminate \in [Conns -> BOOLEAN]
    /\ out \in SUBSET Frames

\* The four records of who is logged in where agree.  The user a connection is
\* mapped to is the protocol object's current user, is marked logged in, and is
\* marked as being on that connection, so no user is on two connections; and a
\* current user has been forgotten only by connections about to end.
SessionAgreement ==
    \A c \in Conns :
        /\ connToName[c] # Null =>
              /\ currUser[c] = connToName[c]
              /\ isUser(connToName[c])
              /\ userToData[connToName[c]].loggedIn
              /\ userToData[connToName[c]].clientId = c
        /\ currUser[c] # Null =>
              /\ isUser(currUser[c])
              /\ shouldTerminate[c] \/ connToName[c] = currUser[c]

\* Every subscription id of a session leads to an existing channel that lists
\* the connection, and no two ids lead to the same channel.  UNSUBSCRIBE and
\* DISCONNECT look the channel up without a null check, and remove the whole
\* channel when one subscriber is left, whoever that is.
LiveSubscriptions ==
    \A c \in Conns : connToName[c] # Null =>
        LET ids == userToData[connToName[c]].subIdTochannels
        IN  \A s \in SubIds : ids[s] # Null =>
                /\ isChannel(ids[s])
                /\ isSubscribed(ids[s], c)
                /\ \A t \in SubIds \ {s} : ids[t] # ids[s]

\* A user who is logged out has no subscriptions left over for the next login.
LoggedOutIsClean ==
    \A u \in Users : isUser(u) /\ ~userToData[u].loggedIn =>
        /\ userToData[u].subIdTochannels = NoSubs
        /\ userToData[u].channelsToSubId = NoChans

\* A channel in the map has a subscriber, and lists nobody twice, so that one
\* SEND never sends a subscriber two copies.
ChannelLists ==
    \A ch \in Channels : isChannel(ch) =>
        LET list == chanNameToChanData[ch]
        IN  /\ list # <<>>
            /\ IsInjective(list)

\* A session as others could disturb it: the user, the user's data, and the
\* channels that list the connection.
Session(c) ==
    IF connToName[c] = Null THEN Null
    ELSE <<connToName[c], userToData[connToName[c]],
           {ch \in Channels : isChannel(ch) /\ isSubscribed(ch, c)}>>

\* A frame of one connection never changes the session of another.
Isolation ==
    [][\A c \in Conns : process(c) =>
          \A d \in Conns \ {c} : Session(d)' = Session(d)]_vars

\* Once a user exists it stays, with the passcode it was created with.
PasswordKept ==
    [][\A u \in Users : isUser(u) =>
          isUser(u)' /\ userToData'[u].password = userToData[u].password]_vars

\* After a DISCONNECT frame no channel lists the connection any more, provided
\* that each channel it was on has one of its subscription ids.
CleanLogout ==
    [][\A c \in Conns :
          LET on(ch) == isChannel(ch) /\ isSubscribed(ch, c)
          IN  /\ exectueDISCONNECT(c)
              /\ currUser[c] # Null
              /\ \A ch \in Channels : on(ch) => ch \in SubscribedTo(userToData[currUser[c]])
              => \A ch \in Channels : ~on(ch)']_vars

-----------------------------------------------------------------------------
(* What a comment of the code says and its handlers do not do *)

\* ConnectionsImpl.java:89, on disconnect(): "Removing client from all relevant
\* channels".  A connection disconnect() took off clientsToCH is on no channel.
DisconnectLeavesChannels ==
    \A c \in Conns : sock[c] # "none" /\ c \notin clientsToCH =>
        \A ch \in Channels : isChannel(ch) => ~isSubscribed(ch, c)

=============================================================================
