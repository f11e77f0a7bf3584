-------------------------- MODULE StompBrokerProofs --------------------------
(* Theorems about StompBroker, for every value of its constants. *)
EXTENDS StompBroker, ListLemmas

-----------------------------------------------------------------------------
(* What the operations of UserData return *)

LEMMA UserDisconnectData ==
    ASSUME NEW data \in UserData
    PROVE  /\ UserDisconnect(data) \in UserData
           /\ UserDisconnect(data).password = data.password
           /\ UserDisconnect(data).loggedIn = FALSE
           /\ UserDisconnect(data).subIdTochannels = NoSubs
           /\ UserDisconnect(data).channelsToSubId = NoChans
BY DEF UserDisconnect, UserData, SubMap, ChanMap, NoSubs, NoChans

LEMMA addChannelData ==
    ASSUME NEW data \in UserData, NEW s \in SubIds, NEW ch \in Channels
    PROVE  /\ addChannel(data, s, ch) \in UserData
           /\ addChannel(data, s, ch).password = data.password
           /\ addChannel(data, s, ch).clientId = data.clientId
           /\ data.loggedIn => addChannel(data, s, ch).loggedIn
           /\ addChannel(data, s, ch).subIdTochannels =
                [data.subIdTochannels EXCEPT ![s] = ch]
BY DEF addChannel, UserData, SubMap, ChanMap

LEMMA removeChannelData ==
    ASSUME NEW data \in UserData, NEW s \in SubIds
    PROVE  /\ removeChannel(data, s) \in UserData
           /\ removeChannel(data, s).password = data.password
           /\ removeChannel(data, s).clientId = data.clientId
           /\ data.loggedIn => removeChannel(data, s).loggedIn
           /\ removeChannel(data, s).subIdTochannels =
                [data.subIdTochannels EXCEPT ![s] = Null]
BY DEF removeChannel, UserData, SubMap, ChanMap

LEMMA NewUserDataData ==
    ASSUME NEW p \in Passcodes, NEW c \in Conns
    PROVE  /\ NewUserData(p, c) \in UserData
           /\ NewUserData(p, c).password = p
           /\ NewUserData(p, c).clientId = c
           /\ NewUserData(p, c).loggedIn = TRUE
           /\ NewUserData(p, c).subIdTochannels = NoSubs
BY DEF NewUserData, UserData, SubMap, ChanMap, NoSubs, NoChans

\* Frames go to connections.
LEMMA sendFrames ==
    ASSUME NEW c \in Conns
    PROVE  /\ \A type \in FrameTypes : send(c, type) \in SUBSET Frames
           /\ \A receipt \in BOOLEAN : RECEIPT(c, receipt) \in SUBSET Frames
           /\ NotLoggedInError(c) \in SUBSET Frames
BY DEF send, Frame, Frames, FrameTypes, RECEIPT, NotLoggedInError

-----------------------------------------------------------------------------
(* The inductive invariant: none of its conjuncts but the last is inductive  *)
(* without the others.  A channel in LiveSubscriptions survives another     *)
(* connection's leaving because ChannelLists has no repetitions; the maps of *)
(* a user who logs in are empty by LoggedOutIsClean; and TypeOK needs the   *)
(* channels of a session to exist.                                         *)

IInv == /\ TypeOK
        /\ SessionAgreement
        /\ LiveSubscriptions
        /\ LoggedOutIsClean
        /\ ChannelLists

\* No user is on two connections.
LEMMA OneConnection ==
    ASSUME SessionAgreement, NEW c \in Conns, NEW d \in Conns,
           connToName[c] # Null, connToName[c] = connToName[d]
    PROVE  c = d
BY DEF SessionAgreement

\* The current user of a connection that may run a handler.
LEMMA ReadySession ==
    ASSUME IInv, NEW c \in Conns, Ready(c)
    PROVE  /\ connToName[c] = currUser[c]
           /\ currUser[c] # Null => /\ currUser[c] \in Users
                                    /\ userToData[currUser[c]] \in UserData
                                    /\ userToData[currUser[c]].loggedIn
BY DEF IInv, SessionAgreement, TypeOK, Ready, isUser

\* disconnect() as it comes out: the user's maps are empty before the channels
\* would be walked through.
LEMMA disconnectEffect ==
    ASSUME IInv, NEW c \in Conns, Ready(c), NEW chans, disconnect(c, chans),
           chans = [ch \in Channels |-> chans[ch]]
    PROVE  /\ chanNameToChanData' = chans
           /\ connToName' = [connToName EXCEPT ![c] = Null]
           /\ userToData' = IF currUser[c] = Null THEN userToData
                            ELSE [userToData EXCEPT ![currUser[c]] = UserDisconnect(@)]
           /\ clientsToCH' \in SUBSET Conns
<1>1. connToName \in [Conns -> Users \cup {Null}] /\ clientsToCH \in SUBSET Conns
    BY DEF IInv, TypeOK
<1>2. CASE currUser[c] = Null
    BY <1>1, <1>2, ReadySession DEF disconnect
<1>3. CASE currUser[c] # Null
  <2> DEFINE user == currUser[c]
             data == [userToData EXCEPT ![user] = UserDisconnect(@)]
  <2>1. /\ userToData \in [Users -> UserData \cup {Null}]
        /\ user \in Users /\ userToData[user] \in UserData /\ connToName[c] = user
      BY <1>3, ReadySession DEF IInv, TypeOK
  <2>2. data[connToName[c]] = UserDisconnect(userToData[user])
      BY <2>1
  <2>3. SubscribedTo(UserDisconnect(userToData[user])) = {}
      BY <2>1, UserDisconnectData DEF SubscribedTo, NoSubs
  <2>4. ConnectionsLeave(chans, data[connToName[c]], c) = chans
      BY <2>2, <2>3 DEF ConnectionsLeave
  <2> QED
      BY <1>1, <1>3, <2>4 DEF disconnect
<1> QED BY <1>2, <1>3

-----------------------------------------------------------------------------
(* Handlers that end in ERROR *)

LEMMA ERRORInv ==
    ASSUME IInv, NEW c \in Conns, Ready(c), NEW replies \in SUBSET Frames,
           ERROR(c, replies), loggedIn' \in [Conns -> BOOLEAN]
    PROVE  IInv'
<1> USE DEF ERROR, terminate
<1>1. /\ chanNameToChanData' = chanNameToChanData
      /\ connToName' = [connToName EXCEPT ![c] = Null]
      /\ userToData' = IF currUser[c] = Null THEN userToData
                       ELSE [userToData EXCEPT ![currUser[c]] = UserDisconnect(@)]
      /\ clientsToCH' \in SUBSET Conns
    BY disconnectEffect DEF IInv, TypeOK
<1>2. /\ connToName[c] = currUser[c]
      /\ currUser[c] # Null => /\ currUser[c] \in Users
                               /\ userToData[currUser[c]] \in UserData
    BY ReadySession
<1>3. \A data \in UserData :
          /\ UserDisconnect(data) \in UserData
          /\ UserDisconnect(data).loggedIn = FALSE
          /\ UserDisconnect(data).subIdTochannels = NoSubs
          /\ UserDisconnect(data).channelsToSubId = NoChans
    BY UserDisconnectData
<1>4. TypeOK'
  <2>1. out' \in SUBSET Frames
      BY sendFrames DEF FrameTypes
  <2>2. userToData' \in [Users -> UserData \cup {Null}]
      BY <1>1, <1>2, <1>3 DEF IInv, TypeOK
  <2> QED
      BY <1>1, <2>1, <2>2 DEF IInv, TypeOK
<1>5. ASSUME NEW d \in Conns, connToName'[d] # Null
      PROVE  /\ d # c /\ connToName'[d] = connToName[d] /\ connToName[d] \in Users
             /\ userToData'[connToName[d]] = userToData[connToName[d]]
  <2>1. d # c /\ connToName'[d] = connToName[d] /\ connToName[d] \in Users
      BY <1>1, <1>5, NullAssumption DEF IInv, TypeOK
  <2>2. connToName[d] # connToName[c]
      BY <2>1, <1>5, OneConnection DEF IInv
  <2> QED
      BY <1>1, <1>2, <2>1, <2>2 DEF IInv, TypeOK
<1>6. SessionAgreement'
  <2>1. ASSUME NEW u \in Users, userToData[u] # Null PROVE userToData'[u] # Null
    <3>1. CASE u = currUser[c]
        BY <1>1, <1>2, <1>3, <3>1, NullAssumption DEF IInv, TypeOK
    <3>2. CASE u # currUser[c]
        BY <1>1, <3>2, <2>1 DEF IInv, TypeOK
    <3> QED BY <3>1, <3>2
  <2>2. ASSUME NEW d \in Conns
        PROVE connToName'[d] # Null =>
              /\ currUser'[d] = connToName'[d]
              /\ isUser(connToName[d])'
              /\ userToData'[connToName'[d]].loggedIn
              /\ userToData'[connToName'[d]].clientId = d
      BY <1>5, <2>1 DEF IInv, SessionAgreement, isUser
  <2>3. ASSUME NEW d \in Conns, currUser[d] # Null
        PROVE isUser(currUser[d])' /\ (shouldTerminate'[d] \/ connToName'[d] = currUser'[d])
      BY <1>1, <2>1, <2>3 DEF IInv, SessionAgreement, TypeOK, isUser
  <2> QED
      BY <2>2, <2>3 DEF SessionAgreement, isUser
<1>7. LiveSubscriptions'
  <2>1. LiveSubscriptions /\ chanNameToChanData' = chanNameToChanData
      BY <1>1 DEF IInv
  <2> QED
      BY ONLY <1>5, <2>1 DEF LiveSubscriptions, isChannel, isSubscribed
<1>8. LoggedOutIsClean'
    BY <1>1, <1>2, <1>3 DEF IInv, LoggedOutIsClean, isUser, TypeOK
<1>9. ChannelLists'
    BY <1>1 DEF IInv, ChannelLists, isChannel
<1> QED
    BY <1>4, <1>6, <1>7, <1>8, <1>9 DEF IInv

-----------------------------------------------------------------------------
(* CONNECT *)

\* A login: u was unknown or logged out, so no connection is mapped to u.
LEMMA LoginInv ==
    ASSUME IInv, NEW c \in Conns, NEW u \in Users, NEW data \in UserData,
           NEW receipt \in BOOLEAN, Login(c, u, data, receipt),
           data.loggedIn, data.clientId = c, data.subIdTochannels = NoSubs,
           isUser(u) => ~userToData[u].loggedIn,
           loggedIn' \in [Conns -> BOOLEAN]
    PROVE  IInv'
<1> USE DEF Login
<1>1. TypeOK'
    BY sendFrames DEF IInv, TypeOK, FrameTypes
<1>2. \A d \in Conns : connToName[d] # u
    BY NullAssumption DEF IInv, SessionAgreement
<1>3. /\ connToName' = [connToName EXCEPT ![c] = u]
      /\ userToData' = [userToData EXCEPT ![u] = data]
      /\ currUser' = [currUser EXCEPT ![c] = u]
      /\ connToName \in [Conns -> Users \cup {Null}]
      /\ userToData \in [Users -> UserData \cup {Null}]
      /\ currUser \in [Conns -> Users \cup {Null}]
      /\ u # Null /\ data # Null
    BY NullAssumption DEF IInv, TypeOK
<1>4. \A d \in Conns \ {c} :
          /\ connToName'[d] = connToName[d]
          /\ connToName[d] # Null =>
                userToData'[connToName[d]] = userToData[connToName[d]]
    BY <1>2, <1>3
<1>5. SessionAgreement'
  <2>1. \A v \in Users : userToData[v] # Null => userToData'[v] # Null
      BY <1>3
  <2>2. \A d \in Conns \ {c} :
            /\ connToName'[d] # Null =>
                  /\ currUser'[d] = connToName'[d]
                  /\ userToData'[connToName'[d]] # Null
                  /\ userToData'[connToName'[d]].loggedIn
                  /\ userToData'[connToName'[d]].clientId = d
            /\ currUser'[d] # Null =>
                  /\ userToData'[currUser'[d]] # Null
                  /\ shouldTerminate'[d] \/ connToName'[d] = currUser'[d]
      BY <1>3, <1>4, <2>1 DEF IInv, SessionAgreement, isUser
  <2>3. /\ currUser'[c] = u /\ connToName'[c] = u /\ userToData'[u] = data
      BY <1>3
  <2> QED
      BY <1>3, <2>2, <2>3 DEF SessionAgreement, isUser
<1>6. LiveSubscriptions'
  <2>1. connToName'[c] = u /\ userToData'[u] = data
      BY <1>3
  <2>2. \A s \in SubIds : data.subIdTochannels[s] = Null
      BY DEF NoSubs
  <2> QED
      BY <1>4, <2>1, <2>2 DEF IInv, LiveSubscriptions, isChannel, isSubscribed
<1>7. LoggedOutIsClean'
    BY <1>3 DEF IInv, LoggedOutIsClean, isUser
<1>8. ChannelLists'
    BY DEF IInv, ChannelLists, isChannel
<1> QED
    BY <1>1, <1>5, <1>6, <1>7, <1>8 DEF IInv

LEMMA exectueCONNECTInv ==
    ASSUME IInv, NEW c \in Conns, NEW u \in Users, NEW p \in Passcodes,
           NEW receipt \in BOOLEAN, exectueCONNECT(c, u, p, receipt)
    PROVE  IInv'
<1> DEFINE data == userToData[u]
           again == [data EXCEPT !.loggedIn = TRUE, !.clientId = c]
           admitted == data.password = p /\ ~isUserLoggedIn(u)
<1>1. Ready(c) /\ loggedIn' \in [Conns -> BOOLEAN]
    BY DEF exectueCONNECT, IInv, TypeOK
<1>2. CASE isUser(u) /\ admitted /\ Login(c, u, again, receipt)
  <2>1. data \in UserData
      BY <1>2 DEF IInv, TypeOK, isUser
  <2>2. /\ again \in UserData /\ again.loggedIn /\ again.clientId = c
        /\ again.subIdTochannels = data.subIdTochannels
      BY <2>1 DEF UserData
  <2>3. data.loggedIn \in BOOLEAN
      BY <2>1 DEF UserData
  <2>4. data.subIdTochannels = NoSubs
      BY <1>2, <2>3 DEF IInv, LoggedOutIsClean, isUserLoggedIn
  <2> QED
      BY <1>1, <1>2, <2>2, <2>4, LoginInv DEF isUserLoggedIn
<1>3. CASE ERROR(c, {})
    BY <1>1, <1>3, ERRORInv
<1>4. CASE ~isUser(u) /\ Login(c, u, NewUserData(p, c), receipt)
    BY <1>1, <1>4, NewUserDataData, LoginInv
<1> QED
    BY <1>2, <1>3, <1>4 DEF exectueCONNECT

-----------------------------------------------------------------------------
(* Steps that leave users, channels and sessions alone *)

LEMMA QuietInv ==
    ASSUME IInv,
           UNCHANGED <<userToData, chanNameToChanData, connToName, currUser>>,
           sock' \in [Conns -> {"none", "open", "closed"}],
           clientsToCH' \in SUBSET Conns,
           loggedIn' \in [Conns -> BOOLEAN],
           shouldTerminate' \in [Conns -> BOOLEAN],
           \A c \in Conns : shouldTerminate[c] => shouldTerminate'[c],
           out' \in SUBSET Frames
    PROVE  IInv'
<1>1. TypeOK'
    BY DEF IInv, TypeOK
<1>2. SessionAgreement'
    BY DEF IInv, SessionAgreement, isUser
<1>3. LiveSubscriptions'
    BY DEF IInv, LiveSubscriptions, isChannel, isSubscribed
<1>4. LoggedOutIsClean' /\ ChannelLists'
    BY DEF IInv, LoggedOutIsClean, ChannelLists, isUser, isChannel
<1> QED
    BY <1>1, <1>2, <1>3, <1>4 DEF IInv

LEMMA NotLoggedInTerminateEffect ==
    ASSUME IInv, NEW c \in Conns, NotLoggedInTerminate(c)
    PROVE  /\ shouldTerminate' \in [Conns -> BOOLEAN]
           /\ \A d \in Conns : shouldTerminate[d] => shouldTerminate'[d]
BY DEF NotLoggedInTerminate, IInv, TypeOK

LEMMA ThrownEffect ==
    ASSUME IInv, NEW c \in Conns, Thrown(c)
    PROVE  sock' \in [Conns -> {"none", "open", "closed"}] /\ UNCHANGED currUser
BY DEF Thrown, IInv, TypeOK

LEMMA AcceptInv ==
    ASSUME IInv, NEW c \in Conns, Accept(c)
    PROVE  IInv'
<1>1. /\ sock' \in [Conns -> {"none", "open", "closed"}]
      /\ clientsToCH' \in SUBSET Conns /\ loggedIn' \in [Conns -> BOOLEAN]
      /\ shouldTerminate' = shouldTerminate /\ shouldTerminate \in [Conns -> BOOLEAN]
      /\ out' \in SUBSET Frames
    BY DEF Accept, protocol, IInv, TypeOK
<1> QED
    BY <1>1, QuietInv DEF Accept, protocol

LEMMA EndRunInv ==
    ASSUME IInv, NEW c \in Conns, EndRun(c)
    PROVE  IInv'
<1>1. /\ sock' \in [Conns -> {"none", "open", "closed"}]
      /\ clientsToCH' \in SUBSET Conns /\ loggedIn' \in [Conns -> BOOLEAN]
      /\ shouldTerminate' = shouldTerminate /\ shouldTerminate \in [Conns -> BOOLEAN]
      /\ out' \in SUBSET Frames
    BY DEF EndRun, protocol, IInv, TypeOK
<1> QED
    BY <1>1, QuietInv DEF EndRun, protocol

LEMMA BreakFrameInv ==
    ASSUME IInv, NEW c \in Conns, BreakFrame(c)
    PROVE  IInv'
<1>1. /\ sock' \in [Conns -> {"none", "open", "closed"}]
      /\ clientsToCH' \in SUBSET Conns /\ loggedIn' \in [Conns -> BOOLEAN]
      /\ shouldTerminate' = shouldTerminate /\ shouldTerminate \in [Conns -> BOOLEAN]
      /\ out' \in SUBSET Frames
    BY ThrownEffect DEF BreakFrame, IInv, TypeOK
<1> QED
    BY <1>1, QuietInv, ThrownEffect DEF BreakFrame

LEMMA RejectFrameInv ==
    ASSUME IInv, NEW c \in Conns, RejectFrame(c)
    PROVE  IInv'
<1>1. loggedIn' \in [Conns -> BOOLEAN]
    BY DEF RejectFrame, IInv, TypeOK
<1> QED
    BY <1>1, ERRORInv, sendFrames DEF RejectFrame

-----------------------------------------------------------------------------
(* SEND *)

\* Whoever a MESSAGE reaches has a user, so the frame has a proper id or null.
LEMMA MESSAGEFrames ==
    ASSUME IInv, NEW ch \in Channels, isChannel(ch)
    PROVE  MESSAGE(ch) \in SUBSET Frames
<1>1. ASSUME NEW d \in Reached(chanNameToChanData[ch]) \cap clientsToCH
      PROVE  Frame(d, "MESSAGE", userToData[connToName[d]].channelsToSubId[ch]) \in Frames
  <2>1. chanNameToChanData[ch] \in Seq(Conns)
      BY DEF isChannel, IInv, TypeOK
  <2>2. PICK k \in DOMAIN chanNameToChanData[ch] :
            /\ d = chanNameToChanData[ch][k]
            /\ \A j \in 1..k : connToName[chanNameToChanData[ch][j]] # Null
      BY DEF Reached
  <2>3. d \in Conns /\ connToName[d] # Null
      BY <2>1, <2>2
  <2>4. userToData[connToName[d]] \in UserData
      BY <2>3 DEF IInv, TypeOK, SessionAgreement, isUser
  <2>5. userToData[connToName[d]].channelsToSubId[ch] \in SubIds \cup {Null}
      BY <2>4 DEF UserData, ChanMap
  <2> QED
      BY <2>3, <2>5 DEF Frame, Frames, FrameTypes
<1> QED
    BY <1>1 DEF MESSAGE

LEMMA executeSENDInv ==
    ASSUME IInv, NEW c \in Conns, NEW ch \in Channels, NEW receipt \in BOOLEAN,
           executeSEND(c, ch, receipt)
    PROVE  IInv'
<1>1. Ready(c) /\ loggedIn' = loggedIn /\ loggedIn \in [Conns -> BOOLEAN]
    BY DEF executeSEND, IInv, TypeOK
<1>2. CASE ERROR(c, NotLoggedInError(c))
    BY <1>1, <1>2, ERRORInv, sendFrames
<1>3. CASE /\ isChannel(ch)
           /\ out' = MESSAGE(ch) \cup RECEIPT(c, receipt)
           /\ UNCHANGED <<sock, clientsToCH, userToData, chanNameToChanData,
                          connToName, currUser, shouldTerminate>>
  <2>1. out' \in SUBSET Frames
      BY <1>3, MESSAGEFrames, sendFrames
  <2> QED
      BY <1>1, <1>3, <2>1, QuietInv DEF IInv, TypeOK
<1>4. CASE /\ isChannel(ch) /\ out' = MESSAGE(ch) /\ Thrown(c)
           /\ UNCHANGED <<clientsToCH, userToData, chanNameToChanData,
                          connToName, shouldTerminate>>
    BY <1>1, <1>4, MESSAGEFrames, ThrownEffect, QuietInv DEF IInv, TypeOK
<1> QED
    BY <1>2, <1>3, <1>4 DEF executeSEND, protocol

-----------------------------------------------------------------------------
(* SUBSCRIBE *)

LEMMA JoinedList ==
    ASSUME IInv, NEW c \in Conns, NEW ch \in Channels,
           ~(isChannel(ch) /\ isSubscribed(ch, c))
    PROVE  /\ Joined(ch, c) \in Seq(Conns)
           /\ Joined(ch, c) # Null
           /\ Joined(ch, c) # <<>>
           /\ IsInjective(Joined(ch, c))
           /\ c \in ToSet(Joined(ch, c))
           /\ isChannel(ch) => ToSet(chanNameToChanData[ch]) \subseteq ToSet(Joined(ch, c))
<1> DEFINE list == chanNameToChanData[ch]
<1>1. CASE ~isChannel(ch)
  <2>1. Joined(ch, c) = <<c>>
      BY <1>1 DEF Joined
  <2>2. <<c>> \in Seq(Conns) /\ IsInjective(<<c>>) /\ c \in ToSet(<<c>>) /\ <<c>> # <<>>
      BY DEF IsInjective, ToSet
  <2>3. <<c>> # Null
      BY <2>2, NullAssumption
  <2> QED
      BY <1>1, <2>1, <2>2, <2>3
<1>2. CASE isChannel(ch)
  <2>1. Joined(ch, c) = Append(list, c)
      BY <1>2 DEF Joined
  <2>2. list \in Seq(Conns) /\ IsInjective(list) /\ c \notin ToSet(list)
      BY <1>2 DEF IInv, TypeOK, ChannelLists, isChannel, isSubscribed
  <2>3. /\ Append(list, c) \in Seq(Conns)
        /\ Len(Append(list, c)) = Len(list) + 1
        /\ \A i \in 1..Len(list) : Append(list, c)[i] = list[i]
        /\ Append(list, c)[Len(list) + 1] = c
      BY <2>2
  <2>4. Append(list, c) # Null
      BY <2>3, NullAssumption
  <2>5. \A i \in 1..Len(list) : list[i] # c
      BY <2>2 DEF ToSet
  <2> HIDE DEF list
  <2>6. IsInjective(Append(list, c))
      BY <2>2, <2>3, <2>5 DEF IsInjective
  <2>7. c \in ToSet(Append(list, c)) /\ ToSet(list) \subseteq ToSet(Append(list, c))
      BY <2>2, <2>3 DEF ToSet
  <2>8. Append(list, c) # <<>>
      BY <2>2, <2>3
  <2> QED
      BY <2>1, <2>3, <2>4, <2>6, <2>7, <2>8 DEF list
<1> QED
    BY <1>1, <1>2

\* The channel gains c.  Before CONNECT nothing else changes; after it the user
\* gains an id that leads to the channel, which no other id of theirs did.
LEMMA JoinInv ==
    ASSUME IInv, NEW c \in Conns, NEW s \in SubIds, NEW ch \in Channels, Ready(c),
           ~(isChannel(ch) /\ isSubscribed(ch, c)),
           chanNameToChanData' = [chanNameToChanData EXCEPT ![ch] = Joined(ch, c)],
           userToData' = IF currUser[c] = Null THEN userToData
                         ELSE [userToData EXCEPT ![currUser[c]] = addChannel(@, s, ch)],
           UNCHANGED <<connToName, currUser, clientsToCH, loggedIn>>,
           sock' \in [Conns -> {"none", "open", "closed"}],
           shouldTerminate' \in [Conns -> BOOLEAN],
           \A d \in Conns : shouldTerminate[d] => shouldTerminate'[d],
           out' \in SUBSET Frames
    PROVE  IInv'
<1> DEFINE user == currUser[c]
<1>1. /\ connToName[c] = user
      /\ user # Null => user \in Users /\ userToData[user] \in UserData
                        /\ userToData[user].loggedIn
    BY ReadySession
<1>2. /\ chanNameToChanData'[ch] = Joined(ch, c)
      /\ \A x \in Channels : x # ch => chanNameToChanData'[x] = chanNameToChanData[x]
    BY DEF IInv, TypeOK
<1>3. ASSUME user # Null
      PROVE  /\ userToData'[user] \in UserData
             /\ userToData'[user].clientId = userToData[user].clientId
             /\ userToData'[user].loggedIn
             /\ userToData'[user].subIdTochannels =
                   [userToData[user].subIdTochannels EXCEPT ![s] = ch]
             /\ userToData' \in [Users -> UserData \cup {Null}]
  <2>1. userToData'[user] = addChannel(userToData[user], s, ch)
      BY <1>1, <1>3 DEF IInv, TypeOK
  <2>2. /\ userToData'[user] \in UserData
        /\ userToData'[user].clientId = userToData[user].clientId
        /\ userToData'[user].loggedIn
        /\ userToData'[user].subIdTochannels =
              [userToData[user].subIdTochannels EXCEPT ![s] = ch]
    <3> DEFINE data == userToData[user]
               new  == addChannel(data, s, ch)
    <3>1. data \in UserData /\ data.loggedIn
        BY <1>1, <1>3
    <3> HIDE DEF data
    <3>2. /\ new \in UserData
          /\ new.clientId = data.clientId
          /\ new.loggedIn
          /\ new.subIdTochannels = [data.subIdTochannels EXCEPT ![s] = ch]
        BY <3>1, addChannelData
    <3>3. userToData'[user] = new
        BY <2>1, Zenon DEF data
    <3> HIDE DEF new
    <3> QED
        BY <3>1, <3>2, <3>3 DEF data
  <2>3. userToData' \in [Users -> UserData \cup {Null}]
      BY <1>1, <1>3, <2>1, <2>2 DEF IInv, TypeOK
  <2> QED
      BY <2>2, <2>3
<1>4. \A u \in Users : u # user => userToData'[u] = userToData[u]
    BY DEF IInv, TypeOK
<1>5. TypeOK'
    BY <1>3, JoinedList DEF IInv, TypeOK
<1>6. SessionAgreement'
  <2>1. \A u \in Users : userToData[u] # Null =>
            /\ userToData'[u] # Null
            /\ userToData[u].loggedIn => userToData'[u].loggedIn
            /\ userToData'[u].clientId = userToData[u].clientId
      BY <1>3, <1>4, NullAssumption
  <2> QED
      BY <2>1 DEF IInv, TypeOK, SessionAgreement, isUser
<1>7. LiveSubscriptions'
  <2>1. ASSUME NEW x \in Channels, NEW d \in Conns, isChannel(x), isSubscribed(x, d)
        PROVE  chanNameToChanData'[x] # Null /\ d \in ToSet(chanNameToChanData'[x])
      BY <1>2, <2>1, JoinedList DEF isChannel, isSubscribed
  <2>2. chanNameToChanData'[ch] # Null /\ c \in ToSet(chanNameToChanData'[ch])
      BY <1>2, JoinedList DEF isChannel, isSubscribed
  <2>3. ASSUME NEW d \in Conns, connToName'[d] # Null, NEW r \in SubIds,
               userToData'[connToName'[d]].subIdTochannels[r] # Null
        PROVE  LET ids == userToData'[connToName'[d]].subIdTochannels
               IN  /\ chanNameToChanData'[ids[r]] # Null
                   /\ d \in ToSet(chanNameToChanData'[ids[r]])
                   /\ \A t \in SubIds \ {r} : ids[t] # ids[r]
    <3> DEFINE old == userToData[connToName[d]].subIdTochannels
    <3>1. /\ connToName[d] \in Users /\ connToName'[d] = connToName[d]
          /\ old \in [SubIds -> Channels \cup {Null}]
        BY <2>3 DEF IInv, TypeOK, SessionAgreement, isUser, UserData, SubMap
    <3>2. \A t \in SubIds : old[t] # Null =>
              /\ old[t] \in Channels
              /\ isChannel(old[t]) /\ isSubscribed(old[t], d)
              /\ \A z \in SubIds \ {t} : old[z] # old[t]
        BY <2>3, <3>1 DEF IInv, LiveSubscriptions
    <3>3. CASE d = c
      <4> DEFINE new == userToData'[connToName'[d]].subIdTochannels
      <4>1. user # Null /\ new = [old EXCEPT ![s] = ch]
          BY <1>1, <1>3, <2>3, <3>1, <3>3
      <4>2. \A t \in SubIds : old[t] # ch
          BY <3>2, <3>3, NullAssumption
      <4> HIDE DEF old, new
      <4>3. CASE r = s
        <5>1. new[r] = ch /\ \A t \in SubIds \ {r} : new[t] = old[t]
            BY <3>1, <4>1, <4>3
        <5> QED
            BY <2>2, <3>3, <4>2, <5>1 DEF new
      <4>4. CASE r # s
        <5>1. old[r] # Null /\ new[r] = old[r]
            BY <2>3, <3>1, <4>1, <4>4 DEF new
        <5>2. \A t \in SubIds \ {r} : new[t] # old[r]
            BY <3>1, <3>2, <4>1, <4>2, <5>1
        <5> QED
            BY <2>1, <3>2, <5>1, <5>2 DEF new
      <4> QED
          BY <4>3, <4>4
    <3>4. CASE d # c
      <4>1. connToName[d] # user
          BY <1>1, <2>3, <3>1, <3>4, OneConnection DEF IInv
      <4>2. userToData'[connToName'[d]].subIdTochannels = old
          BY <1>4, <3>1, <4>1
      <4> HIDE DEF old
      <4> QED
          BY <2>1, <2>3, <3>2, <4>2
    <3> QED
        BY <3>3, <3>4
  <2> QED
      BY <2>3 DEF LiveSubscriptions, isChannel, isSubscribed
<1>8. LoggedOutIsClean'
    BY <1>3, <1>4 DEF IInv, LoggedOutIsClean, isUser
<1>9. ChannelLists'
    BY <1>2, JoinedList DEF IInv, ChannelLists, isChannel
<1> QED
    BY <1>5, <1>6, <1>7, <1>8, <1>9 DEF IInv

LEMMA exectueSUBSCRIBEInv ==
    ASSUME IInv, NEW c \in Conns, NEW s \in SubIds, NEW ch \in Channels,
           NEW receipt \in BOOLEAN, exectueSUBSCRIBE(c, s, ch, receipt)
    PROVE  IInv'
<1>1. /\ Ready(c) /\ UNCHANGED <<clientsToCH, connToName, loggedIn>>
      /\ shouldTerminate' \in [Conns -> BOOLEAN]
      /\ \A d \in Conns : shouldTerminate[d] => shouldTerminate'[d]
    BY NotLoggedInTerminateEffect DEF exectueSUBSCRIBE
<1>2. out' \in SUBSET Frames
    BY sendFrames DEF exectueSUBSCRIBE
<1>3. sock' \in [Conns -> {"none", "open", "closed"}] /\ UNCHANGED currUser
    BY ThrownEffect DEF exectueSUBSCRIBE, IInv, TypeOK
<1>4. CASE UNCHANGED <<userToData, chanNameToChanData>>
    BY <1>1, <1>2, <1>3, <1>4, QuietInv DEF IInv, TypeOK
<1>5. CASE /\ ~(isChannel(ch) /\ isSubscribed(ch, c))
           /\ chanNameToChanData' = [chanNameToChanData EXCEPT ![ch] = Joined(ch, c)]
           /\ userToData' = IF currUser[c] = Null THEN userToData
                            ELSE [userToData EXCEPT ![currUser[c]] = addChannel(@, s, ch)]
    BY <1>1, <1>2, <1>3, <1>5, JoinInv
<1> QED
    BY <1>4, <1>5 DEF exectueSUBSCRIBE

-----------------------------------------------------------------------------
(* UNSUBSCRIBE and DISCONNECT *)

\* Taking a subscriber off a channel, or the channel off the map with its last
\* subscriber, leaves every other subscriber where it was.
LEMMA removeSubscriberList ==
    ASSUME IInv, NEW c \in Conns, NEW ch \in Channels,
           isChannel(ch), isSubscribed(ch, c),
           NEW rest, rest = removeSubscriber(chanNameToChanData[ch], c)
    PROVE  /\ rest \in Seq(Conns) \cup {Null}
           /\ rest # <<>>
           /\ rest # Null => /\ IsInjective(rest)
                            /\ ToSet(rest) = ToSet(chanNameToChanData[ch]) \ {c}
           /\ \A d \in Conns \ {c} :
                 isSubscribed(ch, d) => rest # Null /\ d \in ToSet(rest)
<1> DEFINE list == chanNameToChanData[ch]
<1>1. list \in Seq(Conns) /\ IsInjective(list) /\ list # <<>> /\ c \in ToSet(list)
    BY DEF IInv, TypeOK, ChannelLists, isChannel, isSubscribed
<1>2. CASE LastSubscriber(list)
  <2>1. rest = Null /\ Null # <<>>
    <3>1. <<>> \in Seq(Conns)
        OBVIOUS
    <3> QED
        BY <1>2, <3>1, NullAssumption DEF removeSubscriber
  <2>2. \A d \in Conns : d \in ToSet(list) => d = c
    <3> HIDE DEF list
    <3> QED
        BY <1>1, <1>2 DEF LastSubscriber, ToSet
  <2> QED
      BY <2>1, <2>2 DEF isSubscribed
<1>3. CASE ~LastSubscriber(list)
  <2>1. rest = RemoveFirst(list, c)
      BY <1>3 DEF removeSubscriber
  <2> HIDE DEF list
  <2>2. Len(list) > 1
      BY <1>1, <1>3 DEF LastSubscriber
  <2>3. /\ rest \in Seq(Conns) /\ Len(rest) = Len(list) - 1 /\ IsInjective(rest)
        /\ ToSet(rest) = ToSet(list) \ {c}
      BY <1>1, <2>1, RemoveFirstFromList
  <2>4. rest # <<>> /\ rest # Null
      BY <1>1, <2>2, <2>3, NullAssumption
  <2> QED
      BY <2>3, <2>4 DEF list, isSubscribed
<1> QED
    BY <1>2, <1>3

\* An UNSUBSCRIBE that is legal.
LEMMA LeaveInv ==
    ASSUME IInv, NEW c \in Conns, NEW s \in SubIds, NEW ch \in Channels,
           Ready(c), currUser[c] # Null,
           ch = userToData[currUser[c]].subIdTochannels[s], isSubscribed(ch, c),
           chanNameToChanData' = [chanNameToChanData EXCEPT
                                     ![ch] = removeSubscriber(@, c)],
           userToData' = [userToData EXCEPT ![currUser[c]] = removeChannel(@, s)],
           UNCHANGED <<sock, clientsToCH, connToName, loggedIn, currUser, shouldTerminate>>,
           out' \in SUBSET Frames
    PROVE  IInv'
<1> DEFINE user == currUser[c]
           old  == userToData[user].subIdTochannels
           rest == removeSubscriber(chanNameToChanData[ch], c)
<1>1. /\ connToName[c] = user /\ user \in Users
      /\ userToData[user] \in UserData /\ userToData[user].loggedIn
    BY ReadySession
<1>2. old \in [SubIds -> Channels \cup {Null}]
    BY <1>1 DEF UserData, SubMap
<1>3. \A t \in SubIds : old[t] # Null =>
          /\ old[t] \in Channels /\ isChannel(old[t]) /\ isSubscribed(old[t], c)
          /\ \A z \in SubIds \ {t} : old[z] # old[t]
    BY <1>1, <1>2 DEF IInv, LiveSubscriptions
<1>4. isChannel(ch) /\ \A t \in SubIds \ {s} : old[t] # ch
    BY <1>3, NullAssumption
<1>5. /\ rest \in Seq(Conns) \cup {Null}
      /\ rest # <<>>
      /\ rest # Null => IsInjective(rest)
      /\ \A d \in Conns \ {c} : isSubscribed(ch, d) => rest # Null /\ d \in ToSet(rest)
  <2>1. rest = removeSubscriber(chanNameToChanData[ch], c)
      OBVIOUS
  <2>2. isChannel(ch)
      BY <1>4
  <2> HIDE DEF rest
  <2> QED
      BY ONLY IInv, c \in Conns, ch \in Channels, isSubscribed(ch, c), <2>1, <2>2,
              removeSubscriberList
<1>6. /\ chanNameToChanData'[ch] = rest
      /\ \A x \in Channels : x # ch => chanNameToChanData'[x] = chanNameToChanData[x]
    BY DEF IInv, TypeOK
<1> HIDE DEF rest
<1>7. /\ userToData'[user] \in UserData
      /\ userToData'[user].clientId = userToData[user].clientId
      /\ userToData'[user].loggedIn
      /\ userToData'[user].subIdTochannels = [old EXCEPT ![s] = Null]
  <2> DEFINE data == userToData[user]
  <2>1. userToData'[user] = removeChannel(data, s)
      BY <1>1 DEF IInv, TypeOK
  <2>2. data \in UserData /\ data.loggedIn
      BY <1>1
  <2> HIDE DEF data
  <2>3. /\ removeChannel(data, s) \in UserData
        /\ removeChannel(data, s).clientId = data.clientId
        /\ data.loggedIn => removeChannel(data, s).loggedIn
        /\ removeChannel(data, s).subIdTochannels =
              [data.subIdTochannels EXCEPT ![s] = Null]
      BY <2>2, removeChannelData
  <2> QED
      BY <2>1, <2>2, <2>3 DEF data
<1>8. \A u \in Users : u # user => userToData'[u] = userToData[u]
    BY DEF IInv, TypeOK
<1>9. TypeOK'
  <2>1. chanNameToChanData' \in [Channels -> Seq(Conns) \cup {Null}]
      BY <1>5 DEF IInv, TypeOK, rest
  <2>2. userToData' \in [Users -> UserData \cup {Null}]
      BY <1>1, <1>7 DEF IInv, TypeOK
  <2> QED
      BY <2>1, <2>2 DEF IInv, TypeOK
<1>10. SessionAgreement'
  <2>1. \A u \in Users : userToData[u] # Null =>
            /\ userToData'[u] # Null
            /\ userToData[u].loggedIn => userToData'[u].loggedIn
            /\ userToData'[u].clientId = userToData[u].clientId
      BY <1>7, <1>8, NullAssumption
  <2> QED
      BY <2>1 DEF IInv, TypeOK, SessionAgreement, isUser
<1>11. LiveSubscriptions'
  <2>1. ASSUME NEW d \in Conns, connToName'[d] # Null, NEW r \in SubIds,
               userToData'[connToName'[d]].subIdTochannels[r] # Null
        PROVE  LET ids == userToData'[connToName'[d]].subIdTochannels
               IN  /\ chanNameToChanData'[ids[r]] # Null
                   /\ d \in ToSet(chanNameToChanData'[ids[r]])
                   /\ \A t \in SubIds \ {r} : ids[t] # ids[r]
    <3>1. CASE d = c
      <4> DEFINE ids == userToData'[connToName'[d]].subIdTochannels
      <4>1. ids = [old EXCEPT ![s] = Null]
          BY <1>1, <1>7, <3>1
      <4> HIDE DEF ids, old
      <4>2. r # s /\ ids[r] = old[r] /\ old[r] # Null /\ old[r] # ch
          BY <1>2, <1>4, <2>1, <4>1 DEF ids
      <4>3. \A t \in SubIds \ {r} : ids[t] # ids[r]
          BY <1>2, <1>3, <4>1, <4>2
      <4> QED
          BY <1>3, <1>6, <3>1, <4>2, <4>3 DEF ids, isChannel, isSubscribed
    <3>2. CASE d # c
      <4> DEFINE ids == userToData[connToName[d]].subIdTochannels
      <4>1. connToName[d] \in Users /\ connToName'[d] = connToName[d]
          BY <2>1 DEF IInv, TypeOK
      <4>2. connToName[d] # user
          BY <1>1, <2>1, <3>2, <4>1, OneConnection DEF IInv
      <4>3. userToData'[connToName'[d]].subIdTochannels = ids
          BY <1>8, <4>1, <4>2
      <4>4. /\ ids[r] \in Channels
            /\ isChannel(ids[r]) /\ isSubscribed(ids[r], d)
            /\ \A t \in SubIds \ {r} : ids[t] # ids[r]
        <5>1. ids \in [SubIds -> Channels \cup {Null}]
            BY <2>1, <4>1 DEF IInv, TypeOK, SessionAgreement, isUser, UserData, SubMap
        <5> QED
            BY <2>1, <4>1, <4>3, <5>1 DEF IInv, LiveSubscriptions
      <4> HIDE DEF ids
      <4> QED
          BY <1>5, <1>6, <3>2, <4>3, <4>4 DEF isChannel, isSubscribed
    <3> QED
        BY <3>1, <3>2
  <2> QED
      BY <2>1 DEF LiveSubscriptions, isChannel, isSubscribed
<1>12. LoggedOutIsClean'
    BY <1>7, <1>8 DEF IInv, LoggedOutIsClean, isUser
<1>13. ChannelLists'
    BY <1>5, <1>6 DEF IInv, ChannelLists, isChannel
<1> QED
    BY <1>9, <1>10, <1>11, <1>12, <1>13 DEF IInv

LEMMA executeUNSUBSCRIBEInv ==
    ASSUME IInv, NEW c \in Conns, NEW s \in SubIds, executeUNSUBSCRIBE(c, s)
    PROVE  IInv'
<1> DEFINE ch   == userToData[currUser[c]].subIdTochannels[s]
           rest == removeSubscriber(chanNameToChanData[ch], c)
           told == IF rest = Null THEN {} ELSE ToSet(rest)
           news == UNION {send(d, "UNSUBSCRIBE") : d \in told}
<1>1. Ready(c) /\ loggedIn' = loggedIn /\ loggedIn \in [Conns -> BOOLEAN]
    BY DEF executeUNSUBSCRIBE, IInv, TypeOK
<1>2. CASE /\ out' = NotLoggedInError(c) /\ NotLoggedInTerminate(c) /\ Thrown(c)
           /\ UNCHANGED <<clientsToCH, userToData, chanNameToChanData, connToName>>
    BY <1>1, <1>2, ThrownEffect, NotLoggedInTerminateEffect, sendFrames, QuietInv
       DEF IInv, TypeOK
<1>3. CASE ERROR(c, {})
    BY <1>1, <1>3, ERRORInv
<1>4. CASE /\ currUser[c] # Null /\ ch # Null /\ isSubscribed(ch, c)
           /\ chanNameToChanData' = [chanNameToChanData EXCEPT ![ch] = rest]
           /\ userToData' = [userToData EXCEPT ![currUser[c]] = removeChannel(@, s)]
           /\ out' = news \cup RECEIPT(c, TRUE)
           /\ UNCHANGED <<sock, clientsToCH, connToName, protocol>>
  <2>1. ch \in Channels
      BY <1>1, <1>4, ReadySession DEF UserData, SubMap
  <2>2. isChannel(ch)
      BY <1>1, <1>4, <2>1, ReadySession DEF IInv, LiveSubscriptions
  <2>3. told \in SUBSET Conns
    <3>1. rest \in Seq(Conns) \cup {Null}
      <4>1. rest = removeSubscriber(chanNameToChanData[ch], c) /\ isSubscribed(ch, c)
          BY <1>4
      <4> HIDE DEF rest
      <4> QED
          BY ONLY IInv, c \in Conns, <2>1, <2>2, <4>1, removeSubscriberList
    <3> HIDE DEF rest
    <3> QED
        BY <3>1 DEF ToSet
  <2> HIDE DEF told
  <2>4. out' \in SUBSET Frames
    <3>1. \A d \in told : send(d, "UNSUBSCRIBE") \subseteq Frames
        BY <2>3, sendFrames DEF FrameTypes
    <3>2. news \subseteq Frames
        BY <3>1
    <3>3. RECEIPT(c, TRUE) \subseteq Frames
        BY sendFrames
    <3> HIDE DEF news
    <3> QED
        BY <1>4, <3>2, <3>3
  <2> QED
      BY <1>1, <1>4, <2>1, <2>4, LeaveInv DEF protocol
<1> QED
    BY <1>2, <1>3, <1>4 DEF executeUNSUBSCRIBE

\* Every channel the user has an id for loses the connection, and no other.
LEMMA exectueDISCONNECTInv ==
    ASSUME IInv, NEW c \in Conns, exectueDISCONNECT(c)
    PROVE  IInv'
<1> DEFINE user == currUser[c]
           mine == SubscribedTo(userToData[user])
<1>1. /\ Ready(c) /\ loggedIn' = loggedIn /\ loggedIn \in [Conns -> BOOLEAN]
      /\ currUser' = currUser
    BY DEF exectueDISCONNECT, IInv, TypeOK
<1>2. CASE user = Null
    BY <1>1, <1>2, ThrownEffect, NotLoggedInTerminateEffect, sendFrames, QuietInv
       DEF exectueDISCONNECT, IInv, TypeOK
<1>3. CASE user # Null
  <2>1. /\ out' = RECEIPT(c, TRUE) /\ disconnect(c, LeaveChannels(c)) /\ terminate(c)
        /\ sock' = sock
      BY <1>3 DEF exectueDISCONNECT
  <2>2. /\ connToName[c] = user /\ user \in Users
        /\ userToData[user] \in UserData
      BY <1>1, <1>3, ReadySession
  <2>3. /\ chanNameToChanData' = LeaveChannels(c)
        /\ connToName' = [connToName EXCEPT ![c] = Null]
        /\ userToData' = [userToData EXCEPT ![user] = UserDisconnect(@)]
        /\ clientsToCH' \in SUBSET Conns
    <3>1. LeaveChannels(c) = [ch \in Channels |-> LeaveChannels(c)[ch]]
        BY DEF LeaveChannels
    <3> QED
        BY <1>1, <1>3, <2>1, <3>1, disconnectEffect
  <2>4. \A ch \in mine : ch \in Channels /\ isChannel(ch) /\ isSubscribed(ch, c)
      BY <1>3, <2>2 DEF SubscribedTo, IInv, LiveSubscriptions, UserData, SubMap
  <2>5. ASSUME NEW ch \in Channels
        PROVE  /\ chanNameToChanData'[ch] \in Seq(Conns) \cup {Null}
               /\ chanNameToChanData'[ch] # Null =>
                     chanNameToChanData'[ch] # <<>> /\ IsInjective(chanNameToChanData'[ch])
               /\ \A d \in Conns \ {c} : isChannel(ch) /\ isSubscribed(ch, d) =>
                     /\ chanNameToChanData'[ch] # Null
                     /\ d \in ToSet(chanNameToChanData'[ch])
    <3>1. CASE ch \in mine
      <4> DEFINE rest == removeSubscriber(chanNameToChanData[ch], c)
      <4>1. chanNameToChanData'[ch] = rest
          BY <2>3, <3>1 DEF LeaveChannels
      <4>2. /\ rest \in Seq(Conns) \cup {Null} /\ rest # <<>>
            /\ rest # Null => IsInjective(rest)
            /\ \A d \in Conns \ {c} :
                  isSubscribed(ch, d) => rest # Null /\ d \in ToSet(rest)
          BY <2>4, <3>1, removeSubscriberList
      <4> HIDE DEF rest
      <4> QED
          BY <4>1, <4>2
    <3>2. CASE ch \notin mine
      <4>1. chanNameToChanData'[ch] = chanNameToChanData[ch]
          BY <2>3, <3>2 DEF LeaveChannels
      <4> QED
          BY <4>1 DEF IInv, TypeOK, ChannelLists, isChannel, isSubscribed
    <3> QED
        BY <3>1, <3>2
  <2>6. /\ userToData'[user] \in UserData
        /\ userToData'[user].loggedIn = FALSE
        /\ userToData'[user].subIdTochannels = NoSubs
        /\ userToData'[user].channelsToSubId = NoChans
        /\ \A u \in Users : u # user => userToData'[u] = userToData[u]
      BY <2>2, <2>3, UserDisconnectData DEF IInv, TypeOK
  <2>7. TypeOK'
    <3>1. chanNameToChanData' \in [Channels -> Seq(Conns) \cup {Null}]
        BY <2>3, <2>5 DEF LeaveChannels
    <3>2. userToData' \in [Users -> UserData \cup {Null}]
        BY <2>2, <2>3, <2>6 DEF IInv, TypeOK
    <3>3. out' \in SUBSET Frames
        BY <2>1, sendFrames
    <3> QED
        BY <1>1, <2>1, <2>3, <3>1, <3>2, <3>3 DEF IInv, TypeOK, terminate
  <2>8. ASSUME NEW d \in Conns, connToName'[d] # Null
        PROVE  /\ d # c /\ connToName'[d] = connToName[d] /\ connToName[d] \in Users
               /\ userToData'[connToName[d]] = userToData[connToName[d]]
    <3>1. d # c /\ connToName'[d] = connToName[d] /\ connToName[d] \in Users
        BY <2>3, <2>8, NullAssumption DEF IInv, TypeOK
    <3>2. connToName[d] # connToName[c]
        BY <2>8, <3>1, OneConnection DEF IInv
    <3> QED
        BY <2>2, <2>6, <3>1, <3>2
  <2>9. SessionAgreement'
    <3>1. \A u \in Users : userToData[u] # Null => userToData'[u] # Null
        BY <2>6, NullAssumption
    <3>2. ASSUME NEW d \in Conns
          PROVE connToName'[d] # Null =>
                /\ currUser'[d] = connToName'[d]
                /\ userToData'[connToName'[d]] # Null
                /\ userToData'[connToName'[d]].loggedIn
                /\ userToData'[connToName'[d]].clientId = d
        BY <1>1, <2>8, <3>1 DEF IInv, SessionAgreement, isUser
    <3>3. ASSUME NEW d \in Conns, currUser[d] # Null
          PROVE /\ userToData'[currUser[d]] # Null
                /\ shouldTerminate'[d] \/ connToName'[d] = currUser[d]
        BY <2>1, <2>3, <3>1, <3>3 DEF IInv, SessionAgreement, TypeOK, isUser, terminate
    <3> QED
        BY <1>1, <3>2, <3>3 DEF SessionAgreement, isUser
  <2>10. LiveSubscriptions'
    <3>1. ASSUME NEW d \in Conns, connToName'[d] # Null
          PROVE  LET ids == userToData'[connToName'[d]].subIdTochannels
                 IN  \A s \in SubIds : ids[s] # Null =>
                        /\ chanNameToChanData'[ids[s]] # Null
                        /\ d \in ToSet(chanNameToChanData'[ids[s]])
                        /\ \A t \in SubIds \ {s} : ids[t] # ids[s]
      <4> DEFINE ids == userToData[connToName[d]].subIdTochannels
      <4>1. userToData'[connToName'[d]].subIdTochannels = ids /\ d # c
          BY <2>8, <3>1
      <4>2. ids \in [SubIds -> Channels \cup {Null}]
          BY <2>8, <3>1 DEF IInv, TypeOK, SessionAgreement, isUser, UserData, SubMap
      <4>3. \A s \in SubIds : ids[s] # Null =>
                /\ ids[s] \in Channels /\ isChannel(ids[s]) /\ isSubscribed(ids[s], d)
                /\ \A t \in SubIds \ {s} : ids[t] # ids[s]
          BY <2>8, <3>1, <4>2 DEF IInv, LiveSubscriptions
      <4> HIDE DEF ids
      <4> QED
          BY <2>5, <4>1, <4>3
    <3> QED
        BY <3>1 DEF LiveSubscriptions, isChannel, isSubscribed
  <2>11. LoggedOutIsClean'
      BY <2>6 DEF IInv, LoggedOutIsClean, isUser
  <2>12. ChannelLists'
      BY <2>5 DEF ChannelLists, isChannel
  <2> QED
      BY <2>7, <2>9, <2>10, <2>11, <2>12 DEF IInv
<1> QED
    BY <1>2, <1>3

-----------------------------------------------------------------------------
(* The theorems *)

LEMMA InitInv == Init => IInv
<1> SUFFICES ASSUME Init PROVE IInv
    OBVIOUS
<1>1. TypeOK
    BY DEF Init, TypeOK
<1>2. SessionAgreement /\ LiveSubscriptions /\ LoggedOutIsClean /\ ChannelLists
    BY DEF Init, SessionAgreement, LiveSubscriptions, LoggedOutIsClean, ChannelLists,
           isUser, isChannel
<1> QED
    BY <1>1, <1>2 DEF IInv

LEMMA NextInv == IInv /\ [Next]_vars => IInv'
<1> SUFFICES ASSUME IInv, [Next]_vars PROVE IInv'
    OBVIOUS
<1>1. CASE UNCHANGED vars
    BY <1>1, QuietInv DEF vars, IInv, TypeOK
<1>2. ASSUME NEW c \in Conns, Accept(c) \/ EndRun(c) PROVE IInv'
    BY <1>2, AcceptInv, EndRunInv
<1>3. ASSUME NEW c \in Conns, process(c) PROVE IInv'
  <2>1. CASE \E u \in Users, p \in Passcodes, r \in BOOLEAN : exectueCONNECT(c, u, p, r)
      BY <2>1, exectueCONNECTInv
  <2>2. CASE \E s \in SubIds, ch \in Channels, r \in BOOLEAN : exectueSUBSCRIBE(c, s, ch, r)
      BY <2>2, exectueSUBSCRIBEInv
  <2>3. CASE \E s \in SubIds : executeUNSUBSCRIBE(c, s)
      BY <2>3, executeUNSUBSCRIBEInv
  <2>4. CASE \E ch \in Channels, r \in BOOLEAN : executeSEND(c, ch, r)
      BY <2>4, executeSENDInv
  <2>5. CASE exectueDISCONNECT(c)
      BY <2>5, exectueDISCONNECTInv
  <2>6. CASE RejectFrame(c) \/ BreakFrame(c)
      BY <2>6, RejectFrameInv, BreakFrameInv
  <2> QED
      BY <1>3, <2>1, <2>2, <2>3, <2>4, <2>5, <2>6 DEF process
<1> QED
    BY <1>1, <1>2, <1>3 DEF Next

\* The inductive invariant holds in every reachable state of the broker.
THEOREM Invariance == Spec => []IInv
<1> QED
    BY InitInv, NextInv, PTL DEF Spec

\* Every variable of the broker keeps its type, whatever frames arrive.
THEOREM TypeCorrect == Spec => []TypeOK
<1>1. IInv => TypeOK
    BY DEF IInv
<1> QED
    BY <1>1, Invariance, PTL

\* The records of who is logged in where agree, so no user is on two connections.
THEOREM SessionsAgree == Spec => []SessionAgreement
<1>1. IInv => SessionAgreement
    BY DEF IInv
<1> QED
    BY <1>1, Invariance, PTL

\* A session's subscription ids lead to existing channels that list it.
THEOREM SubscriptionsLive == Spec => []LiveSubscriptions
<1>1. IInv => LiveSubscriptions
    BY DEF IInv
<1> QED
    BY <1>1, Invariance, PTL

\* A user who is logged out has no subscriptions left for the next login.
THEOREM LogoutsClean == Spec => []LoggedOutIsClean
<1>1. IInv => LoggedOutIsClean
    BY DEF IInv
<1> QED
    BY <1>1, Invariance, PTL

\* A channel in the map has a subscriber and lists nobody twice.
THEOREM ListsProper == Spec => []ChannelLists
<1>1. IInv => ChannelLists
    BY DEF IInv
<1> QED
    BY <1>1, Invariance, PTL

-----------------------------------------------------------------------------
(* Steps: what one handler leaves alone of the other connections and of the *)
(* users.  It follows from the inductive invariant.                          *)

\* No step of this kind disturbs the session of d: its user, the user's data,
\* and which channels list d.
Undisturbed(d) ==
    /\ connToName'[d] = connToName[d]
    /\ connToName[d] # Null => userToData'[connToName[d]] = userToData[connToName[d]]
    /\ \A ch \in Channels :
          (chanNameToChanData'[ch] # Null /\ d \in ToSet(chanNameToChanData'[ch]))
          <=> (isChannel(ch) /\ isSubscribed(ch, d))

\* The users stay, and their passcodes.
UsersStay ==
    \A u \in Users : isUser(u) =>
        userToData'[u] # Null /\ userToData'[u].password = userToData[u].password

LEMMA SessionUndisturbed ==
    ASSUME NEW d \in Conns, Undisturbed(d)
    PROVE  Session(d)' = Session(d)
BY DEF Undisturbed, Session, isChannel, isSubscribed

\* The users of two connections are two.
LEMMA OtherUser ==
    ASSUME IInv, NEW c \in Conns, Ready(c), NEW d \in Conns \ {c}, connToName[d] # Null
    PROVE  connToName[d] # currUser[c] /\ connToName[d] \in Users
<1>1. connToName[d] \in Users
    BY DEF IInv, TypeOK
<1>2. connToName[d] # connToName[c]
    BY OneConnection DEF IInv
<1> QED
    BY <1>1, <1>2, ReadySession

-----------------------------------------------------------------------------
(* The kinds of change a handler makes *)

LEMMA QuietSteps ==
    ASSUME UNCHANGED <<userToData, chanNameToChanData, connToName>>
    PROVE  UsersStay /\ \A d \in Conns : Undisturbed(d)
BY DEF UsersStay, Undisturbed, isUser, isChannel, isSubscribed

\* What is written is the data of one user, and it has the old passcode.
LEMMA OneUserWritten ==
    ASSUME IInv, NEW u \in Users, NEW data, userToData' = [userToData EXCEPT ![u] = data],
           data # Null, isUser(u) => data.password = userToData[u].password
    PROVE  UsersStay
BY DEF UsersStay, isUser, IInv, TypeOK

\* The user of c, and nobody else, has its data changed by change().
LEMMA CurrentUserWritten ==
    ASSUME IInv, NEW c \in Conns, Ready(c), currUser[c] # Null,
           NEW data \in UserData, data.password = userToData[currUser[c]].password,
           userToData' = [userToData EXCEPT ![currUser[c]] = data]
    PROVE  /\ UsersStay
           /\ \A d \in Conns \ {c} : connToName[d] # Null =>
                 userToData'[connToName[d]] = userToData[connToName[d]]
<1>1. currUser[c] \in Users /\ data # Null
    BY ReadySession, NullAssumption
<1>2. UsersStay
    BY <1>1, OneUserWritten
<1>3. ASSUME NEW d \in Conns \ {c}, connToName[d] # Null
      PROVE  userToData'[connToName[d]] = userToData[connToName[d]]
    BY <1>1, <1>3, OtherUser DEF IInv, TypeOK
<1> QED
    BY <1>2, <1>3

LEMMA ERRORSteps ==
    ASSUME IInv, NEW c \in Conns, Ready(c), NEW replies, ERROR(c, replies)
    PROVE  UsersStay /\ \A d \in Conns \ {c} : Undisturbed(d)
<1>1. /\ chanNameToChanData' = chanNameToChanData
      /\ connToName' = [connToName EXCEPT ![c] = Null]
      /\ userToData' = IF currUser[c] = Null THEN userToData
                       ELSE [userToData EXCEPT ![currUser[c]] = UserDisconnect(@)]
    BY disconnectEffect DEF ERROR, IInv, TypeOK
<1>2. \A d \in Conns \ {c} : connToName'[d] = connToName[d]
    BY <1>1 DEF IInv, TypeOK
<1>3. UsersStay /\ \A d \in Conns \ {c} : connToName[d] # Null =>
          userToData'[connToName[d]] = userToData[connToName[d]]
  <2>1. CASE currUser[c] = Null
      BY <1>1, <2>1 DEF UsersStay, isUser
  <2>2. CASE currUser[c] # Null
    <3> DEFINE data == UserDisconnect(userToData[currUser[c]])
    <3>1. currUser[c] \in Users /\ userToData[currUser[c]] \in UserData
        BY <2>2, ReadySession
    <3>2. data \in UserData /\ data.password = userToData[currUser[c]].password
        BY <3>1, UserDisconnectData
    <3>3. userToData' = [userToData EXCEPT ![currUser[c]] = data]
        BY <1>1, <2>2
    <3> HIDE DEF data
    <3> QED
        BY <2>2, <3>2, <3>3, CurrentUserWritten
  <2> QED
      BY <2>1, <2>2
<1> QED
    BY <1>1, <1>2, <1>3 DEF Undisturbed, isChannel, isSubscribed

\* A login: nobody else was mapped to the user.
LEMMA LoginSteps ==
    ASSUME IInv, NEW c \in Conns, NEW u \in Users, NEW data \in UserData,
           NEW receipt, Login(c, u, data, receipt),
           isUser(u) => ~userToData[u].loggedIn /\ data.password = userToData[u].password
    PROVE  UsersStay /\ \A d \in Conns \ {c} : Undisturbed(d)
<1>1. /\ userToData' = [userToData EXCEPT ![u] = data]
      /\ connToName' = [connToName EXCEPT ![c] = u]
      /\ chanNameToChanData' = chanNameToChanData
    BY DEF Login
<1>2. UsersStay
    BY <1>1, NullAssumption, OneUserWritten
<1>3. ASSUME NEW d \in Conns \ {c}
      PROVE  /\ connToName'[d] = connToName[d]
             /\ connToName[d] # Null =>
                   userToData'[connToName[d]] = userToData[connToName[d]]
  <2>1. connToName[d] # Null => connToName[d] # u
      BY DEF IInv, SessionAgreement
  <2> QED
      BY <1>1, <2>1 DEF IInv, TypeOK
<1> QED
    BY <1>1, <1>2, <1>3 DEF Undisturbed, isChannel, isSubscribed

\* A change of the lists that leaves everybody but c where they are.
LEMMA ListsForOthers ==
    ASSUME NEW c \in Conns, NEW d \in Conns \ {c},
           connToName'[d] = connToName[d],
           connToName[d] # Null => userToData'[connToName[d]] = userToData[connToName[d]],
           NEW S \in SUBSET Channels,
           \A ch \in Channels \ S : chanNameToChanData'[ch] = chanNameToChanData[ch],
           \A ch \in S : (chanNameToChanData'[ch] # Null /\ d \in ToSet(chanNameToChanData'[ch]))
                          <=> (isChannel(ch) /\ isSubscribed(ch, d))
    PROVE  Undisturbed(d)
BY DEF Undisturbed, isChannel, isSubscribed

LEMMA JoinedOthers ==
    ASSUME IInv, NEW c \in Conns, NEW ch \in Channels, NEW d \in Conns \ {c}
    PROVE  d \in ToSet(Joined(ch, c)) <=> isChannel(ch) /\ isSubscribed(ch, d)
<1>1. CASE ~isChannel(ch)
  <2>1. Joined(ch, c) = <<c>>
      BY <1>1 DEF Joined
  <2> QED
      BY <1>1, <2>1 DEF ToSet
<1>2. CASE isChannel(ch)
  <2> DEFINE list == chanNameToChanData[ch]
  <2>1. Joined(ch, c) = Append(list, c) /\ list \in Seq(Conns)
      BY <1>2 DEF Joined, isChannel, IInv, TypeOK
  <2> HIDE DEF list
  <2>2. d \in ToSet(Append(list, c)) <=> d \in ToSet(list)
      BY <2>1 DEF ToSet
  <2> QED
      BY <1>2, <2>1, <2>2 DEF list, isSubscribed
<1> QED
    BY <1>1, <1>2

LEMMA removedOthers ==
    ASSUME IInv, NEW c \in Conns, NEW ch \in Channels,
           isChannel(ch), isSubscribed(ch, c), NEW d \in Conns \ {c},
           NEW rest, rest = removeSubscriber(chanNameToChanData[ch], c)
    PROVE  (rest # Null /\ d \in ToSet(rest)) <=> isSubscribed(ch, d)
<1>1. /\ rest # Null => ToSet(rest) = ToSet(chanNameToChanData[ch]) \ {c}
      /\ isSubscribed(ch, d) => rest # Null /\ d \in ToSet(rest)
    BY removeSubscriberList
<1> QED
    BY <1>1 DEF isSubscribed

-----------------------------------------------------------------------------
(* The handlers *)

LEMMA exectueCONNECTSteps ==
    ASSUME IInv, NEW c \in Conns, NEW u \in Users, NEW p \in Passcodes,
           NEW receipt \in BOOLEAN, exectueCONNECT(c, u, p, receipt)
    PROVE  UsersStay /\ \A d \in Conns \ {c} : Undisturbed(d)
<1> DEFINE data == userToData[u]
           again == [data EXCEPT !.loggedIn = TRUE, !.clientId = c]
<1>1. CASE isUser(u) /\ ~isUserLoggedIn(u) /\ Login(c, u, again, receipt)
  <2>1. data \in UserData
      BY <1>1 DEF IInv, TypeOK, isUser
  <2>2. again \in UserData /\ again.password = data.password
      BY <2>1 DEF UserData
  <2> QED
      BY <1>1, <2>2, LoginSteps DEF isUserLoggedIn
<1>2. CASE Ready(c) /\ ERROR(c, {})
    BY <1>2, ERRORSteps
<1>3. CASE ~isUser(u) /\ Login(c, u, NewUserData(p, c), receipt)
    BY <1>3, NewUserDataData, LoginSteps
<1> QED
    BY <1>1, <1>2, <1>3 DEF exectueCONNECT

LEMMA exectueSUBSCRIBESteps ==
    ASSUME IInv, NEW c \in Conns, NEW s \in SubIds, NEW ch \in Channels,
           NEW receipt \in BOOLEAN, exectueSUBSCRIBE(c, s, ch, receipt)
    PROVE  UsersStay /\ \A d \in Conns \ {c} : Undisturbed(d)
<1>1. Ready(c) /\ connToName' = connToName
    BY DEF exectueSUBSCRIBE
<1>2. CASE UNCHANGED <<userToData, chanNameToChanData>>
    BY <1>1, <1>2, QuietSteps
<1>3. CASE /\ ~(isChannel(ch) /\ isSubscribed(ch, c))
           /\ chanNameToChanData' = [chanNameToChanData EXCEPT ![ch] = Joined(ch, c)]
           /\ \/ userToData' = userToData
              \/ /\ currUser[c] # Null
                 /\ userToData' = [userToData EXCEPT ![currUser[c]] = addChannel(@, s, ch)]
  <2>1. UsersStay /\ \A d \in Conns \ {c} : connToName[d] # Null =>
            userToData'[connToName[d]] = userToData[connToName[d]]
    <3>1. CASE userToData' = userToData
        BY <3>1 DEF UsersStay, isUser
    <3>2. CASE /\ currUser[c] # Null
               /\ userToData' = [userToData EXCEPT ![currUser[c]] = addChannel(@, s, ch)]
      <4> DEFINE data == addChannel(userToData[currUser[c]], s, ch)
      <4>1. data \in UserData /\ data.password = userToData[currUser[c]].password
        <5> DEFINE old == userToData[currUser[c]]
        <5>1. old \in UserData
            BY <1>1, <3>2, ReadySession
        <5> HIDE DEF old
        <5>2. addChannel(old, s, ch) \in UserData /\ addChannel(old, s, ch).password = old.password
            BY ONLY <5>1, s \in SubIds, ch \in Channels, addChannelData
        <5> QED
            BY ONLY <5>2 DEF data, old
      <4>2. userToData' = [userToData EXCEPT ![currUser[c]] = data]
          BY <3>2
      <4> HIDE DEF data
      <4> QED
          BY <1>1, <3>2, <4>1, <4>2, CurrentUserWritten
    <3> QED
        BY <1>3, <3>1, <3>2
  <2>2. /\ chanNameToChanData'[ch] = Joined(ch, c)
        /\ \A x \in Channels \ {ch} : chanNameToChanData'[x] = chanNameToChanData[x]
      BY <1>3 DEF IInv, TypeOK
  <2>3. ASSUME NEW d \in Conns \ {c} PROVE Undisturbed(d)
    <3>1. (chanNameToChanData'[ch] # Null /\ d \in ToSet(chanNameToChanData'[ch]))
             <=> (isChannel(ch) /\ isSubscribed(ch, d))
        BY <1>3, <2>2, JoinedList, JoinedOthers
    <3> DEFINE S == {ch}
    <3>2. /\ S \in SUBSET Channels
          /\ \A x \in Channels \ S : chanNameToChanData'[x] = chanNameToChanData[x]
          /\ \A x \in S : (chanNameToChanData'[x] # Null /\ d \in ToSet(chanNameToChanData'[x]))
                            <=> (isChannel(x) /\ isSubscribed(x, d))
        BY <2>2, <3>1
    <3> HIDE DEF S
    <3> QED
        BY <1>1, <2>1, <3>2, ListsForOthers
  <2> QED
      BY <2>1, <2>3
<1> QED
    BY <1>2, <1>3 DEF exectueSUBSCRIBE

LEMMA executeUNSUBSCRIBESteps ==
    ASSUME IInv, NEW c \in Conns, NEW s \in SubIds, executeUNSUBSCRIBE(c, s)
    PROVE  UsersStay /\ \A d \in Conns \ {c} : Undisturbed(d)
<1> DEFINE ch   == userToData[currUser[c]].subIdTochannels[s]
           rest == removeSubscriber(chanNameToChanData[ch], c)
<1>1. Ready(c)
    BY DEF executeUNSUBSCRIBE
<1>2. CASE UNCHANGED <<userToData, chanNameToChanData, connToName>>
    BY <1>2, QuietSteps
<1>3. CASE ERROR(c, {})
    BY <1>1, <1>3, ERRORSteps
<1>4. CASE /\ currUser[c] # Null /\ ch # Null /\ isSubscribed(ch, c)
           /\ chanNameToChanData' = [chanNameToChanData EXCEPT ![ch] = rest]
           /\ userToData' = [userToData EXCEPT ![currUser[c]] = removeChannel(@, s)]
           /\ connToName' = connToName
  <2>1. ch \in Channels
      BY <1>1, <1>4, ReadySession DEF UserData, SubMap
  <2>2. isChannel(ch)
      BY <1>1, <1>4, <2>1, ReadySession DEF IInv, LiveSubscriptions
  <2>3. UsersStay /\ \A d \in Conns \ {c} : connToName[d] # Null =>
            userToData'[connToName[d]] = userToData[connToName[d]]
    <3> DEFINE data == removeChannel(userToData[currUser[c]], s)
    <3>1. data \in UserData /\ data.password = userToData[currUser[c]].password
        BY <1>1, <1>4, ReadySession, removeChannelData
    <3>2. userToData' = [userToData EXCEPT ![currUser[c]] = data]
        BY <1>4
    <3> HIDE DEF data
    <3> QED
        BY <1>1, <1>4, <3>1, <3>2, CurrentUserWritten
  <2>4. /\ chanNameToChanData'[ch] = rest
        /\ \A x \in Channels \ {ch} : chanNameToChanData'[x] = chanNameToChanData[x]
      BY <1>4, <2>1 DEF IInv, TypeOK
  <2>5. ASSUME NEW d \in Conns \ {c} PROVE Undisturbed(d)
    <3>1. (rest # Null /\ d \in ToSet(rest)) <=> isSubscribed(ch, d)
        BY <1>4, <2>1, <2>2, removedOthers
    <3> DEFINE S == {ch}
    <3>2. /\ S \in SUBSET Channels
          /\ \A x \in Channels \ S : chanNameToChanData'[x] = chanNameToChanData[x]
          /\ \A x \in S : (chanNameToChanData'[x] # Null /\ d \in ToSet(chanNameToChanData'[x]))
                            <=> (isChannel(x) /\ isSubscribed(x, d))
      <4> HIDE DEF rest, ch
      <4> QED
          BY <2>1, <2>2, <2>4, <3>1
    <3> HIDE DEF S, rest, ch
    <3> QED
        BY <1>4, <2>3, <3>2, ListsForOthers
  <2> QED
      BY <2>3, <2>5
<1> QED
    BY <1>2, <1>3, <1>4 DEF executeUNSUBSCRIBE

\* DISCONNECT of a user takes c, and c only, off the channels c has an id for.
LEMMA LeaveChannelsEffect ==
    ASSUME IInv, NEW c \in Conns, exectueDISCONNECT(c), currUser[c] # Null
    PROVE  LET mine == SubscribedTo(userToData[currUser[c]])
           IN  /\ mine \in SUBSET Channels
               /\ \A ch \in mine :
                     /\ isChannel(ch) /\ isSubscribed(ch, c)
                     /\ chanNameToChanData'[ch] = removeSubscriber(chanNameToChanData[ch], c)
               /\ \A ch \in Channels \ mine :
                     chanNameToChanData'[ch] = chanNameToChanData[ch]
               /\ connToName' = [connToName EXCEPT ![c] = Null]
               /\ userToData' = [userToData EXCEPT ![currUser[c]] = UserDisconnect(@)]
<1> DEFINE user == currUser[c]
           mine == SubscribedTo(userToData[user])
<1>1. Ready(c) /\ disconnect(c, LeaveChannels(c))
    BY DEF exectueDISCONNECT
<1>2. LeaveChannels(c) = [ch \in Channels |-> LeaveChannels(c)[ch]]
    BY DEF LeaveChannels
<1>3. /\ chanNameToChanData' = LeaveChannels(c)
      /\ connToName' = [connToName EXCEPT ![c] = Null]
      /\ userToData' = [userToData EXCEPT ![user] = UserDisconnect(@)]
    BY <1>1, <1>2, disconnectEffect
<1>4. \A ch \in mine : ch \in Channels /\ isChannel(ch) /\ isSubscribed(ch, c)
    BY <1>1, ReadySession DEF SubscribedTo, IInv, LiveSubscriptions, UserData, SubMap
<1> QED
    BY <1>3, <1>4 DEF LeaveChannels

LEMMA exectueDISCONNECTSteps ==
    ASSUME IInv, NEW c \in Conns, exectueDISCONNECT(c)
    PROVE  UsersStay /\ \A d \in Conns \ {c} : Undisturbed(d)
<1>1. CASE currUser[c] = Null
    BY <1>1, QuietSteps DEF exectueDISCONNECT
<1>2. CASE currUser[c] # Null
  <2> DEFINE mine == SubscribedTo(userToData[currUser[c]])
  <2>1. Ready(c)
      BY DEF exectueDISCONNECT
  <2>2. UsersStay /\ \A d \in Conns \ {c} : connToName[d] # Null =>
            userToData'[connToName[d]] = userToData[connToName[d]]
    <3> DEFINE data == UserDisconnect(userToData[currUser[c]])
    <3>1. data \in UserData /\ data.password = userToData[currUser[c]].password
        BY <1>2, <2>1, ReadySession, UserDisconnectData
    <3>2. userToData' = [userToData EXCEPT ![currUser[c]] = data]
        BY <1>2, LeaveChannelsEffect
    <3> HIDE DEF data
    <3> QED
        BY <1>2, <2>1, <3>1, <3>2, CurrentUserWritten
  <2>3. ASSUME NEW d \in Conns \ {c} PROVE Undisturbed(d)
    <3>1. connToName'[d] = connToName[d]
        BY <1>2, LeaveChannelsEffect DEF IInv, TypeOK
    <3>2. mine \in SUBSET Channels
          /\ \A ch \in Channels \ mine : chanNameToChanData'[ch] = chanNameToChanData[ch]
        BY <1>2, LeaveChannelsEffect
    <3>3. ASSUME NEW ch \in mine
          PROVE  (chanNameToChanData'[ch] # Null /\ d \in ToSet(chanNameToChanData'[ch]))
                    <=> (isChannel(ch) /\ isSubscribed(ch, d))
      <4>1. /\ ch \in Channels /\ isChannel(ch) /\ isSubscribed(ch, c)
            /\ chanNameToChanData'[ch] = removeSubscriber(chanNameToChanData[ch], c)
          BY <1>2, <3>2, LeaveChannelsEffect
      <4> QED
          BY <4>1, removedOthers
    <3> HIDE DEF mine
    <3> QED
        BY <2>2, <3>1, <3>2, <3>3, ListsForOthers
  <2> QED
      BY <2>2, <2>3
<1> QED
    BY <1>1, <1>2

LEMMA processSteps ==
    ASSUME IInv, NEW c \in Conns, process(c)
    PROVE  UsersStay /\ \A d \in Conns \ {c} : Undisturbed(d)
<1>1. CASE \E u \in Users, p \in Passcodes, r \in BOOLEAN : exectueCONNECT(c, u, p, r)
    BY <1>1, exectueCONNECTSteps
<1>2. CASE \E s \in SubIds, ch \in Channels, r \in BOOLEAN : exectueSUBSCRIBE(c, s, ch, r)
    BY <1>2, exectueSUBSCRIBESteps
<1>3. CASE \E s \in SubIds : executeUNSUBSCRIBE(c, s)
    BY <1>3, executeUNSUBSCRIBESteps
<1>4. CASE \E ch \in Channels, r \in BOOLEAN : executeSEND(c, ch, r)
    BY <1>4, ERRORSteps, QuietSteps DEF executeSEND
<1>5. CASE exectueDISCONNECT(c)
    BY <1>5, exectueDISCONNECTSteps
<1>6. CASE RejectFrame(c) \/ BreakFrame(c)
    BY <1>6, ERRORSteps, QuietSteps DEF RejectFrame, BreakFrame
<1> QED
    BY <1>1, <1>2, <1>3, <1>4, <1>5, <1>6 DEF process

-----------------------------------------------------------------------------
(* The theorems *)

\* No frame disturbs the session of another connection: not its user, nor the
\* user's data, nor which channels list the connection.
THEOREM FramesAreIsolated == Spec => Isolation
<1>1. IInv /\ [Next]_vars => [\A c \in Conns : process(c) =>
          \A d \in Conns \ {c} : Session(d)' = Session(d)]_vars
    BY processSteps, SessionUndisturbed
<1> QED
    BY <1>1, Invariance, PTL DEF Spec, Isolation

\* Users stay, with the passcode they were created with.
THEOREM PasswordsAreKept == Spec => PasswordKept
<1>1. IInv /\ [Next]_vars => [UsersStay]_vars
  <2> SUFFICES ASSUME IInv, Next PROVE UsersStay
      OBVIOUS
  <2>1. PICK c \in Conns : Accept(c) \/ process(c) \/ EndRun(c)
      BY DEF Next
  <2>2. CASE Accept(c) \/ EndRun(c)
      BY <2>2, QuietSteps DEF Accept, EndRun
  <2> QED
      BY <2>1, <2>2, processSteps
<1>2. [UsersStay]_vars =>
        [\A u \in Users : isUser(u) =>
          isUser(u)' /\ userToData'[u].password = userToData[u].password]_vars
    BY DEF UsersStay, isUser
<1> QED
    BY <1>1, <1>2, Invariance, PTL DEF Spec, PasswordKept

\* A DISCONNECT leaves no channel with the connection on it, if each channel
\* the connection was on had an id of its user.
THEOREM LogoutsLeaveChannels == Spec => CleanLogout
<1> DEFINE on(ch, c) == isChannel(ch) /\ isSubscribed(ch, c)
<1>1. ASSUME IInv, NEW c \in Conns, exectueDISCONNECT(c), currUser[c] # Null,
             \A ch \in Channels : on(ch, c) => ch \in SubscribedTo(userToData[currUser[c]]),
             NEW ch \in Channels
      PROVE  ~(chanNameToChanData'[ch] # Null /\ c \in ToSet(chanNameToChanData'[ch]))
  <2>1. CASE on(ch, c)
    <3>1. chanNameToChanData'[ch] = removeSubscriber(chanNameToChanData[ch], c)
        BY <1>1, <2>1, LeaveChannelsEffect
    <3> QED
        BY <2>1, <3>1, removeSubscriberList, <1>1
  <2>2. CASE ~on(ch, c)
    <3>1. chanNameToChanData'[ch] = chanNameToChanData[ch]
        BY <1>1, <2>2, LeaveChannelsEffect
    <3> QED
        BY <2>2, <3>1 DEF isChannel, isSubscribed
  <2> QED
      BY <2>1, <2>2
<1>2. IInv => [\A c \in Conns :
          LET listed(ch) == isChannel(ch) /\ isSubscribed(ch, c)
          IN  /\ exectueDISCONNECT(c)
              /\ currUser[c] # Null
              /\ \A ch \in Channels : listed(ch) => ch \in SubscribedTo(userToData[currUser[c]])
              => \A ch \in Channels : ~listed(ch)']_vars
    BY <1>1 DEF isChannel, isSubscribed
<1> QED
    BY <1>2, Invariance, PTL DEF Spec, CleanLogout

=============================================================================
