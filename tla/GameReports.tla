----------------------------- MODULE GameReports -----------------------------
(***************************************************************************)
(* Reports of game events on their way from one client's file to the       *)
(* other clients' summaries.  A client's keyboard thread sends the events  *)
(* of a file one by one; the server passes each on to whoever is on the    *)
(* channel of the game, the sender too; a client's socket thread reads the *)
(* frames one by one and adds the events up.                               *)
(*                                                                         *)
(* Sessions are modelled in StompClient and the server's maps in           *)
(* StompBroker.  Here a client is logged in from the start until it logs   *)
(* out, reports only on games it has joined, so that the server never      *)
(* refuses a frame, does not leave a channel, and types nothing behind     *)
(* logout.                                                                 *)
(*                                                                         *)
(* One call of the server's process() is one step.  The threads of the     *)
(* server do overlap, and a SEND whose channel another thread joins or     *)
(* leaves meanwhile does not reach everybody (SENDCutShort).  Two that     *)
(* join or leave a channel at once take turns here; StompBrokerThreads     *)
(* shows how one of them may be lost, and what a single SEND is about.     *)
(***************************************************************************)
EXTENDS GameEvents

CONSTANTS Clients,    \* named after their users
          Files,      \* what the command report may find in a file
          Words,      \* games as they may be typed behind the command summary
          MaxReports  \* reports of all clients together, at most

ASSUME ReportsAssumption ==
    /\ Clients # {} /\ MaxReports \in Nat
    /\ \A file \in Files :
          /\ file.team_a \in Names /\ file.team_b \in Names
          /\ file.events \in Seq(FileEvents)

VARIABLES
  (* the clients *)
    todo,        \* the events the report loop has still to send
    joined,      \* the channels in channelToSubId
    online,      \* loggedIn
    closing,     \* shut: the next frame closes the socket
    summaries,   \* channel_to_username_to_event
  (* the frames on their way, and the server's subscribers *)
    up, down, subscribers,
    threads,     \* the clients for which the server has a thread
  (* history *)
    reports,     \* how many reports there were
    due,         \* the events reported on a channel while a client was on it, in order
    received,    \* the reported events whose frames a client has read, in order
    cut          \* whether a SEND was cut short

client == <<todo, joined, online, closing, summaries>>
network == <<up, down, subscribers, threads>>
history == <<reports, due, received, cut>>
vars == <<client, network, history>>

Games == {gameName(file.team_a, file.team_b) : file \in Files}

\* A frame; origin is the reported event, which nobody looks at.
Frame(command, game, body, origin) ==
    [command |-> command, game |-> game, body |-> body, origin |-> origin]
Plain(command, game) == Frame(command, game, <<>>, Nothing)

\* What the client's handler may send when the socket is open.
Put(c, frame) == up' = [up EXCEPT ![c] = Append(@, frame)]

-----------------------------------------------------------------------------
(* The keyboard thread *)

Free(c) == online[c] /\ ~closing[c] /\ todo[c] = <<>>

\* join
Join(c, game) ==
    /\ Free(c) /\ game \notin joined[c]
    /\ joined' = [joined EXCEPT ![c] = @ \cup {game}]
    /\ Put(c, Plain("SUBSCRIBE", game))
    /\ UNCHANGED <<todo, online, closing, summaries, down, subscribers, threads, history>>

\* report
Report(c, file) ==
    /\ Free(c) /\ reports < MaxReports
    /\ gameName(file.team_a, file.team_b) \in joined[c]
    /\ reports' = reports + 1
    /\ todo' = [todo EXCEPT ![c] = parseEventsFile(file)]
    /\ UNCHANGED <<joined, online, closing, summaries, network, due, received, cut>>

\* One turn of the loop over the events of a file.  After the socket thread has
\* closed the socket the loop goes on, and nothing is sent.
SendEvent(c) ==
    /\ todo[c] # <<>>
    /\ \E e \in {Head(todo[c])} : \E body \in {reportEvent(c, e)} :
          IF online[c]
          THEN Put(c, Frame("SEND", gameName(e.team_a, e.team_b), body, [e EXCEPT !.user = c]))
          ELSE UNCHANGED up
    /\ todo' = [todo EXCEPT ![c] = Tail(@)]
    /\ UNCHANGED <<joined, online, closing, summaries, down, subscribers, threads, history>>

\* summary: looking a game up by [] adds it to the map.
Summary(c, word) ==
    /\ Free(c)
    /\ summaries' = [summaries EXCEPT ![c] = Emplaced(@, Pair(word, Nothing))]
    /\ UNCHANGED <<todo, joined, online, closing, network, history>>

\* logout
Logout(c) ==
    /\ Free(c)
    /\ closing' = [closing EXCEPT ![c] = TRUE]
    /\ Put(c, Plain("DISCONNECT", <<>>))
    /\ UNCHANGED <<todo, joined, online, summaries, down, subscribers, threads, history>>

-----------------------------------------------------------------------------
(* The server *)

Taken(c) == up' = [up EXCEPT ![c] = Tail(@)]

exectueSUBSCRIBE(c) ==
    /\ up[c] # <<>> /\ Head(up[c]).command = "SUBSCRIBE"
    /\ Taken(c)
    /\ subscribers' = [subscribers EXCEPT ![Head(up[c]).game] = @ \cup {c}]
    /\ down' = [down EXCEPT ![c] = Append(@, Plain("RECEIPT", <<>>))]
    /\ UNCHANGED <<client, threads, history>>

\* Mutant: a sender gets no MESSAGE of its own.
Reached_Others(c, game) == subscribers[game] \ {c}

\* Whom a MESSAGE goes to.
Reached(c, game) == subscribers[game]

\* A SEND of c is passed on as a MESSAGE.  What goes to a closed socket is lost.
PassedOn(c, to) ==
    /\ up[c] # <<>> /\ Head(up[c]).command = "SEND"
    /\ \E f \in {Head(up[c])} :
          /\ down' = [d \in Clients |->
                        IF d \in to /\ online[d] /\ d \in threads
                        THEN Append(down[d], Frame("MESSAGE", f.game, extract(f.body), f.origin))
                        ELSE down[d]]
          /\ due' = [d \in Clients |->
                        IF d \in subscribers[f.game] /\ online[d]
                        THEN Append(due[d], f.origin) ELSE due[d]]
    /\ Taken(c)
    /\ UNCHANGED <<client, subscribers, reports, received>>

\* SEND, when nobody joins or leaves the channel meanwhile.
executeSEND(c) ==
    /\ PassedOn(c, Reached(c, Head(up[c]).game))
    /\ UNCHANGED <<threads, cut>>

\* Other clients whose next frame makes them leave the channel, or join it.
Begins(c, command) == {d \in threads \ {c} : up[d] # <<>> /\ Head(up[d]).command = command}
Leavers(c, game) == Begins(c, "DISCONNECT") \cap subscribers[game]
Joiners(c, game) == {d \in Begins(c, "SUBSCRIBE") : Head(up[d]).game = game}

\* SEND, when the list changes under its loop, which has no lock: only some subscribers
\* have been served when it throws, which ends the sender's thread, or ends early, as
\* many before the end of the list as others have left it.
SENDCutShort(c) ==
    /\ up[c] # <<>> /\ Head(up[c]).command = "SEND"
    /\ \E game \in {Head(up[c]).game} : \E served \in SUBSET subscribers[game] :
          /\ PassedOn(c, served)
          /\ \/ Leavers(c, game) \cup Joiners(c, game) # {} /\ threads' = threads \ {c}
             \/ /\ Cardinality(subscribers[game] \ served) \in 1..Cardinality(Leavers(c, game))
                /\ UNCHANGED threads
    /\ cut' = TRUE

\* The client leaves its channels and is sent the receipt.
exectueDISCONNECT(c) ==
    /\ up[c] # <<>> /\ Head(up[c]).command = "DISCONNECT"
    /\ Taken(c)
    /\ subscribers' = [game \in Games |-> subscribers[game] \ {c}]
    /\ down' = [down EXCEPT ![c] = Append(@, Plain("RECEIPT", <<>>))]
    /\ UNCHANGED <<client, threads, history>>

-----------------------------------------------------------------------------
(* The socket thread *)

update_summary(known, game, user, toAdd) ==
    LET empty == EmptyEvent(toAdd.team_a, toAdd.team_b)
    IN  IF game \in DOMAIN known
        THEN IF user \in DOMAIN known[game]
             THEN [known EXCEPT ![game][user] = update(@, toAdd)]
             ELSE [known EXCEPT ![game] = Emplaced(@, Pair(user, update(empty, toAdd)))]
        ELSE Emplaced(known, Pair(game, Pair(user, update(empty, toAdd))))

\* Behind every frame: once the user has asked to log out, whatever the frame was,
\* the thread closes the socket and clears the maps.
AfterFrame(c, known) ==
    /\ summaries' = [summaries EXCEPT ![c] = IF closing[c] THEN Nothing ELSE known]
    /\ joined' = [joined EXCEPT ![c] = IF closing[c] THEN {} ELSE @]
    /\ online' = [online EXCEPT ![c] = ~closing[c]]
    /\ down' = [down EXCEPT ![c] = IF closing[c] THEN <<>> ELSE Tail(@)]
    /\ UNCHANGED <<todo, closing, up, subscribers, threads, reports, due, cut>>

ReadMESSAGE(c) ==
    /\ online[c] /\ down[c] # <<>> /\ Head(down[c]).command = "MESSAGE"
    /\ \E e \in {parse(Head(down[c]).body)} :
          AfterFrame(c, update_summary(summaries[c], <<e.team_a, e.team_b>>, e.user, e))
    /\ received' = [received EXCEPT ![c] = Append(@, Head(down[c]).origin)]

ReadRECEIPT(c) ==
    /\ online[c] /\ down[c] # <<>> /\ Head(down[c]).command = "RECEIPT"
    /\ AfterFrame(c, summaries[c])
    /\ UNCHANGED received

\* The server has closed the socket: getFrameAscii() leaves an empty frame, behind which
\* nothing happens unless the user has asked to log out.
ReadFails(c) ==
    /\ online[c] /\ closing[c] /\ c \notin threads /\ down[c] = <<>>
    /\ AfterFrame(c, summaries[c])
    /\ UNCHANGED received

-----------------------------------------------------------------------------

Init ==
    /\ todo = [c \in Clients |-> <<>>]
    /\ joined = [c \in Clients |-> {}]
    /\ online = [c \in Clients |-> TRUE]
    /\ closing = [c \in Clients |-> FALSE]
    /\ summaries = [c \in Clients |-> Nothing]
    /\ up = [c \in Clients |-> <<>>]
    /\ down = [c \in Clients |-> <<>>]
    /\ subscribers = [game \in Games |-> {}]
    /\ threads = Clients
    /\ reports = 0
    /\ due = [c \in Clients |-> <<>>]
    /\ received = [c \in Clients |-> <<>>]
    /\ cut = FALSE

process(c) ==
    /\ c \in threads
    /\ exectueSUBSCRIBE(c) \/ executeSEND(c) \/ SENDCutShort(c) \/ exectueDISCONNECT(c)

Keyboard(c) ==
    \/ \E game \in Games : Join(c, game)
    \/ \E file \in Files : Report(c, file)
    \/ SendEvent(c)
    \/ \E word \in Words : Summary(c, word)
    \/ Logout(c)

Socket(c) == ReadMESSAGE(c) \/ ReadRECEIPT(c) \/ ReadFails(c)

Next == \E c \in Clients : Keyboard(c) \/ process(c) \/ Socket(c)

\* The report loop, the server and the socket threads run; nobody has to type.
Fairness ==
    \A c \in Clients :
        WF_vars(SendEvent(c)) /\ WF_vars(process(c)) /\ WF_vars(Socket(c))

Spec == Init /\ [][Next]_vars /\ Fairness

-----------------------------------------------------------------------------

TypeOK ==
    /\ joined \in [Clients -> SUBSET Games]
    /\ online \in [Clients -> BOOLEAN] /\ closing \in [Clients -> BOOLEAN]
    /\ subscribers \in [Games -> SUBSET Clients]
    /\ threads \in SUBSET Clients /\ cut \in BOOLEAN
    /\ reports \in 0..MaxReports
    /\ \A c \in Clients :
          /\ \A i \in DOMAIN up[c] : up[c][i].command \in {"SUBSCRIBE", "SEND", "DISCONNECT"}
          /\ \A i \in DOMAIN down[c] : down[c][i].command \in {"RECEIPT", "MESSAGE"}
          /\ DOMAIN summaries[c] \subseteq Games \cup Words
          /\ \A game \in DOMAIN summaries[c] : DOMAIN summaries[c][game] \subseteq Clients

\* Those events of a list that are reports of user on a game.
Told(events, user, game) ==
    FlattenSeq([i \in DOMAIN events |->
        IF events[i].user = user /\ gameName(events[i].team_a, events[i].team_b) = game
        THEN <<events[i]>> ELSE <<>>])

\* What client c has read of user's reports on a game.
ReadBy(c, user, game) ==
    Told(received[c], user, game)

HasSummary(c, user, game) ==
    game \in DOMAIN summaries[c] /\ user \in DOMAIN summaries[c][game]

LastReported(events, section, key, value) ==
    \E i \in DOMAIN events :
        /\ key \in DOMAIN events[i].updates[section]
        /\ events[i].updates[section][key] = value
        /\ \A j \in i + 1 .. Len(events) : key \notin DOMAIN events[j].updates[section]

\* A summary tells of a user's reports what the files said: it names the teams in
\* small letters, gives each key the value reported last and no key that nobody
\* reported, and describes the events in the order of the file, each once.  Formatting,
\* the server's splitting of frames, parsing and update_summary() lie in between.
SummariesAddUp ==
    \A c \in Clients, user \in Clients, game \in Games :
        LET events == ReadBy(c, user, game)
            summary == summaries[c][game][user]
        IN  online[c] =>
            /\ HasSummary(c, user, game) <=> events # <<>>
            /\ events # <<>> =>
                /\ <<summary.team_a, summary.team_b>> = game
                /\ \A s \in Sections :
                      /\ \A key \in DOMAIN summary.updates[s] :
                            LastReported(events, s, key, summary.updates[s][key])
                      /\ \A i \in DOMAIN events :
                            DOMAIN events[i].updates[s] \subseteq DOMAIN summary.updates[s]
                /\ summary.description =
                      [i \in DOMAIN events |-> <<events[i].time, events[i].name,
                                                FlattenSeq(events[i].description)>>]

\* Nobody who follows a game contradicts anybody else: when two clients have read all
\* that was sent to them, whatever both know of a user's reports they agree on, even
\* when one of them joined late.  That is so as long as no SEND was cut short: one that
\* was may have told the one and not the other.
FollowersAgree ==
    \A c \in Clients, d \in Clients, user \in Clients, game \in Games :
        /\ ~cut
        /\ \A follower \in {c, d} :
              /\ online[follower] /\ down[follower] = <<>>
              /\ follower \in subscribers[game] /\ HasSummary(follower, user, game)
        => \A s \in Sections :
            LET known == [e \in {c, d} |-> summaries[e][game][user].updates[s]]
            IN  \A key \in DOMAIN known[c] \cap DOMAIN known[d] : known[c][key] = known[d][key]

\* Those events of a list that are reports of user.
From(events, user) == SelectSeq(events, LAMBDA e : e.user = user)

\* Once nobody types any more, and if no SEND was cut short, everything reported on a
\* channel has come to everybody on it, the sender too, a user's reports in their order
\* and each event once, unless he has logged out.
EveryEventArrives ==
    <>[](~cut => \A c \in Clients, user \in Clients :
                    online[c] => From(received[c], user) = From(due[c], user))

=============================================================================
