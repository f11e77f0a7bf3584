# TLA+ models of the STOMP game server and its client

The repository holds a STOMP 1.2 server in Java (two servers around one
protocol: thread-per-client and reactor) and a C++ client that reports and
follows game events. These modules model the parts of it that keep state, TLC
checks them on small instances, and TLAPS proves the main invariants for every
instance.

To check a module: `tlc -config <run>.cfg <module>` with the names in the table
of runs; to check the proofs: `tlapm <module>Proofs.tla`.

## 1. The system

Java paths are below `src/server/src/main/java/bgu/spl/net/`, C++ paths below
`src/client/src/`.

| Component | State | Operations | Interacts through |
|---|---|---|---|
| Protocol handlers `impl/stomp/StompMessagingProtocolImpl`, `Message` | per connection: `loggedIn`, `currUser`, `shouldTerminate` | `process()` of CONNECT, SUBSCRIBE, UNSUBSCRIBE, SEND, DISCONNECT; `ERROR`, `disconnect`, `terminate` | calls on the one `ConnectionsImpl` |
| Registry `impl/stomp/ConnectionsImpl`, `Channel`, `UserData` | `clientsToCH`, `userToData`, `chanNameToChanData`, `connToName`; subscriber lists; a user's password, `clientId`, `loggedIn` and its two subscription maps | `send` to one or to a channel, `connect`, `disconnect`, the lookups and updates of the maps | shared by all handlers, without a lock around more than one access |
| Thread-per-client server `srv/BaseServer`, `BlockingConnectionHandler` | the accepted sockets, a thread for each | `serve`, `run`, `send`, `close` | a thread calls `process()` for each frame in turn |
| Reactor `srv/Reactor`, `NonBlockingConnectionHandler` | interest of each key, `selectorTasks`, `writeQueue` of each handler | `serve`, `handleAccept`, `handleReadWrite`, `continueRead`, `continueWrite`, `updateInterestedOps`, `send` | selector thread and pool threads, by the two queues and `wakeup()` |
| Actor pool `srv/ActorThreadPool` | `acts`, `playingNow`, the executor | `submit`, `execute`, `complete`, `shutdown` | the reactor submits, with the handler as the act |
| Codec `impl/stomp/StompMessageEncoderDecoder` | bytes of a frame so far | `decodeNextByte`, `encode` | called by both servers |
| Client threads `StompClient.cpp`, `StompProtocol.cpp` | `loggedIn`, `connected`, `shut`, the mutex and its condition variable; ids, subscriptions and game summaries | the commands at the keyboard, the frames from the socket | flags, condition variable, one socket |
| Client socket `ConnectionHandler.cpp` | a socket | `connect`, `sendFrameAscii`, `getFrameAscii`, `close` | both client threads use it |
| Client events `Event.cpp`, `StompProtocol.cpp` (`update_summary`) | updates of a game per user | parse, format, accumulate | socket thread writes, keyboard thread reads |
| Not part of the system | `impl/echo`, `impl/rci`, `impl/newsfeed`, `echoClient.cpp` (course examples), `json.hpp` (vendored) | | |

What is hard in it:

- **Sequences of legal frames.** Four maps record the same sessions. `process()`
  answers a frame before CONNECT with ERROR *and runs its handler all the same*;
  a subscription id may be used twice; a CONNECT on a live session changes its
  user; after ERROR `disconnect()` clears the data it is about to walk through.
- **Threads.** Handlers of different connections share the maps without a lock.
  Pool threads and the selector thread race on the write queue, on the interest
  of a key and on `shouldTerminate`. The client's two threads race on three
  plain flags and may lose a notification.
- **Writes that wait for a client.** The thread-per-client server writes a MESSAGE
  to the subscriber's socket in the sender's thread; one who does not read holds the
  sender up.
- **Data that passes through many hands.** A report is formatted, split into
  headers and body, wrapped, sent, cut into reads, put together by a decoder that
  several pool threads share, and parsed and added up by every follower.
- **Failures.** A client that goes away without DISCONNECT, a write that fails,
  an exception in a handler or in a selector task, a refused login.

What makes each part correct is listed with its module below, and every hazard,
at its line, in `PROJECT.json`.

## 2. The modules

| Module | Models | Extends or instantiates |
|---|---|---|
| `StompBroker` | handlers, registry, thread-per-client server, one frame at a time | |
| `StompBrokerMC` | symmetry for TLC | `StompBroker` |
| `StompBrokerProofs` | theorems on states and on steps | `StompBroker`, `ListLemmas` |
| `StompBrokerThreads` | the same handlers, run side by side by threads | |
| `StompBrokerThreadsProofs` | theorems | `StompBrokerThreads`, `ListLemmas` |
| `ListLemmas` | lemmas on lists: without repetition, put together, prefixes | |
| `ActorMailbox` | what a user of the pool may rely on (abstract) | |
| `ActorThreadPool` | the pool | implements `ActorMailbox` |
| `ActorThreadPoolProofs` | theorems | `ActorThreadPool` |
| `FrameDecoding` | reads, buffers and decoders of the reactor | composed with `ActorThreadPool` |
| `FrameDecodingMC` | what the clients send | `FrameDecoding` |
| `FrameDecodingProofs` | theorems | `FrameDecoding`, `ActorThreadPoolProofs`, `ListLemmas` |
| `Reactor` | selector thread, handlers, pool threads | its pool is an instance of `ActorMailbox` |
| `ReactorProofs` | theorems | `Reactor` |
| `StompClient` | the client's threads | |
| `StompClientProofs` | theorems | `StompClient` |
| `GameEvents` | `Event.cpp`, `reportEvent()`, `extract()` as operators | |
| `GameReports` | reports on their way from a file to the summaries | `GameEvents` |
| `GameReportsMC` | two files | `GameReports` |
| `GameReportsProofs` | theorems on both | `GameReports`, `ListLemmas` |

Operators are named after the methods they model, with the code's spelling
(`exectueCONNECT`). An operator whose comment begins with "Mutant" is a variant
of the one below it with a plausible bug. No specification uses it; put in place
of the original it makes one property of a run fail, which shows that the
property looks at that line of the code.

### StompBroker

One action is one whole call of `process()`, so the module shows what the code
does when handlers do not overlap: each run of a handler is atomic. The state is
that of `ConnectionsImpl`, with `UserData` as a record and `Channel` as its list
of subscribers, the fields of the protocol objects, and the socket. A frame is
abstracted to its command, to whether the header checks accept it, and to the
values the handler reads. An action for a frame that `extract()` cannot take
apart, and one for headers the `check...` methods refuse, stand for the
malformed ones. An exception that leaves `process()` keeps what the handler has
done so far and closes the socket (`Thrown`). `out` holds the frames of the last
handler only.

`messageId` and `Channel.isStarted` are left out: no property is about the
first, and the second never changes.

Where the code breaks a promise in passing, the model follows the code:

- SUBSCRIBE before CONNECT joins the channel and then throws, so channels may
  list connections without a user.
- CONNECT of another *known* user on a live session succeeds
  (`StompMessagingProtocolImpl.java:208`), and leaves the first one logged in on
  a connection that is no longer his; only an unknown user is refused.
- A connection that ends without DISCONNECT (`BlockingConnectionHandler.java:56`)
  leaves its user logged in, since nothing tells `ConnectionsImpl`, and each later
  CONNECT of that user is refused.
- A repeated SUBSCRIBE (`StompMessagingProtocolImpl.java:268`) is not answered,
  though it may ask for a receipt.
- SEND to a channel that lists a connection without a user stops there with an
  exception (`ConnectionsImpl.java:73`); those before it have the message, and
  the sender has no receipt and no connection.
- UNSUBSCRIBE finds the channel by id. When an id was used twice, the first
  channel keeps the connection. `CleanLogout` therefore has the premise that each
  channel of the connection has an id.

### StompBrokerThreads

The handlers as the threads of `BlockingConnectionHandler` run them. A thread is
a program counter `pc`, the frame it works on, its iterator and the channels that
its loop has been to; a step is one access to what threads share, and what a
thread has read is stale as soon as another one moves. A `UserData` is an object
named by the connection that created it, because two threads may create one for
the same user and each keeps what it got. Iterators are those of `ArrayList`:
`SetList` makes every iterator on the list stale, `next()` on a stale one throws,
and `hasNext()` compares the cursor with the length the list has *now*, so that
an iteration can also end early. A channel that is replaced leaves its iterators
on the old list (`SetChannel`). A MESSAGE is written to the subscriber's socket in the
sender's thread (`deliver`): the write lasts until that client reads, or until its
socket is closed (`MayBlock`).

Clients are restricted: a connection logs in once, before its other frames, and
uses an id of its own for each channel, so that the two maps of a `UserData` are
one set `subs`. Receipts go out from the connection's own thread and are left
out. `StompBroker` has the clients that misbehave, this module the threads that
overlap.

What the model shows in passing: two logins of one user at once may both be let
in, for `isUserLoggedIn()` and `logUser()` are two steps, and then share their
subscriptions; and two connections may both create a user, the second object
replacing the first. No doc says otherwise, so no run reports it. The properties
name what they need instead: `SessionsApart` and `Alone`.

### ActorThreadPool and ActorMailbox

`submit()` and `complete()` hold the monitor of the act. Each is two steps, one
that reads and one that acts on what it read, with `enter` and `leave` for the
monitor. The executor (external) is a FIFO queue and its threads. `pendingRunnablesOf`
creates a missing queue; a missing queue is an empty one here.

`ActorMailbox` has, per act, a mailbox and what runs. The refinement maps an
act's mailbox to its runnable in the executor's queue, if there is one, followed by
those pending. `ImplementsMailbox` is the whole of it, fairness included, and
`KeepsMailboxes` its safety part, which is proved.

### FrameDecoding

What the runnables of the pool do when the acts are the reactor's handlers. The
selector thread, the pool's one client, reads any piece of what is on the wire
into a buffer that it takes from `BUFFER_POOL` or allocates, and submits a
runnable (`continueRead`); the end of the stream closes the channel
(`continueReadEnds`). A worker gives the buffer's bytes to the act's decoder one
by one (`decodeNextByte`), calls `process()` at each `\u0000`, which may throw
(`processThrows`: the rest of the buffer is lost, its `finally` releases the buffer
all the same, and the act goes on with its next runnable), and releases the buffer
(`EndRun`).
Every other variable is the pool's, so this is the pool under a real load, and
the pool's properties are checked and proved again in the composition.

### Reactor

The selector thread is a program counter `sel` with one action per step another
thread can interleave with: `select()`, each selector task, each event, each
turn of the loop in `continueWrite()`, and the decision after it. `send()` is
three steps (queue the frame, queue the task, wake the selector up), because the
selector thread may look between them. Pool threads take whole chunks, as
`continueRead()` submits them, and go through the frames of a chunk one by one.
The protocol is reduced to what matters here: a frame either sends at most one
frame to anybody registered, or answers, disconnects and terminates. A handler
that sends to several is as many of these sends. Bytes and buffers are
`FrameDecoding`'s.

After a failed write `continueWrite()` closes the channel and goes round its loop
with the same frame, for ever (`sel = "stuck"`). It prints the exception each
time and nothing says that it should end, so no run reports it; `LoopReturns`
names it as the exception.

`shouldTerminate` is not volatile; a read sees the last write in the model. All
runs that find fault with the reactor do so with that favourable reading.

### StompClient

The keyboard thread is `main()` until the first CONNECTED and `runForKeyboard()`
from then on (`kb`); `so` is `runForSocket()`. The socket thread's wait on the
condition variable is split into the test under the mutex, and falling asleep,
which gives the mutex back; `notify_all()` without the mutex reaches a sleeper
only. Spurious wakeups are allowed (`WakeUp`). The keyboard thread's wait, for
`connected`, never sleeps: the flag is set before that thread starts and nothing
resets it. So a later login does not wait for its CONNECTED, as the comment there says
(`client_login`). The three flags are plain `bool`s.
Every read of them follows a call into another translation unit or the library,
so the compiler reads memory each time, and a read sees the last write. The server is
reduced to what a client sees of it: replies in the order of the requests, with
the empty frame that the second NUL of most replies produces, and the end of the
connection after ERROR and after DISCONNECT. Any request may be refused with ERROR: a
login without a name or passcode leaves a connection that has sent no CONNECT.

The end of a login resets `shut`, which an ERROR may have set meanwhile: the user
is told to log in again while the client takes itself for logged in.
`ErrorLogsOut` has the premise that no login is under way.

Left out: ids and `exit`, the maps, which `GameReports` has, and the end of the
process by an uncaught exception on an empty input line (`StompProtocol.cpp:48`).

### GameEvents and GameReports

`GameEvents` has the sequential code as operators. A body is a sequence of lines;
`reportEvent()` formats an event, `extract()` of the server splits a frame and
joins its body again, `parse` is the constructor of `Event` that reads a body,
and `update` is `Event::update`. Keys, values, names and words are opaque (the
constants `Keys`, `Values` and `Names`, with `lower` for `::tolower`); the
conversions are modelled by what they do to lines, tabs and small letters. A map is
a function with finitely many keys, as `std::map` is.

`GameReports` runs them: the keyboard threads of several clients send the events
of their files one by one (the file is parsed once, at `report`), the server
takes the frames of a client in order and sends MESSAGEs to whoever is subscribed
then, and the socket threads read frames, update the summaries and, after a
logout, clear the maps behind the next frame, whatever it is. Clients report only
on games they have joined, so the server refuses no frame; they do not `exit`; and
nothing is typed behind `logout`. The variables `reports`, `due`, `received` and `cut`
are history.

One call of `process()` is one step here, though the server's threads overlap. Where
that matters for what arrives, the overlap has a step of its own: a SEND whose channel
another thread joins or leaves meanwhile may serve some of the subscribers only, and
throws, which ends the sender's thread and connection, or ends early (`SENDCutShort`; how
it comes about is `StompBrokerThreads`' matter, see `threads_send`). `cut` remembers that
it happened. Two joins or exits of one channel at once take turns here; how one of them
is lost is shown by `threads_lost`. Two SENDs at once only mix the order of different
users' MESSAGEs, and the properties are about one user's.

`gameName` is a pair of names where the code joins them with `_`
(`StompProtocol.cpp:135`, `242`): that the names of two games may come out the same when
a team's name has a `_` in it is left out. It is in small letters and the game of a summary is looked up by the
names of the body, which `parse` makes small, too; the word a user types behind
`summary` is taken as it is and finds nothing when it has capital letters.

## 3. What is checked

| Run | Module | Instance | Distinct states |
|---|---|---|---|
| `broker` | `StompBrokerMC` | 2 connections, users, passcodes, channels and ids | about 8 000 (with symmetry) |
| `threads` | `StompBrokerThreads` | 2 connections, users and passcodes, 1 channel | about 431 000 |
| `pool` | `FrameDecodingMC` | 2 acts, 4 runnables, 2 workers, 5 buffers, 3 frames in 4 bytes | about 133 000 |
| `reactor` | `Reactor` | 1 connection, 3 frames | about 157 000 |
| `client` | `StompClient` | 3 logins, 4 frames on their way | about 67 000 |
| `reports` | `GameReportsMC` | 2 clients, 3 files of an event each, 2 reports | about 360 000 |

- **broker**: `SessionAgreement` (the four records of who is logged in where
  agree), `LiveSubscriptions` (a subscription id of a session leads to an
  existing channel with the connection on it, one id per channel; UNSUBSCRIBE and
  DISCONNECT have no null check and rely on it), `LoggedOutIsClean`,
  `ChannelLists` (no empty channel, no subscriber twice), `Isolation` (no frame
  changes another connection's session), `PasswordKept`, `CleanLogout`.
  Two of everything lets two sessions share a channel, one user move between
  connections, one connection change its user, and an id be reused; the proofs
  cover larger instances of all of them.
- **threads**: what is left of the broker's promises when handlers overlap.
  `ListedOnce` (nobody gets a MESSAGE twice), `NamedUsersExist` (the name of a
  subscriber leads to a user), `ListedHasId` (a connection between its frames is
  on no list that it has no id for), `LogoutLeavesChannels`, `SettledIsMarked` (a
  user who is logged in is marked so, though a login may overlap the logout
  before it), `HandlersEnd` (no loop over a list that others change, and no
  handler, goes on for ever, unless it stays in its write to another client that does
  not read). The converse of `ListedHasId`, and the broker's
  `LiveSubscriptions`, do not hold: see `threads_lost`. The proofs cover any
  number of connections and channels; `ListedHasId` and `LogoutLeavesChannels`
  were found to depend on `Alone` and on the label only with two channels.
- **pool**: of the pool, `OneAtATime`, `NobodyStranded` (pending runnables have a
  `complete()` to come), `KeepsMailboxes` (an act's runnables start in the order of
  `submit()`, one at a time, and none is lost), `ImplementsMailbox`, `EveryTaskRuns`; of the bytes,
  `DecodesWhatWasSent` (the frames that `process()` gets are those the client
  sent, in order, however reads cut them), `OneOwner` (a buffer is in one pair of
  hands), `EverythingIsDecoded`. One act has two frames, one of them empty, in
  three bytes, the other an empty frame. Four runnables let one act have one
  running, one queued and one pending, which is where their order shows. One
  client is enough, since only the selector thread submits; the theorems have any
  number.
- **reactor**: `NoLostWrite` (a frame queued for an open channel has the write
  interest, or a task that will set it), `NoLostWakeup`, `QueueDrains`,
  `WireDrains`, `LoopReturns`. One connection that answers itself is enough for
  liveness, whose obligations are per connection; the invariants are proved for
  any number. With three frames one thread posts while another wakes and the
  selector thread settles. All allow for the channel to be closed or the selector
  thread to be gone.
- **client**: `LoginFindsSocketClosed`, `LogoutCloses` (the one exception is a socket
  thread that sleeps over a missed notification), `ErrorLogsOut`. Three logins are the first, one that may leave a missed
  notification or a stale flag, and one that meets it. Four frames are two
  requests ahead of their answers.
- **reports**: `SummariesAddUp` (a summary shows what the files said: the last
  value of each key, every description once and in order), whether or not SENDs are cut
  short; and, as long as none was, `FollowersAgree` (two who have read everything agree)
  and `EveryEventArrives` (what is reported comes to everybody on the channel). Without
  that premise neither of the two holds, as `threads_send` leads one to expect. The
  files are about one game, spelled in three ways; a key occurs in several events, one is
  spelled like the title of a section, and one event has no description. Two reports are
  both clients' at once, or one client's two in turn, so that a client may join, or leave,
  between the other's events. A file of several events sends them one by one as several
  reports do; the theorems have files of any length.

No run checks for deadlock: clients may stop, sockets may close, and with every
thread asleep the system rests legitimately. The bounds are `MaxFrames` (what all
clients of the reactor send), `MaxLogins` and `MaxFlight` (the keyboard thread
takes a new command only with fewer frames on their way) and `MaxReports`;
connections, users and so on are bounded by their sets, and the pool's runs by
the runnables.

### Where the code disagrees with what it says

| Run | Property violated | What happens |
|---|---|---|
| `broker_stale` | `DisconnectLeavesChannels` | `disconnect()` clears the subscriptions before `ConnectionsImpl.disconnect()` walks through them: after ERROR the connection stays listed |
| `threads_lost` | `ListedWhenLeaving` | of two first subscribers of a channel, or one who joins while the last one leaves, one is lost with the channel, and later leaves a channel it is not on |
| `threads_send` | `SendReachesEveryone` | a subscriber who joins or leaves during `send(channel, m)` makes it throw or end early, and others get no MESSAGE |
| `client_login` | `LoginWaitsForCONNECTED` | `connected` is never reset: a later login goes on while its CONNECT, which may be refused, is still on its way |
| `reactor_terminate` | `TerminatedCloses` | `shouldTerminate()` is asked only after a write; if the ERROR frame is out before `terminate()` is called, the channel stays open |
| `reactor_dead` | `LoopSurvives` | a selector task for a channel that has closed throws in the selector thread, which ends |

### Fairness

- `StompBroker` has none: all its properties are safety.
- `StompBrokerThreads`: weak fairness of each thread's work on its frame, other than a
  write to another client (`MayBlock`), which ends only when that client reads or its
  thread has closed the socket. The JVM schedules threads, and no other step waits. It is
  assumed that a client reads the answers to its own frames; no client has to send, or to
  read what another one sends it.
- `ActorThreadPool`: weak fairness of each thread's steps inside `submit()`,
  and of each worker. The JVM schedules runnable threads, runnables return, and
  a monitor is held for two steps only; with finitely many runnables contention
  for it ends. Nobody has to submit or to shut down.
- `FrameDecoding`: the same for the selector thread inside `submit()` and for the
  workers, and strong fairness of reading each connection: a round of the selector
  serves every key that is ready, so one with bytes on the wire is read in the end
  though the thread is busy with others in between.
- `Reactor`: weak fairness of the selector thread and of the pool threads, and
  strong fairness of a successful write: a client whose socket buffer has room
  again and again is written to in the end. Clients need not send anything.
- `StompClient`: weak fairness of both threads and of the server; strong fairness
  of the keyboard thread's test, since the socket thread may hold the mutex now
  and then, each time until it sleeps. Nobody has to type a command, and spurious wakeups need not
  happen.
- `GameReports`: weak fairness of a client's loop over the events of its file, of
  its socket thread, and of the server's thread for it. The writes of the server's threads
  end because the clients here are this repository's, whose socket threads do nothing but
  read as long as the socket is open. Nobody has to type.

## 4. What is proved

All theorems hold for every value of the constants, from the named assumptions
of the modules: `NullAssumption` and `ThreadsAssumption` (a null differs from
the values it is used beside; clients are not workers), `BoundsAssumption` and
`ReactorAssumption` (the bounds are natural numbers), `DecodingAssumption` and
`AllocationAssumption` (there is a buffer more than the runnables hold, as
`leaseBuffer()` may allocate one), `LowerAssumption` (a name in small letters
stays as it is) and `ReportsAssumption` (there is a client, and the files have events
of the form that `parseEventsFile()` reads).

**ListLemmas.** What the operators on lists do that the models are built from:
`Append` and `RemoveFirst` to a list without repetition; `FlattenSeq` to a list with
one more element in front or behind, and to a list mapped by a function; `\o` when
what stands between two lists moves to the one or the other (`Concatenation`,
`AppendBehind`); and `IsPrefix`. The equations are operators (`Associates`,
`FlattensCons`, ...), so that a proof can cite the one instance that it needs: given the
equations themselves, the solver goes on from one instance to the next. `FlattenSeq` is defined by recursion, and the library's induction
theorems cannot be used here, as they take an operator as a parameter. What stands
in for them is `InductiveSet`: a *set* with 0 and the successor of each natural
number in it has them all. For were `n` outside, adding 1 would map the finite set of
its members up to `n` into itself, one to one and so onto, and 0 is no successor. A
statement about every prefix of a list is put as such a set.

**StompBrokerProofs.** `Spec => []IInv` with

    IInv == TypeOK /\ SessionAgreement /\ LiveSubscriptions
                   /\ LoggedOutIsClean /\ ChannelLists

and from it `TypeCorrect`, `SessionsAgree`, `SubscriptionsLive`, `LogoutsClean`
and `ListsProper`. The conjuncts need each other. The critical line is the one
that removes a whole channel when one subscriber is left
(`ConnectionsImpl.java:157`): it is right because the caller is on the list
(`LiveSubscriptions`) and nobody is there twice (`ChannelLists`). Users who log
in start without subscriptions because of `LoggedOutIsClean`, and no two
connections share one user's maps because of `SessionAgreement`. The proof first
states what the list operation (`RemoveFirstFromList`) and each `UserData`
operation return, then what leaving, joining and ERROR do to the invariant, then
has one lemma per handler. TLC checks every conjunct of `IInv` in `broker`.

The action properties follow: `FramesAreIsolated`
(`Isolation`), `PasswordsAreKept` (`PasswordKept`) and `LogoutsLeaveChannels`
(`CleanLogout`). Each handler is shown, in a state of `IInv`, to leave every other
connection `Undisturbed` and all users in place (`UsersStay`). That another
connection's *user* is not the one written to is what `SessionAgreement` is for;
that dropping a channel of one subscriber takes nobody else off is
`LiveSubscriptions` and `ChannelLists` again.

**StompBrokerThreadsProofs.** Three invariants, each on top of the one before.

1. `IInv` says what a thread has at its label (`Standing`: headers, a user, a
   name), that user objects in use exist (`Accounts`), that iterators over
   unchanged lists are within them (`Turns`), and that a thread about to add its
   connection to a list is not on it (`NotYetListed`). The last one makes
   `ListedOnce` inductive: `isSubscribed()` and `addSubscriber()` are two steps, but
   only a connection's own thread ever adds it. It gives `TypeCorrect`,
   `NobodyIsListedTwice` and `NamesHaveUsers`.
2. `JInv` says how a thread at each label may be on a list (`MayBeOn`): with the id,
   or between `addSubscriber()` and `addChannel()`, and not behind the turn of its
   DISCONNECT that left it. It holds of connections alone with their user object,
   and a connection that is, is its maker (`Makers`). It gives `ListedHaveIds` and
   `LogoutsLeaveLists`.
3. `KInv` says that an object is one user's (`OneName`) and that a session past
   `logUser()` has its mark (`Mark`). It is preserved only by steps from states with
   `SessionsApart`, and so gives `SettledAreMarked`: `[]SessionsApart` implies
   `[]MarkedWhenIdle`.

Each has a lemma on what a step of one thread leaves to the others (`ThreadStep`,
`MemberStep`, `MarkStep`) and then lemmas on the steps by kind: looking, passing,
writing a user object, changing a list. TLC has checked `JInv` with two channels.

**ActorThreadPoolProofs.** `Spec => []IInv`, and `TypeCorrect`, `ActsAreSerial`
(`OneAtATime`) and `PendingIsHandedOn` (`NobodyStranded`). The invariant adds to
these: which thread can be where (`Roles`), that a thread inside a call holds the
act's monitor (`Holds`), that what it has read is therefore still true when it
acts (`SeenIsTrue`), that only marked acts have pending runnables
(`PendingPlays`), and that a marked act is in the executor unless it was shut down
(`PlayingPresent`). `SeenIsTrue` is what `synchronized (act)` is for.

`MailboxesAreKept` is the refinement: `Spec => KeepsMailboxes`. Each step is shown to
be a step of `ActorMailbox` or to leave the mailboxes and what runs as they are. A
`submit()` that pends or executes is `Submit`, because the executor has the act's one
runnable in front of those pending (`OneAtATime`) and what `submit()` has read is
true (`SeenIsTrue`); `Take` is `Start`; the first half of `complete()` is `Finish`; its
second half moves the head of what is pending to the executor, which the mapping does
not see. `RunnablesRunOnce` says that a runnable is in one place only: not submitted, in a
thread's hands, queued or pending, and there once.

**FrameDecodingProofs.** Every step of the composition is a step of the pool or
leaves it alone (`DecodingStep`), so the pool's invariants and its refinement carry
over: `DecodersAreSerial`, `ReadsAreHandedOn`, `DecodingKeepsMailboxes`.
`BuffersHaveOneOwner` needs besides that a worker runs a runnable, and that the next
buffer is one nobody holds. `DecodingTypeCorrect` is `DecodingTypeOK`.

`FramesAreThoseSent` (`DecodesWhatWasSent`) is about the one order of a connection's
bytes that all components keep between them. Its invariant `InOrder` says where the
bytes are: what the decoder has been through, followed by what remains in the buffer
of the running runnable, in those of the runnables that wait, in their order, in that of
a `submit()` under way, and on the wire, is the stream (once the pool is shut down, what
is decoded and what remains with the running runnable begin it). A step moves a
byte or a buffer across one of these borders. `OneAtATime` makes the running runnable
the only one, `EachOnce` and `OneOwner` keep one runnable's step from changing
another's bytes, and the order is the mailbox's.

**ReactorProofs.** `TypeCorrect`, `WritesAreNotLost` (`NoLostWrite`) and
`WakeupsAreNotLost` (`NoLostWakeup`), from

    IInv == Shape /\ Settled /\ Written /\ Woken

`Shape` has the types and what a pool thread or the selector thread has in hand at
its label. `Written` is `NoLostWrite` for every open channel. `Settled` is what makes
it inductive: between finding the queue empty and dropping the write interest the
selector thread may be overtaken, but whoever queues a frame then asks for the
interest again, before or after. `Woken` is `NoLostWakeup` wherever the selector
thread is past its queue of tasks, not only where it is about to sleep.

**StompClientProofs.** `TypeCorrect` and `LoginsFindSocketClosed`. The property
alone is not inductive: it needs that only the socket thread resets `loggedIn`,
so that while it works no login begins, and that it has closed the socket before
(`SocketThreadOwnsLogout`, `ClosedWhileLoggedOut`).

**GameReportsProofs.** Two parts.

1. `ParseReport`: `parse(extract(reportEvent(user, e)))` is the event of the file with
   the user, the names in small letters and the description in one piece, for every
   event. `Laid` says on which line of a body each title, each update and each line of
   the description is; `ReportLaid` that `reportEvent()` lays a body out like
   this, `ExtractLaid` that the server's `extract()` takes off nothing but empty lines
   at the end. `TitlesFound` says that the parser finds every title where it is: an
   update has a tab in front, also when its key is spelled like a title. That the updates
   come back rests on a map having a key once (`UpdatesAre`), since the parser's
   `emplace` keeps the first line and the writer is free in their order.
2. `Spec => []FInv` with

        FInv == TInv /\ AddingUp /\ Arriving /\ Leaving /\ Following /\ Agreeing

   `TInv` says that whatever is on its way was made by a join, a logout or a report of an
   event of a file (`Upward`, `Downward`), and gives `TypeCorrect`. `AddingUp`: the
   summaries are what the events read add up to; `UpdateSums` is one turn of
   `Event::update`, with `ParseReport` for what it is given, and `SummariesRight`
   (`SummariesAddUp`) follows. The others are for `FollowersRight` (`FollowersAgree`).
   `Arriving`: as long as no SEND was cut short, what was due to a client is what it has
   read and what comes. `Leaving`: a
   client sends nothing behind its DISCONNECT. `Following`: who was sent a report of a
   game is still on its channel, or his DISCONNECT has taken him off it. `Agreeing`: of
   two clients on a channel, what one was sent of a user's reports on the game is the
   *end* of what the other was. So two followers who have read everything agree on the
   last value of a key that both know; one who joined late may not know a key that was
   reported before.

   What is due counts a report for everybody on the channel, served or not, so
   `Following` and `Agreeing` hold of the SENDs that are cut short, too.

Only model-checked: all liveness (`EveryTaskRuns`, `EverythingIsDecoded`,
`QueueDrains`, `WireDrains`, `LoopReturns`, `LogoutCloses`, `ErrorLogsOut`,
`HandlersEnd`, `EveryEventArrives`) and the fairness in `ImplementsMailbox`, since
fairness and ENABLED are beyond the prover. Every invariant and every action property
that a run checks is a theorem; the runs that expect a violation need none.

## 5. What is not modelled

- **Characters**: `StompMessageEncoderDecoder` decodes bytes as UTF-8 when a frame is
  whole, and its array grows; the models have bytes and sequences.
- **The inside of library classes**: stale entries of the pool's `WeakHashMap`
  under a read lock, and the client's `unordered_map` read by one thread while
  another writes it, are undefined or unspecified below the level of the models. A
  lookup is one step.
- **The client's ids and `exit`**, the receipts it waits for, and `clear()` of the
  maps in a second session: `StompClient` has sessions and `GameReports` one
  session's maps, and no model has both.
- **The server's `main`**: it parses two arguments.
- **Examples and the vendored JSON library**: no part of the system. `json.hpp` is
  24 640 of the 25 677 lines of C++ in the repository, so most of what is written
  in C++ here is a library that the models take as external.

## 6. Plan

Done, in this order: `StompBroker` and its proofs; `ActorMailbox`,
`ActorThreadPool` and the refinement; `Reactor`; `StompClient`;
`StompBrokerThreads` and its proofs; `GameEvents` and `GameReports`;
`FrameDecoding` over the pool; the proofs of `Reactor` and of the broker's action
properties; the refinement of `ActorMailbox`, the order of the bytes, and the proofs of
`GameEvents` and `GameReports`.

What would come next:

1. `StompSystem`: the client's threads against the broker's. `logout` closes the
   socket on the next frame whatever it is, and the server keeps the user logged
   in when DISCONNECT is lost with it.
2. A client with ids, `exit` and the maps of two sessions, for what
   `StompProtocol.cpp:295` clears after `loggedIn` is reset.
3. `Reactor` over `FrameDecoding` in one model, so that a frame cut by reads and a
   lost write interest can meet.
