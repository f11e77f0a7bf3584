------------------------------- MODULE Reactor -------------------------------
(***************************************************************************)
(* The reactor server: one selector thread (Reactor) that reads, writes    *)
(* and closes the channels, and the pool threads that run the protocol on  *)
(* what was read (NonBlockingConnectionHandler).  Pool threads hand their   *)
(* replies to the selector thread through a write queue per connection and *)
(* a queue of selector tasks.                                              *)
(*                                                                         *)
(* The pool is ActorMailbox, which ActorThreadPool implements.  A frame is *)
(* one of two kinds, for what process() does to the connections:           *)
(*   "msg"  sends at most one frame, to any registered connection;         *)
(*   "last" answers, disconnects and terminates (DISCONNECT and ERROR).    *)
(* The protocol and the broker's data are StompBroker's.                   *)
(***************************************************************************)
EXTENDS Naturals, SequencesExt

CONSTANTS Conns, MaxFrames, Null

\* A pool task is the part of the wire one read() returned.
Chunk == UNION {[1..n -> {"msg", "last"}] : n \in 1..MaxFrames}

VARIABLES
  (* the network *)
    wire,            \* connection -> frames sent by the client and not read
    sent,            \* how many frames the clients have sent, MaxFrames at most
    eof,             \* connections whose client has closed or reset its side
  (* the channels; a key is valid while its channel is open *)
    chan,            \* connection -> "connecting", "open" or "closed"
    ops,             \* connection -> interestOps of its key
  (* the selector thread *)
    sel,             \* where it is
    at,              \* the connection it is writing to
    selected,        \* selectedKeys and what each is ready for
    selectorTasks,
    wakeup,          \* a wakeup() that select() has not consumed
  (* the handlers and the pool threads *)
    mailbox, running, closed,
    rest,            \* connection -> frames of the running chunk still to process
    worker,          \* connection -> where the thread running its chunk is
    dest,            \* connection -> whom that thread is sending to
    writeQueue,      \* connection -> number of frames queued for it
    clientsToCH,
    shouldTerminate

net == <<wire, sent, eof>>
channels == <<chan, ops>>
selector == <<sel, at, selected>>
pool == <<mailbox, running, closed>>
handlers == <<rest, worker, dest, writeQueue, clientsToCH, shouldTerminate>>
vars == <<net, channels, selector, selectorTasks, wakeup, pool, handlers>>

ASSUME ReactorAssumption == MaxFrames \in Nat /\ Null \notin Conns \cup Chunk

Pool == INSTANCE ActorMailbox WITH Acts <- Conns, Tasks <- Chunk

-----------------------------------------------------------------------------
(* The clients *)

ClientSend(c, kind) ==
    /\ chan[c] = "open" /\ c \notin eof /\ sent < MaxFrames
    /\ wire' = [wire EXCEPT ![c] = Append(@, kind)]
    /\ sent' = sent + 1
    /\ UNCHANGED <<eof, channels, selector, selectorTasks, wakeup, pool, handlers>>

ClientClose(c) ==
    /\ chan[c] = "open" /\ c \notin eof
    /\ eof' = eof \cup {c}
    /\ UNCHANGED <<wire, sent, channels, selector, selectorTasks, wakeup, pool, handlers>>

-----------------------------------------------------------------------------
(* The selector thread: serve() *)

\* What select() finds: readable at end of stream too, and writable always.
ReadyFor(c) ==
    (IF chan[c] = "connecting" THEN {"accept"} ELSE {})
    \cup (IF chan[c] = "open" /\ "read" \in ops[c] /\ (wire[c] # <<>> \/ c \in eof)
          THEN {"read"} ELSE {})
    \cup (IF chan[c] = "open" /\ "write" \in ops[c] THEN {"write"} ELSE {})

Ready == UNION {{c} \X ReadyFor(c) : c \in Conns}

\* select() blocks until there is a ready key or a wakeup().
Select ==
    /\ sel = "select"
    /\ wakeup \/ Ready # {}
    /\ sel' = "tasks"
    /\ selected' = Ready
    /\ wakeup' = FALSE
    /\ UNCHANGED <<at, net, channels, selectorTasks, pool, handlers>>

\* runSelectionThreadTasks(): key.interestOps(), posted by a send() to task.  Of a
\* closed channel the key is cancelled, or was null when the task was posted, and
\* serve() catches neither exception.
RunTask ==
    LET task == Head(selectorTasks)
    IN  /\ sel = "tasks" /\ selectorTasks # <<>>
        /\ selectorTasks' = Tail(selectorTasks)
        /\ IF chan[task] = "open"
           THEN ops' = [ops EXCEPT ![task] = {"read", "write"}] /\ UNCHANGED sel
           ELSE sel' = "dead" /\ UNCHANGED ops
        /\ UNCHANGED <<at, selected, net, chan, wakeup, pool, handlers>>

TasksDone ==
    /\ sel = "tasks" /\ selectorTasks = <<>>
    /\ sel' = "keys"
    /\ UNCHANGED <<at, selected, net, channels, selectorTasks, wakeup, pool, handlers>>

KeysDone ==
    /\ sel = "keys" /\ selected = {}
    /\ sel' = "select"
    /\ UNCHANGED <<at, selected, net, channels, selectorTasks, wakeup, pool, handlers>>

handleAccept(c) ==
    /\ sel = "keys" /\ <<c, "accept">> \in selected
    /\ selected' = selected \ {<<c, "accept">>}
    /\ chan' = [chan EXCEPT ![c] = "open"]
    /\ ops' = [ops EXCEPT ![c] = {"read"}]
    /\ clientsToCH' = clientsToCH \cup {c}
    /\ UNCHANGED <<sel, at, net, selectorTasks, wakeup, pool, rest, worker, dest,
                   writeQueue, shouldTerminate>>

\* chan.close(): the key is cancelled with the channel.
close(c) ==
    /\ chan' = [chan EXCEPT ![c] = "closed"]
    /\ UNCHANGED ops

\* continueRead(): some of what is on the wire goes to the pool.
continueRead(c) ==
    /\ sel = "keys" /\ <<c, "read">> \in selected /\ wire[c] # <<>>
    /\ selected' = selected \ {<<c, "read">>}
    /\ \E n \in 1..Len(wire[c]) :
          /\ Pool!Submit(c, SubSeq(wire[c], 1, n))
          /\ wire' = [wire EXCEPT ![c] = SubSeq(@, n + 1, Len(@))]
    /\ UNCHANGED <<sel, at, sent, eof, channels, selectorTasks, wakeup, handlers>>

\* End of stream: the channel is closed, and its write event passed over.
continueReadEnds(c) ==
    /\ sel = "keys" /\ <<c, "read">> \in selected /\ wire[c] = <<>>
    /\ selected' = selected \ {<<c, "read">>, <<c, "write">>}
    /\ close(c)
    /\ UNCHANGED <<sel, at, net, selectorTasks, wakeup, pool, handlers>>

BeginWrite(c) ==
    /\ sel = "keys" /\ <<c, "write">> \in selected /\ <<c, "read">> \notin selected
    /\ selected' = selected \ {<<c, "write">>}
    /\ sel' = "write" /\ at' = c
    /\ UNCHANGED <<net, channels, selectorTasks, wakeup, pool, handlers>>

\* Mutant: a frame is taken off the queue without asking whether there is one.
WriteFrame_Unchecked ==
    /\ sel = "write"
    /\ writeQueue' = [writeQueue EXCEPT ![at] = @ - 1]
    /\ UNCHANGED <<net, channels, selector, selectorTasks, wakeup, pool, rest,
                   worker, dest, clientsToCH, shouldTerminate>>

\* continueWrite(), one turn of its loop: the frame at the head of the queue is
\* written, or only in part, or the write fails.  A failed write closes the
\* channel and leaves the queue as it is, so the loop never ends.
WriteFrame ==
    /\ sel = "write" /\ writeQueue[at] > 0
    /\ writeQueue' = [writeQueue EXCEPT ![at] = @ - 1]
    /\ UNCHANGED <<net, channels, selector, selectorTasks, wakeup, pool, rest,
                   worker, dest, clientsToCH, shouldTerminate>>

WritePart ==
    /\ sel = "write" /\ writeQueue[at] > 0
    /\ sel' = "keys"
    /\ UNCHANGED <<at, selected, net, channels, selectorTasks, wakeup, pool, handlers>>

WriteFails ==
    /\ sel = "write" /\ writeQueue[at] > 0 /\ at \in eof
    /\ sel' = "stuck"
    /\ close(at)
    /\ UNCHANGED <<at, selected, net, selectorTasks, wakeup, pool, handlers>>

\* Mutant: the loop goes on until the connection is to be terminated.
WriteAllDone_Spins ==
    /\ sel = "write" /\ writeQueue[at] = 0 /\ shouldTerminate[at]
    /\ sel' = "close"
    /\ UNCHANGED <<at, selected, net, channels, selectorTasks, wakeup, pool, handlers>>

\* The queue is empty: close, or go back to reading.  When a frame arrives before
\* isEmpty() is asked again, the handler returns as after WritePart.  The field
\* shouldTerminate is not volatile; a read of it sees the last write here.
WriteAllDone ==
    /\ sel = "write" /\ writeQueue[at] = 0
    /\ sel' = IF shouldTerminate[at] THEN "close" ELSE "settle"
    /\ UNCHANGED <<at, selected, net, channels, selectorTasks, wakeup, pool, handlers>>

\* Mutant: no interest is left.
settledOps_None == {}

settledOps == {"read"}

WriteSettles ==
    /\ sel = "settle"
    /\ ops' = [ops EXCEPT ![at] = settledOps]
    /\ sel' = "keys"
    /\ UNCHANGED <<at, selected, net, chan, selectorTasks, wakeup, pool, handlers>>

WriteCloses ==
    /\ sel = "close"
    /\ close(at)
    /\ sel' = "keys"
    /\ UNCHANGED <<at, selected, net, selectorTasks, wakeup, pool, handlers>>

\* Another thread's close(): select() throws, serve() shuts the pool down.
CloseServer ==
    /\ sel = "select"
    /\ sel' = "closed"
    /\ Pool!Drop
    /\ UNCHANGED <<at, selected, net, channels, selectorTasks, wakeup, handlers>>

-----------------------------------------------------------------------------
(* The pool threads: the runnable of continueRead().  Once process() has been  *)
(* called for a frame, the runnable goes on with the next one of its chunk,   *)
(* also when the protocol has asked to terminate.                             *)

Running(c, where) == worker[c] = where
Goes(c, where) == worker' = [worker EXCEPT ![c] = where]
NextFrame(c) == rest' = [rest EXCEPT ![c] = Tail(@)]

StartChunk(c) ==
    /\ Pool!Start(c)
    /\ rest' = [rest EXCEPT ![c] = Head(mailbox[c])]
    /\ Goes(c, "run")
    /\ UNCHANGED <<net, channels, selector, selectorTasks, wakeup, dest,
                   writeQueue, clientsToCH, shouldTerminate>>

\* send(), in three steps: the frame is queued, the selector task is queued, and
\* the selector is woken up.
SendFrame(c, d) ==
    /\ Running(c, "run") /\ rest[c] # <<>> /\ d \in clientsToCH
    /\ Head(rest[c]) = "last" => d = c
    /\ writeQueue' = [writeQueue EXCEPT ![d] = @ + 1]
    /\ dest' = [dest EXCEPT ![c] = d]
    /\ Goes(c, "post")
    /\ UNCHANGED <<net, channels, selector, selectorTasks, wakeup, pool, rest,
                   clientsToCH, shouldTerminate>>

\* Mutant: the pool thread sets the key's interest itself.
PostTask_Direct(c) ==
    /\ Running(c, "post")
    /\ ops' = [ops EXCEPT ![dest[c]] = {"read", "write"}]
    /\ Goes(c, "wake")
    /\ UNCHANGED <<net, chan, selector, selectorTasks, wakeup, pool, rest, dest,
                   writeQueue, clientsToCH, shouldTerminate>>

PostTask(c) ==
    /\ Running(c, "post")
    /\ selectorTasks' = Append(selectorTasks, dest[c])
    /\ Goes(c, "wake")
    /\ UNCHANGED <<net, channels, selector, wakeup, pool, rest, dest, writeQueue,
                   clientsToCH, shouldTerminate>>

\* Mutant: no wakeup() after the task was queued.
woken_Never == wakeup

woken == TRUE

WakeUp(c) ==
    /\ Running(c, "wake")
    /\ wakeup' = woken
    /\ dest' = [dest EXCEPT ![c] = Null]
    /\ IF Head(rest[c]) = "last"
       THEN Goes(c, "leave") /\ UNCHANGED rest
       ELSE Goes(c, "run") /\ NextFrame(c)
    /\ UNCHANGED <<net, channels, selector, selectorTasks, pool, writeQueue,
                   clientsToCH, shouldTerminate>>

\* process() sends nothing: there is nobody to send to.
Unanswered(c) ==
    /\ Running(c, "run") /\ rest[c] # <<>>
    /\ IF Head(rest[c]) = "last"
       THEN c \notin clientsToCH /\ Goes(c, "leave") /\ UNCHANGED rest
       ELSE NextFrame(c) /\ UNCHANGED worker
    /\ UNCHANGED <<net, channels, selector, selectorTasks, wakeup, pool, dest,
                   writeQueue, clientsToCH, shouldTerminate>>

\* disconnect(), which does nothing before a login, and terminate().
Leave(c) ==
    /\ Running(c, "leave")
    /\ \E gone \in SUBSET {c} : clientsToCH' = clientsToCH \ gone
    /\ shouldTerminate' = [shouldTerminate EXCEPT ![c] = TRUE]
    /\ Goes(c, "run") /\ NextFrame(c)
    /\ UNCHANGED <<net, channels, selector, selectorTasks, wakeup, pool, dest, writeQueue>>

\* process() throws: the rest of the chunk is lost.
ProcessThrows(c) ==
    /\ Running(c, "run") /\ rest[c] # <<>>
    /\ rest' = [rest EXCEPT ![c] = <<>>]
    /\ UNCHANGED <<net, channels, selector, selectorTasks, wakeup, pool, worker,
                   dest, writeQueue, clientsToCH, shouldTerminate>>

EndChunk(c) ==
    /\ Running(c, "run") /\ rest[c] = <<>>
    /\ Pool!Finish(c)
    /\ Goes(c, "idle")
    /\ UNCHANGED <<net, channels, selector, selectorTasks, wakeup, rest, dest,
                   writeQueue, clientsToCH, shouldTerminate>>

-----------------------------------------------------------------------------

Init ==
    /\ wire = [c \in Conns |-> <<>>]
    /\ sent = 0
    /\ eof = {}
    /\ chan = [c \in Conns |-> "connecting"]
    /\ ops = [c \in Conns |-> {}]
    /\ sel = "select" /\ at = Null /\ selected = {}
    /\ selectorTasks = <<>> /\ wakeup = FALSE
    /\ Pool!Init
    /\ rest = [c \in Conns |-> <<>>]
    /\ worker = [c \in Conns |-> "idle"]
    /\ dest = [c \in Conns |-> Null]
    /\ writeQueue = [c \in Conns |-> 0]
    /\ clientsToCH = {}
    /\ shouldTerminate = [c \in Conns |-> FALSE]

\* serve(), except for the step that writes a frame.
Serve ==
    \/ Select \/ RunTask \/ TasksDone \/ KeysDone
    \/ \E c \in Conns : handleAccept(c) \/ continueRead(c) \/ continueReadEnds(c)
                           \/ BeginWrite(c)
    \/ WriteAllDone \/ WriteSettles \/ WriteCloses

RunChunk(c) ==
    \/ StartChunk(c) \/ EndChunk(c)
    \/ \E d \in Conns : SendFrame(c, d)
    \/ PostTask(c) \/ WakeUp(c) \/ Unanswered(c) \/ Leave(c) \/ ProcessThrows(c)

Next ==
    \/ \E c \in Conns : ClientClose(c) \/ \E kind \in {"msg", "last"} : ClientSend(c, kind)
    \/ Serve \/ WriteFrame \/ WritePart \/ WriteFails
    \/ \E c \in Conns : RunChunk(c)
    \/ CloseServer

\* The selector thread and the pool threads are scheduled, and clients read what
\* is sent to them: a write that is tried again and again succeeds in the end.
Fairness ==
    /\ WF_vars(Serve)
    /\ \A c \in Conns : /\ SF_vars(at = c /\ WriteFrame)
                        /\ WF_vars(at = c /\ (WriteFrame \/ WritePart \/ WriteFails))
                        /\ WF_vars(RunChunk(c))

Spec == Init /\ [][Next]_vars /\ Fairness

-----------------------------------------------------------------------------

TypeOK ==
    /\ wire \in [Conns -> Seq({"msg", "last"})]
    /\ sent \in 0..MaxFrames
    /\ eof \in SUBSET Conns
    /\ chan \in [Conns -> {"connecting", "open", "closed"}]
    /\ ops \in [Conns -> SUBSET {"read", "write"}]
    /\ sel \in {"select", "tasks", "keys", "write", "settle", "close",
                "dead", "stuck", "closed"}
    /\ at \in Conns \cup {Null}
    /\ selected \in SUBSET (Conns \X {"accept", "read", "write"})
    /\ selectorTasks \in Seq(Conns)
    /\ wakeup \in BOOLEAN
    /\ mailbox \in [Conns -> Seq(Chunk)]
    /\ running \in [Conns -> Chunk \cup {Null}]
    /\ rest \in [Conns -> Seq({"msg", "last"})]
    /\ worker \in [Conns -> {"idle", "run", "post", "wake", "leave"}]
    /\ dest \in [Conns -> Conns \cup {Null}]
    /\ writeQueue \in [Conns -> Nat]
    /\ clientsToCH \in SUBSET Conns
    /\ shouldTerminate \in [Conns -> BOOLEAN]

Serving == sel \notin {"dead", "stuck", "closed"}

\* No lost write.  Pool threads add to a write queue while the selector thread
\* finds it empty and goes back to reading; a frame that is queued for an open
\* channel has the write interest, or a selector task for it is there or coming.
NoLostWrite ==
    \A c \in Conns : Serving /\ chan[c] = "open" /\ writeQueue[c] > 0 =>
        \/ "write" \in ops[c]
        \/ c \in ToSet(selectorTasks)
        \/ \E d \in Conns : Running(d, "post") /\ dest[d] = c

\* No lost wakeup.  The selector thread is not about to block in select() with a
\* task in its queue, unless a wakeup() is there or coming.
NoLostWakeup ==
    sel = "select" /\ selectorTasks # <<>> =>
        wakeup \/ \E d \in Conns : Running(d, "wake")

\* What was queued for a channel is written, unless the channel is closed or the
\* selector thread is gone.
QueueDrains ==
    \A c \in Conns :
        writeQueue[c] > 0 ~> (writeQueue[c] = 0 \/ chan[c] = "closed" \/ ~Serving)

\* What a client sent is read and processed to the last frame, also what was on
\* the wire when the client closed its side.
WireDrains ==
    \A c \in Conns :
        wire[c] # <<>> ~> \/ wire[c] = <<>> /\ mailbox[c] = <<>> /\ running[c] = Null
                          \/ chan[c] = "closed" \/ ~Serving

\* The loop gets back to select() from the middle of a write, whatever pool threads add
\* to the queue meanwhile, unless the write fails: continueWrite() then tries the same
\* frame on the closed channel for ever ("stuck").
LoopReturns == sel = "write" ~> sel \in {"select", "stuck", "dead", "closed"}

-----------------------------------------------------------------------------
(* What the code's comments say and the two kinds of thread together do not *)

\* StompMessagingProtocol.java:17, on shouldTerminate(): "true if the connection
\* should be terminated".  A connection that has to be terminated gets closed.
TerminatedCloses ==
    \A c \in Conns : shouldTerminate[c] ~> (chan[c] = "closed" \/ ~Serving)

\* Server.java:13, on serve(): "The main loop of the server, Starts listening and
\* handling new clients".  No exception ends the loop.
LoopSurvives == sel # "dead"

=============================================================================
