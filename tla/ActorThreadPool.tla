--------------------------- MODULE ActorThreadPool ---------------------------
(***************************************************************************)
(* ActorThreadPool: runnables submitted for an act run on a fixed pool of  *)
(* threads, at most one of an act at a time.                               *)
(*                                                                         *)
(* submit() and complete() hold the monitor of the act.  Each is two       *)
(* steps here, one that reads playingNow or the pending runnables and one  *)
(* that acts on what it read, so that what the monitor is for can be seen. *)
(* The executor is Java's: a FIFO queue that idle threads take from.       *)
(* pendingRunnablesOf() makes an act's queue when it has none; a missing   *)
(* queue is an empty one here.                                             *)
(***************************************************************************)
EXTENDS Naturals, Sequences

CONSTANTS Acts,
          Tasks,    \* the runnables, each submitted once
          Clients,  \* threads that call submit()
          Workers,  \* the threads of the executor
          Null

VARIABLES fresh,      \* runnables not submitted yet
          playingNow,
          acts,       \* act -> its pending runnables
          queue,      \* of the executor: <<act, runnable>>
          isShutdown, \* of the executor
          monitor,    \* act -> the thread that holds its monitor
          thread      \* what a client or worker is doing

vars == <<fresh, playingNow, acts, queue, isShutdown, monitor, thread>>

Threads == Clients \cup Workers

ASSUME ThreadsAssumption ==
    /\ Clients \cap Workers = {}
    /\ Null \notin Threads \cup Acts \cup Tasks

\* seen: what the first step read, playingNow.contains() or pending.isEmpty().
Frame(pc, a, r, seen) == [pc |-> pc, act |-> a, task |-> r, seen |-> seen]
Idle == Frame("idle", Null, Null, FALSE)
FrameSet == [pc : {"idle", "submit", "run", "complete"}, act : Acts \cup {Null},
             task : Tasks \cup {Null}, seen : BOOLEAN]

At(t, pc) == thread[t].pc = pc
Become(t, frame) == thread' = [thread EXCEPT ![t] = frame]

-----------------------------------------------------------------------------

\* Mutant: no synchronized (act).
free_Always(a) == TRUE

free(a) == monitor[a] = Null

enter(t, a) == free(a) /\ monitor' = [monitor EXCEPT ![a] = t]
leave(t) ==
    /\ monitor' = [monitor EXCEPT ![thread[t].act] = Null]
    /\ Become(t, Idle)

\* Mutant: the runnable is handed to the executor bare, without its complete(act).
execute_Bare(a, r) == queue' = Append(queue, r)

\* After shutdown threads.execute() throws, and the runnable is gone.
execute(a, r) == queue' = IF isShutdown THEN queue ELSE Append(queue, <<a, r>>)

\* Mutant: the act is not marked as playing.
started_Forgotten(a) == playingNow

started(a) == playingNow \cup {a}

SubmitLook(t, a, r) ==
    /\ At(t, "idle") /\ r \in fresh
    /\ enter(t, a)
    /\ fresh' = fresh \ {r}
    /\ Become(t, Frame("submit", a, r, a \in playingNow))
    /\ UNCHANGED <<playingNow, acts, queue, isShutdown>>

SubmitExecute(t) ==
    /\ At(t, "submit") /\ ~thread[t].seen
    /\ playingNow' = started(thread[t].act)
    /\ execute(thread[t].act, thread[t].task)
    /\ leave(t)
    /\ UNCHANGED <<fresh, acts, isShutdown>>

\* Mutant: the pending runnables are a stack.
pend_Push(list, r) == <<r>> \o list

pend(list, r) == Append(list, r)

SubmitPend(t) ==
    /\ At(t, "submit") /\ thread[t].seen
    /\ acts' = [acts EXCEPT ![thread[t].act] = pend(@, thread[t].task)]
    /\ leave(t)
    /\ UNCHANGED <<fresh, playingNow, queue, isShutdown>>

\* External: a thread of the executor takes the next runnable and runs it.
Take(w) ==
    /\ At(w, "idle") /\ queue # <<>>
    /\ Become(w, Frame("run", Head(queue)[1], Head(queue)[2], FALSE))
    /\ queue' = Tail(queue)
    /\ UNCHANGED <<fresh, playingNow, acts, isShutdown, monitor>>

\* run() has returned or thrown; complete() follows in either case.
CompleteLook(w) ==
    /\ At(w, "run")
    /\ enter(w, thread[w].act)
    /\ Become(w, Frame("complete", thread[w].act, Null, acts[thread[w].act] = <<>>))
    /\ UNCHANGED <<fresh, playingNow, acts, queue, isShutdown>>

\* Mutant: complete() does not look at the pending runnables.
CompleteRest_Always(w) ==
    /\ At(w, "complete")
    /\ playingNow' = playingNow \ {thread[w].act}
    /\ leave(w)
    /\ UNCHANGED <<fresh, acts, queue, isShutdown>>

CompleteRest(w) ==
    /\ At(w, "complete") /\ thread[w].seen
    /\ playingNow' = playingNow \ {thread[w].act}
    /\ leave(w)
    /\ UNCHANGED <<fresh, acts, queue, isShutdown>>

CompleteNext(w) ==
    LET a == thread[w].act
    IN  /\ At(w, "complete") /\ ~thread[w].seen
        /\ execute(a, Head(acts[a]))
        /\ acts' = [acts EXCEPT ![a] = Tail(@)]
        /\ leave(w)
        /\ UNCHANGED <<fresh, playingNow, isShutdown>>

\* threads.shutdownNow(): what waits in the executor's queue is dropped.
shutdown ==
    /\ ~isShutdown
    /\ isShutdown' = TRUE
    /\ queue' = <<>>
    /\ UNCHANGED <<fresh, playingNow, acts, monitor, thread>>

-----------------------------------------------------------------------------

Init ==
    /\ fresh = Tasks
    /\ playingNow = {}
    /\ acts = [a \in Acts |-> <<>>]
    /\ queue = <<>>
    /\ isShutdown = FALSE
    /\ monitor = [a \in Acts |-> Null]
    /\ thread = [t \in Threads |-> Idle]

Work(w) == Take(w) \/ CompleteLook(w) \/ CompleteRest(w) \/ CompleteNext(w)

Next ==
    \/ \E t \in Clients, a \in Acts, r \in Tasks : SubmitLook(t, a, r)
    \/ \E t \in Clients : SubmitExecute(t) \/ SubmitPend(t)
    \/ \E w \in Workers : Work(w)
    \/ shutdown

\* Threads are scheduled and runnables return.  Nobody has to submit, and
\* nobody has to shut down.
Fairness ==
    /\ \A t \in Clients : WF_vars(SubmitExecute(t) \/ SubmitPend(t))
    /\ \A w \in Workers : WF_vars(Work(w))

Spec == Init /\ [][Next]_vars /\ Fairness

-----------------------------------------------------------------------------

TypeOK ==
    /\ fresh \in SUBSET Tasks
    /\ playingNow \in SUBSET Acts
    /\ acts \in [Acts -> Seq(Tasks)]
    /\ queue \in Seq(Acts \X Tasks)
    /\ isShutdown \in BOOLEAN
    /\ monitor \in [Acts -> Threads \cup {Null}]
    /\ thread \in [Threads -> FrameSet]

\* The runnables of an act that are queued at the executor, running, or being
\* completed: each of these ends in a complete() for the act.
Queued(a) == {i \in DOMAIN queue : queue[i][1] = a}
Busy(a) == {w \in Workers : ~At(w, "idle") /\ thread[w].act = a}

\* An act is at most once in the executor, and an act that is there is marked:
\* two runnables of one act never run side by side.
OneAtATime ==
    \A a \in Acts :
        /\ \A i, j \in Queued(a) : i = j
        /\ \A v, w \in Busy(a) : v = w
        /\ Queued(a) = {} \/ Busy(a) = {}
        /\ Queued(a) \cup Busy(a) # {} => a \in playingNow

\* A runnable that was left pending has somebody to hand it on: its act is in
\* the executor, so a complete() is still to come.
NobodyStranded ==
    \A a \in Acts :
        acts[a] # <<>> /\ ~isShutdown => Queued(a) \cup Busy(a) # {}

\* An act's mailbox is its runnable in the executor's queue, of which there is at most
\* one (OneAtATime), followed by those pending.
InExecutor(a) ==
    IF Queued(a) = {} THEN <<>> ELSE <<queue[CHOOSE i \in Queued(a) : TRUE][2]>>
Running(a) ==
    IF \E w \in Workers : At(w, "run") /\ thread[w].act = a
    THEN thread[CHOOSE w \in Workers : At(w, "run") /\ thread[w].act = a].task
    ELSE Null

Mailbox == INSTANCE ActorMailbox WITH
    mailbox <- [a \in Acts |-> InExecutor(a) \o acts[a]],
    running <- [a \in Acts |-> Running(a)],
    closed <- isShutdown

\* The pool's steps are steps of ActorMailbox: an act's runnables run one at a time in
\* the order in which they were submitted, whichever threads and queues they go through,
\* and none is lost or runs twice before the pool is shut down.
KeepsMailboxes == Mailbox!Init /\ [][Mailbox!Next]_(Mailbox!mailboxVars)

\* With its fairness, too: the pool gives its users what ActorMailbox promises.
ImplementsMailbox == Mailbox!Spec

\* Unless the pool is shut down, a runnable that submit() has taken gets to run.
Submitted(r) == \/ \E a \in Acts : \E i \in DOMAIN acts[a] : acts[a][i] = r
                \/ \E i \in DOMAIN queue : queue[i][2] = r
                \/ \E t \in Clients : thread[t].task = r
EveryTaskRuns ==
    \A r \in Tasks : Submitted(r) ~> (isShutdown \/ \E w \in Workers : thread[w].task = r)

=============================================================================
