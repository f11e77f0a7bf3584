------------------------ MODULE ActorThreadPoolProofs ------------------------
(***************************************************************************)
(* Theorems about ActorThreadPool, for any number of acts, runnables and   *)
(* threads.                                                                *)
(***************************************************************************)
EXTENDS ActorThreadPool, TLAPS

\* Clients submit and workers run and complete, each for an act; a client has
\* the runnable it submits.
Roles ==
    /\ \A t \in Clients : thread[t].pc \in {"idle", "submit"}
    /\ \A w \in Workers : thread[w].pc \in {"idle", "run", "complete"}
    /\ \A t \in Threads : ~At(t, "idle") => thread[t].act \in Acts
    /\ \A t \in Clients : At(t, "submit") => thread[t].task \in Tasks

\* A thread inside submit() or complete() holds the monitor of its act.
Inside(t) == At(t, "submit") \/ At(t, "complete")
Holds == \A t \in Threads : Inside(t) => monitor[thread[t].act] = t

\* What a thread has read under the monitor is still true when it acts on it.
SeenIsTrue ==
    \A t \in Threads :
        /\ At(t, "submit") => (thread[t].seen <=> thread[t].act \in playingNow)
        /\ At(t, "complete") => (thread[t].seen <=> acts[thread[t].act] = <<>>)

\* Only an act that is marked as playing has pending runnables.
PendingPlays == \A a \in Acts : acts[a] # <<>> => a \in playingNow

\* An act that is marked is in the executor, until shutdown() drops it there.
PlayingPresent ==
    \A a \in playingNow : ~isShutdown => Queued(a) \cup Busy(a) # {}

IInv == /\ TypeOK /\ Roles /\ Holds /\ SeenIsTrue
        /\ OneAtATime /\ PendingPlays /\ PlayingPresent

-----------------------------------------------------------------------------
(* What a step does to Queued and Busy *)

LEMMA QueuedAppend ==
    ASSUME queue \in Seq(Acts \X Tasks), NEW b \in Acts, NEW r \in Tasks,
           queue' = Append(queue, <<b, r>>)
    PROVE  \A a \in Acts :
             Queued(a)' = IF a = b THEN Queued(a) \cup {Len(queue) + 1} ELSE Queued(a)
<1>1. /\ DOMAIN queue = 1..Len(queue) /\ DOMAIN queue' = 1..(Len(queue) + 1)
      /\ Len(queue) \in Nat
    OBVIOUS
<1>2. /\ \A i \in 1..Len(queue) : queue'[i] = queue[i]
      /\ queue'[Len(queue) + 1] = <<b, r>>
    OBVIOUS
<1> QED
    BY <1>1, <1>2 DEF Queued

LEMMA QueuedTail ==
    ASSUME queue \in Seq(Acts \X Tasks), queue # <<>>, queue' = Tail(queue)
    PROVE  \A a \in Acts : \A i : i \in Queued(a)' <=> i \in Nat \ {0} /\ i + 1 \in Queued(a)
<1>1. /\ DOMAIN queue = 1..Len(queue) /\ DOMAIN queue' = 1..(Len(queue) - 1)
      /\ Len(queue) \in Nat \ {0}
    OBVIOUS
<1>2. \A i \in 1..(Len(queue) - 1) : queue'[i] = queue[i + 1]
    OBVIOUS
<1> QED
    BY <1>1, <1>2 DEF Queued

LEMMA BusyBecome ==
    ASSUME TypeOK, NEW t \in Threads, NEW frame \in FrameSet, Become(t, frame)
    PROVE  /\ thread'[t] = frame
           /\ \A s \in Threads \ {t} : thread'[s] = thread[s]
           /\ thread' \in [Threads -> FrameSet]
           /\ \A a \in Acts :
                Busy(a)' = IF t \in Workers /\ frame.pc # "idle" /\ frame.act = a
                           THEN Busy(a) \cup {t} ELSE Busy(a) \ {t}
<1>1. thread \in [Threads -> FrameSet]
    BY DEF TypeOK
<1>2. /\ thread'[t] = frame
      /\ \A s \in Threads \ {t} : thread'[s] = thread[s]
      /\ thread' \in [Threads -> FrameSet]
    BY <1>1 DEF Become
<1>3. Workers \subseteq Threads
    BY DEF Threads
<1> QED
    BY <1>2, <1>3 DEF Busy, At

LEMMA IdleType == Idle \in FrameSet /\ Idle.pc = "idle"
    BY DEF Idle, Frame, FrameSet

\* leave() ends the call of the thread, and gives back its monitor.
LEMMA LeaveState ==
    ASSUME TypeOK, Roles, Holds, NEW t \in Threads, Inside(t), leave(t)
    PROVE  /\ monitor' \in [Acts -> Threads \cup {Null}]
           /\ thread' \in [Threads -> FrameSet]
           /\ thread'[t] = Idle
           /\ \A s \in Threads \ {t} :
                 /\ thread'[s] = thread[s]
                 /\ Inside(s) => thread[s].act # thread[t].act
           /\ \A a \in Acts : Busy(a)' = Busy(a) \ {t}
           /\ Roles' /\ Holds'
<1>1. /\ thread[t].act \in Acts
      /\ monitor' = [monitor EXCEPT ![thread[t].act] = Null]
      /\ Become(t, Idle)
    BY DEF leave, Roles, Inside, At
<1>2. monitor \in [Acts -> Threads \cup {Null}]
    BY DEF TypeOK
<1>3. monitor' \in [Acts -> Threads \cup {Null}]
    BY <1>1, <1>2
<1>4. /\ thread'[t] = Idle
      /\ \A s \in Threads \ {t} : thread'[s] = thread[s]
      /\ thread' \in [Threads -> FrameSet]
      /\ \A a \in Acts : Busy(a)' = Busy(a) \ {t}
    BY <1>1, IdleType, BusyBecome
<1>5. \A s \in Threads \ {t} : Inside(s) => thread[s].act # thread[t].act
    BY DEF Holds
<1>6. Roles'
    BY <1>4, IdleType DEF Roles, At, Threads
<1>7. Holds'
  <2> SUFFICES ASSUME NEW s \in Threads, Inside(s)' PROVE monitor'[thread'[s].act] = s
      BY DEF Holds
  <2>1. s # t
      BY <1>4, IdleType DEF Inside, At
  <2>2. Inside(s) /\ thread'[s] = thread[s]
      BY <2>1, <1>4 DEF Inside, At
  <2>3. thread[s].act \in Acts
      BY <2>2 DEF Roles, Inside, At
  <2> QED
      BY <2>1, <2>2, <2>3, <1>1, <1>2, <1>5 DEF Holds
<1> QED
    BY <1>3, <1>4, <1>5, <1>6, <1>7

\* Entering the monitor of an act that nobody holds.
LEMMA EnterState ==
    ASSUME TypeOK, Roles, Holds, NEW t \in Threads, NEW a \in Acts, enter(t, a),
           NEW frame \in FrameSet, frame.act = a, Become(t, frame),
           ~Inside(t)
    PROVE  /\ monitor' \in [Acts -> Threads \cup {Null}]
           /\ \A s \in Threads : Inside(s) => thread[s].act # a
           /\ Holds'
<1>1. monitor \in [Acts -> Threads \cup {Null}] /\ monitor[a] = Null
    BY DEF TypeOK, enter, free
<1>2. monitor' = [monitor EXCEPT ![a] = t]
    BY DEF enter
<1>3. \A s \in Threads : Inside(s) => thread[s].act # a
    BY <1>1, ThreadsAssumption DEF Holds
<1>4. Holds'
  <2> SUFFICES ASSUME NEW s \in Threads, Inside(s)' PROVE monitor'[thread'[s].act] = s
      BY DEF Holds
  <2>1. CASE s = t
      BY <2>1, <1>1, <1>2, BusyBecome
  <2>2. CASE s # t
    <3>1. thread'[s] = thread[s] /\ Inside(s)
        BY <2>2, BusyBecome DEF Inside, At
    <3>2. thread[s].act \in Acts /\ thread[s].act # a
        BY <3>1, <1>3 DEF Roles, Inside, At
    <3> QED
        BY <3>1, <3>2, <1>1, <1>2 DEF Holds
  <2> QED
      BY <2>1, <2>2
<1> QED
    BY <1>1, <1>2, <1>3, <1>4

-----------------------------------------------------------------------------

LEMMA InitInv == Init => IInv
<1> SUFFICES ASSUME Init PROVE IInv
    OBVIOUS
<1>1. TypeOK
  <2>1. <<>> \in Seq(Tasks) /\ <<>> \in Seq(Acts \X Tasks)
      OBVIOUS
  <2> QED
      BY <2>1, IdleType DEF Init, TypeOK
<1>2. \A t \in Threads : At(t, "idle")
    BY IdleType DEF Init, At
<1>3. \A a \in Acts : Queued(a) = {} /\ Busy(a) = {}
  <2>1. DOMAIN queue = {}
      BY DEF Init
  <2> QED
      BY <1>2, <2>1 DEF Queued, Busy, Threads
<1>4. Roles /\ Holds /\ SeenIsTrue
    BY <1>2 DEF Roles, Holds, SeenIsTrue, Inside, At, Threads
<1>5. OneAtATime /\ PendingPlays /\ PlayingPresent
    BY <1>3 DEF Init, OneAtATime, PendingPlays, PlayingPresent
<1> QED
    BY <1>1, <1>4, <1>5 DEF IInv

LEMMA SubmitLookInv ==
    ASSUME IInv, NEW t \in Clients, NEW a \in Acts, NEW r \in Tasks, SubmitLook(t, a, r)
    PROVE  IInv'
<1> DEFINE frame == Frame("submit", a, r, a \in playingNow)
<1>1. /\ At(t, "idle") /\ enter(t, a) /\ fresh' = fresh \ {r} /\ Become(t, frame)
      /\ UNCHANGED <<playingNow, acts, queue, isShutdown>>
    BY DEF SubmitLook
<1>2. /\ frame \in FrameSet /\ frame.pc = "submit" /\ frame.act = a /\ frame.task = r
      /\ frame.seen = (a \in playingNow)
    BY DEF Frame, FrameSet
<1>3. /\ TypeOK /\ Roles /\ Holds /\ SeenIsTrue
      /\ OneAtATime /\ PendingPlays /\ PlayingPresent
    BY DEF IInv
<1>4. t \in Threads /\ t \notin Workers /\ ~Inside(t)
    BY <1>1, ThreadsAssumption DEF Threads, Inside, At
<1> HIDE DEF frame
<1>5. /\ thread'[t] = frame
      /\ \A s \in Threads \ {t} : thread'[s] = thread[s]
      /\ thread' \in [Threads -> FrameSet]
      /\ \A b \in Acts : Busy(b)' = Busy(b) \ {t}
    BY <1>1, <1>2, <1>3, <1>4, BusyBecome
<1>6. /\ monitor' \in [Acts -> Threads \cup {Null}]
      /\ \A s \in Threads : Inside(s) => thread[s].act # a
      /\ Holds'
    BY <1>1, <1>2, <1>3, <1>4, EnterState
<1>7. TypeOK'
    BY <1>1, <1>3, <1>5, <1>6 DEF TypeOK
<1>8. Roles'
    BY <1>2, <1>3, <1>4, <1>5 DEF Roles, At, Threads
<1>9. SeenIsTrue'
    BY <1>1, <1>2, <1>3, <1>5 DEF SeenIsTrue, At
<1>10. \A b \in Acts : Busy(b)' = Busy(b) /\ Queued(b)' = Queued(b)
    BY <1>1, <1>4, <1>5 DEF Busy, Queued
<1>11. OneAtATime'
    BY <1>1, <1>3, <1>10 DEF OneAtATime
<1>12. PendingPlays'
    BY <1>1, <1>3 DEF PendingPlays
<1>13. PlayingPresent'
    BY <1>1, <1>3, <1>10 DEF PlayingPresent, TypeOK
<1> QED
    BY <1>6, <1>7, <1>8, <1>9, <1>11, <1>12, <1>13 DEF IInv


\* A runnable given to the executor for an act that is not there is its only
\* one there, unless the executor rejects it.
LEMMA ExecuteState ==
    ASSUME TypeOK, NEW b \in Acts, NEW r \in Tasks, execute(b, r), Queued(b) = {}
    PROVE  /\ queue' \in Seq(Acts \X Tasks)
           /\ \A a \in Acts \ {b} : Queued(a)' = Queued(a)
           /\ \A i, j \in Queued(b)' : i = j
           /\ ~isShutdown => Queued(b)' # {}
<1>1. CASE isShutdown
    BY <1>1 DEF execute, TypeOK, Queued
<1>2. CASE ~isShutdown
  <2>1. queue \in Seq(Acts \X Tasks) /\ <<b, r>> \in Acts \X Tasks
      BY DEF TypeOK
  <2>2. queue' = Append(queue, <<b, r>>)
      BY <1>2 DEF execute
  <2>3. queue' \in Seq(Acts \X Tasks)
      BY <2>1, <2>2
  <2>4. \A a \in Acts :
          Queued(a)' = IF a = b THEN Queued(a) \cup {Len(queue) + 1} ELSE Queued(a)
      BY <2>1, <2>2, QueuedAppend
  <2>5. Queued(b)' = {Len(queue) + 1}
      BY <2>4
  <2> QED
      BY <2>3, <2>4, <2>5
<1> QED
    BY <1>1, <1>2

LEMMA SubmitExecuteInv ==
    ASSUME IInv, NEW t \in Clients, SubmitExecute(t)
    PROVE  IInv'
<1>0. PICK a \in Acts, r \in Tasks : a = thread[t].act /\ r = thread[t].task
    BY DEF IInv, Roles, SubmitExecute, At, Threads
<1>1. /\ At(t, "submit") /\ ~thread[t].seen
      /\ playingNow' = playingNow \cup {a} /\ execute(a, r) /\ leave(t)
      /\ UNCHANGED <<fresh, acts, isShutdown>>
    BY <1>0 DEF SubmitExecute, started
<1>2. /\ TypeOK /\ Roles /\ Holds /\ SeenIsTrue
      /\ OneAtATime /\ PendingPlays /\ PlayingPresent
    BY DEF IInv
<1>3. t \in Threads /\ t \notin Workers /\ Inside(t)
    BY <1>1, ThreadsAssumption DEF Threads, Inside
<1>4. a \notin playingNow
    BY <1>0, <1>1, <1>2, <1>3 DEF SeenIsTrue
<1>5. Queued(a) = {} /\ Busy(a) = {}
    BY <1>2, <1>3, <1>4 DEF OneAtATime
<1>6. /\ monitor' \in [Acts -> Threads \cup {Null}]
      /\ thread' \in [Threads -> FrameSet]
      /\ thread'[t] = Idle
      /\ \A s \in Threads \ {t} : /\ thread'[s] = thread[s]
                                  /\ Inside(s) => thread[s].act # a
      /\ \A b \in Acts : Busy(b)' = Busy(b) \ {t}
      /\ Roles' /\ Holds'
    BY <1>0, <1>1, <1>2, <1>3, LeaveState
<1>7. /\ queue' \in Seq(Acts \X Tasks)
      /\ \A b \in Acts \ {a} : Queued(b)' = Queued(b)
      /\ \A i, j \in Queued(a)' : i = j
      /\ ~isShutdown => Queued(a)' # {}
    BY <1>1, <1>2, <1>3, <1>5, ExecuteState
<1>8. TypeOK'
    BY <1>1, <1>2, <1>3, <1>6, <1>7 DEF TypeOK
<1>9. SeenIsTrue'
    BY <1>1, <1>2, <1>6, IdleType DEF SeenIsTrue, At, Inside
<1>10. \A b \in Acts : Busy(b)' = Busy(b)
    BY <1>3, <1>6 DEF Busy
<1>11. OneAtATime'
    BY <1>1, <1>2, <1>5, <1>7, <1>10 DEF OneAtATime
<1>12. PendingPlays'
    BY <1>1, <1>2 DEF PendingPlays
<1>13. PlayingPresent'
    BY <1>1, <1>2, <1>7, <1>10 DEF PlayingPresent, TypeOK
<1> QED
    BY <1>6, <1>8, <1>9, <1>11, <1>12, <1>13 DEF IInv

LEMMA SubmitPendInv ==
    ASSUME IInv, NEW t \in Clients, SubmitPend(t)
    PROVE  IInv'
<1>0. PICK a \in Acts, r \in Tasks : a = thread[t].act /\ r = thread[t].task
    BY DEF IInv, Roles, SubmitPend, At, Threads
<1>1. /\ At(t, "submit") /\ thread[t].seen
      /\ acts' = [acts EXCEPT ![a] = Append(@, r)] /\ leave(t)
      /\ UNCHANGED <<fresh, playingNow, queue, isShutdown>>
    BY <1>0 DEF SubmitPend, pend
<1>2. /\ TypeOK /\ Roles /\ Holds /\ SeenIsTrue
      /\ OneAtATime /\ PendingPlays /\ PlayingPresent
    BY DEF IInv
<1>3. t \in Threads /\ t \notin Workers /\ Inside(t)
    BY <1>1, ThreadsAssumption DEF Threads, Inside
<1>4. a \in playingNow
    BY <1>0, <1>1, <1>2, <1>3 DEF SeenIsTrue
<1>5. /\ acts' \in [Acts -> Seq(Tasks)]
      /\ \A b \in Acts \ {a} : acts'[b] = acts[b]
    BY <1>1, <1>2, <1>3 DEF TypeOK
<1>6. /\ monitor' \in [Acts -> Threads \cup {Null}]
      /\ thread' \in [Threads -> FrameSet]
      /\ thread'[t] = Idle
      /\ \A s \in Threads \ {t} : /\ thread'[s] = thread[s]
                                  /\ Inside(s) => thread[s].act # a
      /\ \A b \in Acts : Busy(b)' = Busy(b) \ {t}
      /\ Roles' /\ Holds'
    BY <1>0, <1>1, <1>2, <1>3, LeaveState
<1>7. TypeOK'
    BY <1>1, <1>2, <1>5, <1>6 DEF TypeOK
<1>8. SeenIsTrue'
  <2>1. \A s \in Threads \ {t} : Inside(s) => thread[s].act \in Acts
      BY <1>2 DEF Roles, Inside, At
  <2> QED
      BY <1>1, <1>2, <1>5, <1>6, <2>1, IdleType DEF SeenIsTrue, At, Inside
<1>9. \A b \in Acts : Busy(b)' = Busy(b) /\ Queued(b)' = Queued(b)
    BY <1>1, <1>3, <1>6 DEF Busy, Queued
<1>10. OneAtATime'
    BY <1>1, <1>2, <1>9 DEF OneAtATime
<1>11. PendingPlays'
    BY <1>1, <1>2, <1>4, <1>5 DEF PendingPlays
<1>12. PlayingPresent'
    BY <1>1, <1>2, <1>9 DEF PlayingPresent, TypeOK
<1> QED
    BY <1>6, <1>7, <1>8, <1>10, <1>11, <1>12 DEF IInv


LEMMA TakeInv ==
    ASSUME IInv, NEW w \in Workers, Take(w)
    PROVE  IInv'
<1>1. /\ At(w, "idle") /\ queue # <<>> /\ queue' = Tail(queue)
      /\ Become(w, Frame("run", Head(queue)[1], Head(queue)[2], FALSE))
      /\ UNCHANGED <<fresh, playingNow, acts, isShutdown, monitor>>
    BY DEF Take
<1>2. /\ TypeOK /\ Roles /\ Holds /\ SeenIsTrue
      /\ OneAtATime /\ PendingPlays /\ PlayingPresent
    BY DEF IInv
<1>3. queue \in Seq(Acts \X Tasks)
    BY <1>2 DEF TypeOK
<1>4. PICK a \in Acts, r \in Tasks : Head(queue) = <<a, r>>
    BY <1>1, <1>3
<1> DEFINE frame == Frame("run", a, r, FALSE)
<1>5. frame \in FrameSet /\ frame.pc = "run" /\ frame.act = a /\ Become(w, frame)
  <2>1. frame \in FrameSet /\ frame.pc = "run" /\ frame.act = a
      BY DEF Frame, FrameSet
  <2>2. Head(queue)[1] = a /\ Head(queue)[2] = r
      BY <1>4
  <2> QED
      BY <1>1, <2>1, <2>2
<1>6. w \in Threads /\ w \notin Clients
    BY ThreadsAssumption DEF Threads
<1> HIDE DEF frame
<1>7. /\ thread'[w] = frame
      /\ \A s \in Threads \ {w} : thread'[s] = thread[s]
      /\ thread' \in [Threads -> FrameSet]
      /\ \A b \in Acts : Busy(b)' = IF b = a THEN Busy(b) \cup {w} ELSE Busy(b) \ {w}
    BY <1>2, <1>5, <1>6, BusyBecome
<1>8. TypeOK'
    BY <1>1, <1>2, <1>3, <1>7 DEF TypeOK
<1>9. Roles'
    BY <1>2, <1>5, <1>6, <1>7 DEF Roles, At, Threads
<1>10. Holds'
    BY <1>1, <1>2, <1>5, <1>7 DEF Holds, Inside, At
<1>11. SeenIsTrue'
    BY <1>1, <1>2, <1>5, <1>7 DEF SeenIsTrue, At
<1>12. 1 \in Queued(a) /\ \A b \in Acts : 1 \in Queued(b) => b = a
    BY <1>1, <1>3, <1>4 DEF Queued
<1>13. \A b \in Acts : \A i : i \in Queued(b)' <=> i \in Nat \ {0} /\ i + 1 \in Queued(b)
    BY <1>1, <1>3, QueuedTail
<1>14. \A b \in Acts : w \notin Busy(b)
    BY <1>1 DEF Busy
<1>15. Queued(a) = {1} /\ Busy(a) = {}
    BY <1>2, <1>12 DEF OneAtATime
<1>16. Queued(a)' = {} /\ Busy(a)' = {w}
    BY <1>7, <1>13, <1>15
<1>17. \A b \in Acts \ {a} :
         /\ Busy(b)' = Busy(b)
         /\ \A i, j \in Queued(b)' : i = j
         /\ Queued(b)' = {} <=> Queued(b) = {}
  <2> SUFFICES ASSUME NEW b \in Acts \ {a}
               PROVE  /\ Busy(b)' = Busy(b)
                      /\ \A i, j \in Queued(b)' : i = j
                      /\ Queued(b)' = {} <=> Queued(b) = {}
      OBVIOUS
  <2>1. Busy(b)' = Busy(b)
      BY <1>7, <1>14
  <2>2. \A i \in Queued(b) : i \in Nat /\ i > 1
      BY <1>3, <1>12 DEF Queued
  <2>3. \A i, j \in Queued(b)' : i = j
    <3> SUFFICES ASSUME NEW i \in Queued(b)', NEW j \in Queued(b)' PROVE i = j
        OBVIOUS
    <3>1. i \in Nat /\ j \in Nat /\ i + 1 \in Queued(b) /\ j + 1 \in Queued(b)
        BY <1>13
    <3>2. i + 1 = j + 1
        BY <3>1, <1>2 DEF OneAtATime
    <3> QED
        BY <3>1, <3>2
  <2>4. ASSUME NEW i \in Queued(b) PROVE Queued(b)' # {}
    <3>1. i - 1 \in Nat \ {0} /\ (i - 1) + 1 = i
        BY <2>2
    <3> QED
        BY <3>1, <1>13
  <2>5. Queued(b) = {} => Queued(b)' = {}
      BY <1>13
  <2> QED
      BY <2>1, <2>3, <2>4, <2>5
<1>18. OneAtATime'
    BY <1>1, <1>2, <1>12, <1>16, <1>17 DEF OneAtATime
<1>19. PendingPlays'
    BY <1>1, <1>2 DEF PendingPlays
<1>20. PlayingPresent'
  <2> SUFFICES ASSUME NEW b \in playingNow, ~isShutdown
               PROVE  Queued(b)' \cup Busy(b)' # {}
      BY <1>1 DEF PlayingPresent
  <2>1. b \in Acts /\ Queued(b) \cup Busy(b) # {}
      BY <1>2 DEF TypeOK, PlayingPresent
  <2> QED
      BY <2>1, <1>16, <1>17
<1> QED
    BY <1>8, <1>9, <1>10, <1>11, <1>18, <1>19, <1>20 DEF IInv

LEMMA CompleteLookInv ==
    ASSUME IInv, NEW w \in Workers, CompleteLook(w)
    PROVE  IInv'
<1>1. PICK a \in Acts : a = thread[w].act
    BY DEF IInv, Roles, CompleteLook, At, Threads
<1> DEFINE frame == Frame("complete", a, Null, acts[a] = <<>>)
<1>2. /\ At(w, "run") /\ enter(w, a) /\ Become(w, frame)
      /\ UNCHANGED <<fresh, playingNow, acts, queue, isShutdown>>
    BY <1>1 DEF CompleteLook
<1>3. /\ frame \in FrameSet /\ frame.pc = "complete" /\ frame.act = a
      /\ frame.seen = (acts[a] = <<>>)
    BY DEF Frame, FrameSet
<1>4. /\ TypeOK /\ Roles /\ Holds /\ SeenIsTrue
      /\ OneAtATime /\ PendingPlays /\ PlayingPresent
    BY DEF IInv
<1>5. w \in Threads /\ w \notin Clients /\ ~Inside(w)
    BY <1>2, ThreadsAssumption DEF Threads, Inside, At
<1> HIDE DEF frame
<1>6. /\ thread'[w] = frame
      /\ \A s \in Threads \ {w} : thread'[s] = thread[s]
      /\ thread' \in [Threads -> FrameSet]
      /\ \A b \in Acts : Busy(b)' = IF b = a THEN Busy(b) \cup {w} ELSE Busy(b) \ {w}
    BY <1>2, <1>3, <1>4, <1>5, BusyBecome
<1>7. /\ monitor' \in [Acts -> Threads \cup {Null}]
      /\ \A s \in Threads : Inside(s) => thread[s].act # a
      /\ Holds'
    BY <1>2, <1>3, <1>4, <1>5, EnterState
<1>8. TypeOK'
    BY <1>2, <1>4, <1>6, <1>7 DEF TypeOK
<1>9. Roles'
    BY <1>3, <1>4, <1>5, <1>6 DEF Roles, At, Threads
<1>10. SeenIsTrue'
  <2>1. SeenIsTrue /\ playingNow' = playingNow /\ acts' = acts
      BY <1>2, <1>4
  <2> QED
      BY ONLY <1>3, <1>6, <2>1 DEF SeenIsTrue, At
<1>11. \A b \in Acts : w \in Busy(b) <=> b = a
    BY <1>1, <1>2 DEF Busy, At
<1>12. \A b \in Acts : Busy(b)' = Busy(b) /\ Queued(b)' = Queued(b)
    BY <1>2, <1>6, <1>11 DEF Queued
<1>13. OneAtATime'
    BY <1>2, <1>4, <1>12 DEF OneAtATime
<1>14. PendingPlays'
    BY <1>2, <1>4 DEF PendingPlays
<1>15. PlayingPresent'
    BY <1>2, <1>4, <1>12 DEF PlayingPresent, TypeOK
<1> QED
    BY <1>7, <1>8, <1>9, <1>10, <1>13, <1>14, <1>15 DEF IInv


\* The thread that completes an act is its only one in the executor.
LEMMA CompleterAlone ==
    ASSUME IInv, NEW w \in Workers, At(w, "complete"), NEW a \in Acts, a = thread[w].act
    PROVE  /\ w \in Threads /\ Inside(w)
           /\ Busy(a) = {w} /\ Queued(a) = {} /\ a \in playingNow
           /\ \A b \in Acts \ {a} : w \notin Busy(b)
<1>1. w \in Busy(a) /\ \A b \in Acts \ {a} : w \notin Busy(b)
    BY DEF Busy, At
<1> QED
    BY <1>1 DEF IInv, OneAtATime, Threads, Inside

LEMMA CompleteRestInv ==
    ASSUME IInv, NEW w \in Workers, CompleteRest(w)
    PROVE  IInv'
<1>0. PICK a \in Acts : a = thread[w].act
    BY DEF IInv, Roles, CompleteRest, At, Threads
<1>1. /\ At(w, "complete") /\ thread[w].seen
      /\ playingNow' = playingNow \ {a} /\ leave(w)
      /\ UNCHANGED <<fresh, acts, queue, isShutdown>>
    BY <1>0 DEF CompleteRest
<1>2. /\ TypeOK /\ Roles /\ Holds /\ SeenIsTrue
      /\ OneAtATime /\ PendingPlays /\ PlayingPresent
    BY DEF IInv
<1>3. /\ w \in Threads /\ Inside(w)
      /\ Busy(a) = {w} /\ Queued(a) = {} /\ a \in playingNow
      /\ \A b \in Acts \ {a} : w \notin Busy(b)
    BY <1>0, <1>1, CompleterAlone
<1>4. acts[a] = <<>>
    BY <1>0, <1>1, <1>2, <1>3 DEF SeenIsTrue
<1>5. /\ monitor' \in [Acts -> Threads \cup {Null}]
      /\ thread' \in [Threads -> FrameSet]
      /\ thread'[w] = Idle
      /\ \A s \in Threads \ {w} : /\ thread'[s] = thread[s]
                                  /\ Inside(s) => thread[s].act # a
      /\ \A b \in Acts : Busy(b)' = Busy(b) \ {w}
      /\ Roles' /\ Holds'
    BY <1>0, <1>1, <1>2, <1>3, LeaveState
<1>6. TypeOK'
    BY <1>1, <1>2, <1>5 DEF TypeOK
<1>7. SeenIsTrue'
    BY <1>1, <1>2, <1>5, IdleType DEF SeenIsTrue, At, Inside
<1>8. /\ Busy(a)' = {} /\ \A b \in Acts \ {a} : Busy(b)' = Busy(b)
      /\ \A b \in Acts : Queued(b)' = Queued(b)
    BY <1>1, <1>3, <1>5 DEF Queued
<1>9. OneAtATime'
    BY <1>1, <1>2, <1>3, <1>8 DEF OneAtATime
<1>10. PendingPlays'
    BY <1>1, <1>2, <1>4 DEF PendingPlays
<1>11. PlayingPresent'
    BY <1>1, <1>2, <1>8 DEF PlayingPresent, TypeOK
<1> QED
    BY <1>5, <1>6, <1>7, <1>9, <1>10, <1>11 DEF IInv

LEMMA CompleteNextInv ==
    ASSUME IInv, NEW w \in Workers, CompleteNext(w)
    PROVE  IInv'
<1>0. PICK a \in Acts : a = thread[w].act
    BY DEF IInv, Roles, CompleteNext, At, Threads
<1>1. /\ At(w, "complete") /\ ~thread[w].seen
      /\ execute(a, Head(acts[a])) /\ acts' = [acts EXCEPT ![a] = Tail(@)] /\ leave(w)
      /\ UNCHANGED <<fresh, playingNow, isShutdown>>
    BY <1>0 DEF CompleteNext
<1>2. /\ TypeOK /\ Roles /\ Holds /\ SeenIsTrue
      /\ OneAtATime /\ PendingPlays /\ PlayingPresent
    BY DEF IInv
<1>3. /\ w \in Threads /\ Inside(w)
      /\ Busy(a) = {w} /\ Queued(a) = {} /\ a \in playingNow
      /\ \A b \in Acts \ {a} : w \notin Busy(b)
    BY <1>0, <1>1, CompleterAlone
<1>4. acts \in [Acts -> Seq(Tasks)] /\ acts[a] # <<>>
    BY <1>0, <1>1, <1>2, <1>3 DEF SeenIsTrue, TypeOK
<1>5. PICK r \in Tasks : r = Head(acts[a])
    BY <1>4
<1>6. /\ acts' \in [Acts -> Seq(Tasks)]
      /\ \A b \in Acts \ {a} : acts'[b] = acts[b]
    BY <1>1, <1>4
<1>7. /\ monitor' \in [Acts -> Threads \cup {Null}]
      /\ thread' \in [Threads -> FrameSet]
      /\ thread'[w] = Idle
      /\ \A s \in Threads \ {w} : /\ thread'[s] = thread[s]
                                  /\ Inside(s) => thread[s].act # a
      /\ \A b \in Acts : Busy(b)' = Busy(b) \ {w}
      /\ Roles' /\ Holds'
    BY <1>0, <1>1, <1>2, <1>3, LeaveState
<1>8. /\ queue' \in Seq(Acts \X Tasks)
      /\ \A b \in Acts \ {a} : Queued(b)' = Queued(b)
      /\ \A i, j \in Queued(a)' : i = j
      /\ ~isShutdown => Queued(a)' # {}
    BY <1>1, <1>2, <1>3, <1>5, ExecuteState
<1>9. TypeOK'
    BY <1>1, <1>2, <1>6, <1>7, <1>8 DEF TypeOK
<1>10. SeenIsTrue'
  <2>1. \A s \in Threads \ {w} : Inside(s) => thread[s].act \in Acts
      BY <1>2 DEF Roles, Inside, At
  <2> QED
      BY <1>1, <1>2, <1>6, <1>7, <2>1, IdleType DEF SeenIsTrue, At, Inside
<1>11. Busy(a)' = {} /\ \A b \in Acts \ {a} : Busy(b)' = Busy(b)
  <2>1. \A b \in Acts : Busy(b)' = Busy(b) \ {w}
      BY <1>7
  <2> QED
      BY <1>3, <2>1
<1>12. OneAtATime'
    BY <1>1, <1>2, <1>3, <1>8, <1>11 DEF OneAtATime
<1>13. PendingPlays'
    BY <1>1, <1>2, <1>3, <1>6 DEF PendingPlays
<1>14. PlayingPresent'
    BY <1>1, <1>2, <1>8, <1>11 DEF PlayingPresent, TypeOK
<1> QED
    BY <1>7, <1>9, <1>10, <1>12, <1>13, <1>14 DEF IInv

LEMMA ShutdownInv ==
    ASSUME IInv, shutdown
    PROVE  IInv'
<1>1. /\ isShutdown' = TRUE /\ queue' = <<>>
      /\ UNCHANGED <<fresh, playingNow, acts, monitor, thread>>
    BY DEF shutdown
<1>2. /\ TypeOK /\ Roles /\ Holds /\ SeenIsTrue
      /\ OneAtATime /\ PendingPlays /\ PlayingPresent
    BY DEF IInv
<1>3. TypeOK'
    BY <1>1, <1>2 DEF TypeOK
<1>4. Roles' /\ Holds' /\ SeenIsTrue'
    BY <1>1, <1>2 DEF Roles, Holds, SeenIsTrue, Inside, At
<1>5. \A a \in Acts : Queued(a)' = {} /\ Busy(a)' = Busy(a)
  <2>1. DOMAIN queue' = {}
      BY <1>1
  <2> QED
      BY <1>1, <2>1 DEF Queued, Busy, At
<1>6. OneAtATime'
    BY <1>1, <1>2, <1>5 DEF OneAtATime
<1>7. PendingPlays' /\ PlayingPresent'
    BY <1>1, <1>2 DEF PendingPlays, PlayingPresent
<1> QED
    BY <1>3, <1>4, <1>6, <1>7 DEF IInv

-----------------------------------------------------------------------------

LEMMA NextInv == IInv /\ [Next]_vars => IInv'
<1> SUFFICES ASSUME IInv, [Next]_vars PROVE IInv'
    OBVIOUS
<1>1. CASE UNCHANGED vars
  <2>1. UNCHANGED <<fresh, playingNow, acts, queue, isShutdown, monitor, thread>>
      BY <1>1 DEF vars
  <2>2. \A a : Queued(a)' = Queued(a) /\ Busy(a)' = Busy(a)
      BY <2>1 DEF Queued, Busy, At
  <2>3. TypeOK' /\ Roles' /\ Holds' /\ SeenIsTrue'
      BY <2>1 DEF IInv, TypeOK, Roles, Holds, SeenIsTrue, Inside, At
  <2>4. OneAtATime'
      BY <2>1, <2>2 DEF IInv, OneAtATime
  <2>5. PendingPlays' /\ PlayingPresent'
      BY <2>1, <2>2 DEF IInv, PendingPlays, PlayingPresent
  <2> QED
      BY <2>3, <2>4, <2>5 DEF IInv
<1>2. CASE \E t \in Clients, a \in Acts, r \in Tasks : SubmitLook(t, a, r)
    BY <1>2, SubmitLookInv
<1>3. CASE \E t \in Clients : SubmitExecute(t) \/ SubmitPend(t)
    BY <1>3, SubmitExecuteInv, SubmitPendInv
<1>4. CASE \E w \in Workers : Work(w)
    BY <1>4, TakeInv, CompleteLookInv, CompleteRestInv, CompleteNextInv DEF Work
<1>5. CASE shutdown
    BY <1>5, ShutdownInv
<1> QED
    BY <1>1, <1>2, <1>3, <1>4, <1>5 DEF Next

\* The inductive invariant holds in every reachable state of the pool.
THEOREM Invariance == Spec => []IInv
    BY InitInv, NextInv, PTL DEF Spec

\* Every variable of the pool keeps its type.
THEOREM TypeCorrect == Spec => []TypeOK
<1>1. IInv => TypeOK
    BY DEF IInv
<1> QED
    BY <1>1, Invariance, PTL

\* Two runnables of one act are never in the executor together, so they never
\* run side by side, with any number of threads.
THEOREM ActsAreSerial == Spec => []OneAtATime
<1>1. IInv => OneAtATime
    BY DEF IInv
<1> QED
    BY <1>1, Invariance, PTL

\* A pending runnable always has a complete() before it that hands it on.
THEOREM PendingIsHandedOn == Spec => []NobodyStranded
<1>1. IInv => NobodyStranded
    BY DEF IInv, PendingPlays, PlayingPresent, NobodyStranded
<1> QED
    BY <1>1, Invariance, PTL

-----------------------------------------------------------------------------
(* The pool implements ActorMailbox *)

\* What a worker runs is a runnable.
RunnersHaveTasks == \A w \in Workers : At(w, "run") => thread[w].task \in Tasks

\* Only Take() makes a worker run, and it takes what is in the queue.
LEMMA RunnersHaveTasksInv ==
    ASSUME IInv, RunnersHaveTasks, [Next]_vars
    PROVE  RunnersHaveTasks'
<1>1. CASE UNCHANGED vars
    BY <1>1 DEF RunnersHaveTasks, At, vars
<1>2. ASSUME NEW t \in Threads, NEW frame, Become(t, frame), frame.pc # "run"
      PROVE  RunnersHaveTasks'
    BY <1>2 DEF RunnersHaveTasks, At, Become, IInv, TypeOK, Threads
<1>3. ASSUME NEW t \in Clients, NEW a \in Acts, NEW r \in Tasks, SubmitLook(t, a, r)
      PROVE  RunnersHaveTasks'
    BY <1>2, <1>3 DEF SubmitLook, Frame, Threads
<1>4. ASSUME NEW t \in Threads, leave(t)
      PROVE  RunnersHaveTasks'
    BY <1>2, <1>4, IdleType DEF leave
<1>5. ASSUME NEW w \in Workers, Take(w)
      PROVE  RunnersHaveTasks'
  <2>1. queue \in Seq(Acts \X Tasks) /\ queue # <<>>
        /\ thread' = [thread EXCEPT ![w] = Frame("run", Head(queue)[1], Head(queue)[2], FALSE)]
      BY <1>5 DEF Take, Become, IInv, TypeOK
  <2>2. Head(queue)[2] \in Tasks
      BY <2>1
  <2> QED
      BY <2>1, <2>2 DEF RunnersHaveTasks, At, Frame, IInv, TypeOK, Threads
<1>6. ASSUME NEW w \in Workers, CompleteLook(w)
      PROVE  RunnersHaveTasks'
    BY <1>2, <1>6 DEF CompleteLook, Frame, Threads
<1>7. CASE shutdown
    BY <1>7 DEF shutdown, RunnersHaveTasks, At
<1> QED
    BY <1>1, <1>3, <1>4, <1>5, <1>6, <1>7
       DEF Next, Work, SubmitExecute, SubmitPend, CompleteRest, CompleteNext, Threads

\* What InExecutor and Running are in a state of the invariant.
LEMMA InExecutorIs ==
    ASSUME TypeOK, OneAtATime, NEW a \in Acts
    PROVE  /\ InExecutor(a) \in Seq(Tasks)
           /\ Queued(a) = {} => InExecutor(a) = <<>>
           /\ \A i \in Queued(a) : InExecutor(a) = <<queue[i][2]>>
<1>1. \A i \in Queued(a) : queue[i][2] \in Tasks
    BY DEF TypeOK, Queued
<1>2. ASSUME NEW i \in Queued(a) PROVE InExecutor(a) = <<queue[i][2]>>
    BY <1>2 DEF InExecutor, OneAtATime
<1>3. Queued(a) = {} => InExecutor(a) = <<>>
    BY DEF InExecutor
<1>4. InExecutor(a) \in Seq(Tasks)
  <2>1. CASE Queued(a) = {}
      BY <1>3, <2>1
  <2>2. ASSUME NEW i \in Queued(a) PROVE InExecutor(a) \in Seq(Tasks)
    <3>1. queue[i][2] \in Tasks /\ InExecutor(a) = <<queue[i][2]>>
        BY <1>1, <1>2
    <3> QED
        BY <3>1
  <2> QED
      BY <2>1, <2>2
<1> QED
    BY <1>2, <1>3, <1>4

LEMMA RunningIs ==
    ASSUME OneAtATime, NEW a \in Acts
    PROVE  /\ \A w \in Workers : At(w, "run") /\ thread[w].act = a => Running(a) = thread[w].task
           /\ (\A w \in Workers : ~(At(w, "run") /\ thread[w].act = a)) => Running(a) = Null
<1>1. \A v, w \in Workers : /\ At(v, "run") /\ thread[v].act = a
                            /\ At(w, "run") /\ thread[w].act = a
                            => v = w
    BY DEF OneAtATime, Busy, At
<1> QED
    BY <1>1 DEF Running

\* An act's mailbox.
Waiting(a) == InExecutor(a) \o acts[a]

\* A step that changes neither is no step of ActorMailbox.
LEMMA SameMailboxes ==
    ASSUME \A a \in Acts : Waiting(a)' = Waiting(a) /\ Running(a)' = Running(a),
           isShutdown' = isShutdown
    PROVE  UNCHANGED Mailbox!mailboxVars
    BY DEF Mailbox!mailboxVars, Waiting

\* A step of the pool that leaves the workers, or those that run, as they are.
LEMMA SameRunning ==
    ASSUME \A w \in Workers : /\ At(w, "run")' <=> At(w, "run")
                              /\ At(w, "run") => thread'[w] = thread[w]
    PROVE  \A a \in Acts : Running(a)' = Running(a)
<1>1. ASSUME NEW a \in Acts PROVE Running(a)' = Running(a)
  <2> DEFINE Runs(w) == w \in Workers /\ At(w, "run") /\ thread[w].act = a
  <2>1. \A w : Runs(w)' <=> Runs(w)
      OBVIOUS
  <2> QED
      BY <2>1 DEF Running
<1> QED
    BY <1>1

\* What leave() does to who runs: nothing, as the thread was inside a call.
LEMMA LeaveRunning ==
    ASSUME IInv, NEW t \in Threads, Inside(t), leave(t)
    PROVE  \A a \in Acts : Running(a)' = Running(a)
<1>1. thread'[t] = Idle /\ \A s \in Threads \ {t} : thread'[s] = thread[s]
    BY LeaveState DEF IInv
<1>2. ~At(t, "run") /\ ~At(t, "run")'
    BY <1>1, IdleType DEF At, Inside
<1> QED
    BY <1>1, <1>2, SameRunning DEF At, Threads

LEMMA SubmitLookEffect ==
    ASSUME IInv, NEW t \in Clients, NEW a \in Acts, NEW r \in Tasks, SubmitLook(t, a, r)
    PROVE  \A b \in Acts : Waiting(b)' = Waiting(b) /\ Running(b)' = Running(b)
<1>1. \A b \in Acts : Waiting(b)' = Waiting(b)
    BY DEF SubmitLook, Waiting, InExecutor, Queued
<1>2. \A w \in Workers : thread'[w] = thread[w]
    BY ThreadsAssumption DEF SubmitLook, Become, IInv, TypeOK, Threads
<1> QED
    BY <1>1, <1>2, SameRunning DEF At

\* A runnable that goes to the executor when its act is not there is behind an empty
\* queue; after shutdown it goes nowhere.
LEMMA ExecuteWaits ==
    ASSUME TypeOK, OneAtATime, NEW b \in Acts, NEW r \in Tasks, execute(b, r), Queued(b) = {}
    PROVE  /\ \A a \in Acts \ {b} : InExecutor(a)' = InExecutor(a)
           /\ InExecutor(b) = <<>>
           /\ InExecutor(b)' = IF isShutdown THEN <<>> ELSE <<r>>
<1>1. CASE isShutdown
    BY <1>1 DEF execute, InExecutor, Queued
<1>2. CASE ~isShutdown
  <2>1. queue \in Seq(Acts \X Tasks) /\ queue' = Append(queue, <<b, r>>)
      BY <1>2 DEF execute, TypeOK
  <2>2. \A a \in Acts :
          Queued(a)' = IF a = b THEN Queued(a) \cup {Len(queue) + 1} ELSE Queued(a)
      BY <2>1, QueuedAppend
  <2>3. /\ \A i \in DOMAIN queue : queue'[i] = queue[i]
        /\ queue'[Len(queue) + 1] = <<b, r>>
      BY <2>1
  <2>4. Queued(b)' = {Len(queue) + 1} /\ \A a \in Acts \ {b} : Queued(a)' = Queued(a)
      BY <2>2
  <2>5. InExecutor(b)' = <<r>> /\ InExecutor(b) = <<>>
      BY <2>3, <2>4 DEF InExecutor
  <2>6. ASSUME NEW a \in Acts \ {b} PROVE InExecutor(a)' = InExecutor(a)
    <3>1. CASE Queued(a) = {}
        BY <2>4, <3>1 DEF InExecutor
    <3>2. ASSUME NEW i \in Queued(a) PROVE InExecutor(a)' = InExecutor(a)
      <4>1. Queued(a) = {i} /\ Queued(a)' = {i}
          BY <2>4, <3>2 DEF OneAtATime
      <4>2. InExecutor(a) = <<queue[i][2]>> /\ InExecutor(a)' = <<queue'[i][2]>>
          BY <4>1 DEF InExecutor
      <4>3. queue'[i] = queue[i]
          BY <2>3, <3>2 DEF Queued
      <4> QED
          BY <4>2, <4>3
    <3> QED
        BY <3>1, <3>2
  <2> QED
      BY <1>2, <2>5, <2>6
<1> QED
    BY <1>1, <1>2

LEMMA SubmitExecuteEffect ==
    ASSUME IInv, NEW t \in Clients, SubmitExecute(t)
    PROVE  \E a \in Acts, r \in Tasks :
              /\ a = thread[t].act /\ r = thread[t].task
              /\ Waiting(a) = <<>> /\ Running(a) = Null
              /\ Waiting(a)' = IF isShutdown THEN <<>> ELSE <<r>>
              /\ \A b \in Acts \ {a} : Waiting(b)' = Waiting(b)
              /\ \A b \in Acts : Running(b)' = Running(b)
<1>0. PICK a \in Acts, r \in Tasks : a = thread[t].act /\ r = thread[t].task
    BY DEF IInv, Roles, SubmitExecute, At, Threads
<1>1. At(t, "submit") /\ ~thread[t].seen /\ execute(a, r) /\ leave(t) /\ UNCHANGED <<acts, isShutdown>>
    BY <1>0 DEF SubmitExecute
<1>2. t \in Threads /\ Inside(t)
    BY <1>1 DEF Threads, Inside
<1>3. a \notin playingNow
    BY <1>0, <1>1, <1>2 DEF IInv, SeenIsTrue
<1>4. Queued(a) = {} /\ Busy(a) = {} /\ acts[a] = <<>>
    BY <1>3 DEF IInv, OneAtATime, PendingPlays
<1>5. Running(a) = Null /\ \A b \in Acts : Running(b)' = Running(b)
    BY <1>1, <1>2, <1>4, LeaveRunning DEF Running, Busy, At
<1>6. /\ \A b \in Acts \ {a} : InExecutor(b)' = InExecutor(b)
      /\ InExecutor(a) = <<>>
      /\ InExecutor(a)' = IF isShutdown THEN <<>> ELSE <<r>>
    BY <1>1, <1>4, ExecuteWaits DEF IInv
<1>7. /\ Waiting(a) = <<>> /\ Waiting(a)' = IF isShutdown THEN <<>> ELSE <<r>>
      /\ \A b \in Acts \ {a} : Waiting(b)' = Waiting(b)
  <2>1. <<>> \o <<>> = <<>> /\ <<r>> \o <<>> = <<r>>
      OBVIOUS
  <2> QED
      BY <1>1, <1>4, <1>6, <2>1 DEF Waiting
<1> QED
    BY <1>0, <1>5, <1>7

LEMMA SubmitPendEffect ==
    ASSUME IInv, NEW t \in Clients, SubmitPend(t)
    PROVE  \E a \in Acts, r \in Tasks :
              /\ a = thread[t].act /\ r = thread[t].task
              /\ Waiting(a) \in Seq(Tasks) /\ Waiting(a)' = Append(Waiting(a), r)
              /\ \A b \in Acts \ {a} : Waiting(b)' = Waiting(b)
              /\ \A b \in Acts : Running(b)' = Running(b)
<1>0. PICK a \in Acts, r \in Tasks : a = thread[t].act /\ r = thread[t].task
    BY DEF IInv, Roles, SubmitPend, At, Threads
<1>1. /\ At(t, "submit") /\ leave(t) /\ UNCHANGED <<queue, isShutdown>>
      /\ acts' = [acts EXCEPT ![a] = Append(@, r)]
    BY <1>0 DEF SubmitPend, pend
<1>2. t \in Threads /\ Inside(t)
    BY <1>1 DEF Threads, Inside
<1>3. \A b \in Acts : Running(b)' = Running(b)
    BY <1>1, <1>2, LeaveRunning
<1>4. \A b \in Acts : InExecutor(b)' = InExecutor(b)
    BY <1>1 DEF InExecutor, Queued
<1>5. /\ acts[a] \in Seq(Tasks) /\ acts'[a] = Append(acts[a], r)
      /\ \A b \in Acts \ {a} : acts'[b] = acts[b]
    BY <1>1 DEF IInv, TypeOK
<1>6. InExecutor(a) \in Seq(Tasks)
    BY InExecutorIs DEF IInv
<1>7. Waiting(a) \in Seq(Tasks) /\ Waiting(a)' = Append(Waiting(a), r)
  <2>1. /\ InExecutor(a) \o acts[a] \in Seq(Tasks)
        /\ InExecutor(a) \o Append(acts[a], r) = Append(InExecutor(a) \o acts[a], r)
      BY <1>5, <1>6
  <2> QED
      BY <1>4, <1>5, <2>1 DEF Waiting
<1>8. \A b \in Acts \ {a} : Waiting(b)' = Waiting(b)
    BY <1>4, <1>5 DEF Waiting
<1> QED
    BY <1>0, <1>3, <1>7, <1>8

LEMMA TakeEffect ==
    ASSUME IInv, NEW w \in Workers, Take(w)
    PROVE  \E a \in Acts, r \in Tasks :
              /\ Waiting(a)' \in Seq(Tasks) /\ Waiting(a) = <<r>> \o Waiting(a)'
              /\ Running(a) = Null /\ Running(a)' = r
              /\ \A b \in Acts \ {a} : Waiting(b)' = Waiting(b) /\ Running(b)' = Running(b)
<1>1. /\ At(w, "idle") /\ queue # <<>> /\ queue' = Tail(queue)
      /\ Become(w, Frame("run", Head(queue)[1], Head(queue)[2], FALSE))
      /\ UNCHANGED <<acts, isShutdown>>
    BY DEF Take
<1>2. TypeOK /\ OneAtATime /\ queue \in Seq(Acts \X Tasks) /\ acts \in [Acts -> Seq(Tasks)]
    BY DEF IInv, TypeOK
<1>3. TypeOK' /\ OneAtATime'
    BY TakeInv DEF IInv
<1>4. PICK a \in Acts, r \in Tasks : Head(queue) = <<a, r>>
    BY <1>1, <1>2
<1>5. /\ thread'[w] = Frame("run", a, r, FALSE)
      /\ \A v \in Workers \ {w} : thread'[v] = thread[v]
  <2>1. Head(queue)[1] = a /\ Head(queue)[2] = r
      BY <1>4
  <2> QED
      BY <1>1, <1>2, <2>1 DEF Become, TypeOK, Threads
<1>6. /\ 1 \in Queued(a) /\ queue[1] = <<a, r>>
      /\ \A b \in Acts : 1 \in Queued(b) => b = a
    BY <1>1, <1>2, <1>4 DEF Queued
<1>7. Queued(a) = {1} /\ Busy(a) = {}
  <2>1. 1 \in Queued(a)
      BY <1>6
  <2>2. /\ \A i, j \in Queued(a) : i = j
        /\ Queued(a) = {} \/ Busy(a) = {}
      BY <1>2, Zenon DEF OneAtATime
  <2> QED
      BY ONLY <2>1, <2>2
<1>8. /\ \A b \in Acts : \A i : i \in Queued(b)' <=> i \in Nat \ {0} /\ i + 1 \in Queued(b)
      /\ \A i \in DOMAIN queue' : queue'[i] = queue[i + 1]
  <2>1. \A b \in Acts : \A i : i \in Queued(b)' <=> i \in Nat \ {0} /\ i + 1 \in Queued(b)
      BY <1>1, <1>2, QueuedTail
  <2>2. \A i \in DOMAIN queue' : queue'[i] = queue[i + 1]
      BY <1>1, <1>2
  <2> QED
      BY <2>1, <2>2
\* The runnable was the first of its act's mailbox, and is not there any more.
<1>9. InExecutor(a) = <<r>> /\ InExecutor(a)' = <<>>
  <2>1. InExecutor(a) = <<r>>
      BY <1>2, <1>6, InExecutorIs
  <2>2. Queued(a)' = {}
      BY <1>7, <1>8
  <2> QED
      BY <2>1, <2>2 DEF InExecutor
<1>10. ASSUME NEW b \in Acts \ {a} PROVE InExecutor(b)' = InExecutor(b)
  <2>1. CASE Queued(b) = {}
    <3>1. Queued(b)' = {}
        BY <1>8, <2>1
    <3> QED
        BY <2>1, <3>1 DEF InExecutor
  <2>2. CASE Queued(b) # {}
    <3>1. PICK i \in Queued(b) : TRUE
        BY <2>2
    <3>2. i - 1 \in Nat \ {0} /\ (i - 1) + 1 = i
        BY <3>1, <1>2, <1>6 DEF Queued
    <3>3. i - 1 \in Queued(b)'
        BY <1>8, <3>1, <3>2
    <3>4. queue'[i - 1] = queue[i]
        BY <1>8, <3>2, <3>3 DEF Queued
    <3>5. InExecutor(b)' = <<queue'[i - 1][2]>>
      <4> DEFINE j == CHOOSE k \in Queued(b)' : TRUE
      <4>1. j \in Queued(b)' /\ j = i - 1
          BY <1>3, <3>3 DEF OneAtATime
      <4> QED
          BY <4>1, <3>3 DEF InExecutor
    <3> QED
        BY <1>2, <3>1, <3>4, <3>5, InExecutorIs
  <2> QED
      BY <2>1, <2>2
<1>11. Waiting(a)' \in Seq(Tasks) /\ Waiting(a) = <<r>> \o Waiting(a)'
  <2>1. acts[a] \in Seq(Tasks) /\ Waiting(a) = <<r>> \o acts[a] /\ Waiting(a)' = <<>> \o acts[a]
      BY <1>1, <1>2, <1>9 DEF Waiting
  <2>2. <<>> \o acts[a] = acts[a]
      BY <2>1
  <2> QED
      BY <2>1, <2>2
<1>12. \A b \in Acts \ {a} : Waiting(b)' = Waiting(b)
    BY <1>1, <1>10 DEF Waiting
<1>13. Running(a) = Null /\ Running(a)' = r
  <2>1. Running(a) = Null
      BY <1>2, <1>7, RunningIs DEF Busy, At
  <2>2. (At(w, "run") /\ thread[w].act = a)' /\ thread'[w].task = r
      BY <1>5 DEF At, Frame
  <2>3. \A v \in Workers \ {w} : ~(At(v, "run") /\ thread[v].act = a)'
      BY <1>5, <1>7 DEF At, Busy
  <2>4. Running(a)' = thread'[w].task
      BY <2>2, <2>3 DEF Running
  <2> QED
      BY <2>1, <2>2, <2>4
<1>14. ASSUME NEW b \in Acts \ {a} PROVE Running(b)' = Running(b)
  <2> DEFINE RunsB(v) == v \in Workers /\ At(v, "run") /\ thread[v].act = b
  <2>1. ~RunsB(w) /\ ~RunsB(w)'
      BY <1>1, <1>5 DEF At, Frame
  <2>2. \A v \in Workers \ {w} : /\ RunsB(v)' <=> RunsB(v)
                                 /\ thread'[v] = thread[v]
      BY <1>5 DEF At
  <2>3. \A v : RunsB(v)' <=> RunsB(v)
      BY <2>1, <2>2
  <2>4. \A v : RunsB(v) => thread'[v] = thread[v]
      BY <2>1, <2>2
  <2> QED
      BY <2>3, <2>4 DEF Running
<1> QED
    BY <1>11, <1>12, <1>13, <1>14

LEMMA CompleteLookEffect ==
    ASSUME IInv, RunnersHaveTasks, NEW w \in Workers, CompleteLook(w)
    PROVE  \E a \in Acts :
              /\ a = thread[w].act /\ thread[w].task \in Tasks
              /\ Running(a) = thread[w].task /\ Running(a)' = Null
              /\ \A b \in Acts \ {a} : Running(b)' = Running(b)
              /\ \A b \in Acts : Waiting(b)' = Waiting(b)
<1>1. PICK a \in Acts : a = thread[w].act
    BY DEF IInv, Roles, CompleteLook, At, Threads
<1>2. /\ At(w, "run") /\ UNCHANGED <<acts, queue, isShutdown>>
      /\ Become(w, Frame("complete", a, Null, acts[a] = <<>>))
    BY <1>1 DEF CompleteLook
<1>3. /\ thread'[w] = Frame("complete", a, Null, acts[a] = <<>>)
      /\ \A v \in Workers \ {w} : thread'[v] = thread[v]
    BY <1>2 DEF Become, IInv, TypeOK, Threads
<1>4. \A b \in Acts : Waiting(b)' = Waiting(b)
    BY <1>2 DEF Waiting, InExecutor, Queued
<1>5. Running(a) = thread[w].task /\ thread[w].task \in Tasks
  <2>1. Running(a) = thread[w].task
      BY <1>1, <1>2, RunningIs DEF IInv
  <2> QED
      BY <1>2, <2>1 DEF RunnersHaveTasks
<1>6. Running(a)' = Null
  <2>1. \A v \in Workers \ {w} : ~(At(v, "run") /\ thread[v].act = a)
      BY <1>1, <1>2 DEF IInv, OneAtATime, Busy, At
  <2>2. \A v \in Workers : ~(At(v, "run") /\ thread[v].act = a)'
      BY <1>3, <2>1 DEF At, Frame
  <2> QED
      BY <2>2 DEF Running
<1>7. ASSUME NEW b \in Acts \ {a} PROVE Running(b)' = Running(b)
  <2> DEFINE RunsB(v) == v \in Workers /\ At(v, "run") /\ thread[v].act = b
  <2>1. ~RunsB(w) /\ ~RunsB(w)'
      BY <1>1, <1>3 DEF At, Frame
  <2>2. \A v : RunsB(v)' <=> RunsB(v)
      BY <1>3, <2>1 DEF At
  <2>3. \A v : RunsB(v) => thread'[v] = thread[v]
      BY <1>3, <2>1
  <2> QED
      BY <2>2, <2>3 DEF Running
<1> QED
    BY <1>1, <1>4, <1>5, <1>6, <1>7

LEMMA CompleteRestEffect ==
    ASSUME IInv, NEW w \in Workers, CompleteRest(w)
    PROVE  \A a \in Acts : Waiting(a)' = Waiting(a) /\ Running(a)' = Running(a)
<1>1. w \in Threads /\ Inside(w) /\ leave(w) /\ UNCHANGED <<acts, queue, isShutdown>>
    BY DEF CompleteRest, Threads, Inside
<1>2. \A a \in Acts : Waiting(a)' = Waiting(a)
    BY <1>1 DEF Waiting, InExecutor, Queued
<1>3. \A a \in Acts : Running(a)' = Running(a)
    BY <1>1, LeaveRunning
<1> QED
    BY <1>2, <1>3

LEMMA CompleteNextEffect ==
    ASSUME IInv, NEW w \in Workers, CompleteNext(w)
    PROVE  \E a \in Acts :
              /\ Running(a) = Null /\ Waiting(a) \in Seq(Tasks) /\ Waiting(a) # <<>>
              /\ Waiting(a)' = IF isShutdown THEN Tail(Waiting(a)) ELSE Waiting(a)
              /\ \A b \in Acts \ {a} : Waiting(b)' = Waiting(b)
              /\ \A b \in Acts : Running(b)' = Running(b)
<1>0. PICK a \in Acts : a = thread[w].act
    BY DEF IInv, Roles, CompleteNext, At, Threads
<1>1. /\ At(w, "complete") /\ ~thread[w].seen
      /\ execute(a, Head(acts[a])) /\ acts' = [acts EXCEPT ![a] = Tail(@)] /\ leave(w)
      /\ UNCHANGED isShutdown
    BY <1>0 DEF CompleteNext
<1>2. w \in Threads /\ Inside(w) /\ Queued(a) = {}
    BY <1>0, <1>1, CompleterAlone
<1>3. /\ acts[a] \in Seq(Tasks) /\ acts[a] # <<>> /\ acts'[a] = Tail(acts[a])
      /\ \A b \in Acts \ {a} : acts'[b] = acts[b]
    BY <1>0, <1>1, <1>2 DEF IInv, SeenIsTrue, TypeOK
<1>4. PICK r \in Tasks : r = Head(acts[a])
    BY <1>3
<1>5. \A b \in Acts : Running(b)' = Running(b)
    BY <1>1, <1>2, LeaveRunning
<1>6. /\ \A b \in Acts \ {a} : InExecutor(b)' = InExecutor(b)
      /\ InExecutor(a) = <<>>
      /\ InExecutor(a)' = IF isShutdown THEN <<>> ELSE <<r>>
    BY <1>1, <1>2, <1>4, ExecuteWaits DEF IInv
<1>7. \A b \in Acts \ {a} : Waiting(b)' = Waiting(b)
    BY <1>3, <1>6 DEF Waiting
<1>8. Waiting(a) = acts[a]
    BY <1>3, <1>6 DEF Waiting
<1>9. Waiting(a)' = IF isShutdown THEN Tail(Waiting(a)) ELSE Waiting(a)
  <2>1. <<>> \o Tail(acts[a]) = Tail(acts[a]) /\ <<r>> \o Tail(acts[a]) = acts[a]
      BY <1>3, <1>4
  <2> QED
      BY <1>3, <1>6, <1>8, <2>1 DEF Waiting
<1>10. Running(a) = Null
  <2>1. \A v \in Workers : ~(At(v, "run") /\ thread[v].act = a)
      BY <1>0, <1>1 DEF IInv, OneAtATime, Busy, At
  <2> QED
      BY <2>1 DEF Running
<1> QED
    BY <1>3, <1>5, <1>7, <1>8, <1>9, <1>10

LEMMA ShutdownEffect ==
    ASSUME IInv, shutdown
    PROVE  \A a \in Acts :
              /\ Running(a)' = Running(a)
              /\ Queued(a) = {} => Waiting(a)' = Waiting(a)
              /\ Queued(a) # {} => /\ Running(a) = Null /\ Waiting(a) # <<>>
                                   /\ Waiting(a) \in Seq(Tasks)
                                   /\ Waiting(a)' = Tail(Waiting(a))
<1>1. isShutdown' = TRUE /\ queue' = <<>> /\ UNCHANGED <<acts, thread>>
    BY DEF shutdown
<1>2. \A a \in Acts : Running(a)' = Running(a)
    BY <1>1 DEF Running, At
<1>3. \A a \in Acts : InExecutor(a)' = <<>>
    BY <1>1 DEF InExecutor, Queued
<1>4. ASSUME NEW a \in Acts, Queued(a) = {} PROVE Waiting(a)' = Waiting(a)
    BY <1>1, <1>3, <1>4, InExecutorIs DEF Waiting, IInv
<1>5. ASSUME NEW a \in Acts, Queued(a) # {}
      PROVE  /\ Running(a) = Null /\ Waiting(a) # <<>> /\ Waiting(a) \in Seq(Tasks)
             /\ Waiting(a)' = Tail(Waiting(a))
  <2>1. PICK i \in Queued(a) : TRUE
      BY <1>5
  <2>2. PICK r \in Tasks : r = queue[i][2]
      BY <2>1 DEF IInv, TypeOK, Queued
  <2>3. acts[a] \in Seq(Tasks) /\ Waiting(a) = <<r>> \o acts[a] /\ Waiting(a)' = <<>> \o acts[a]
      BY <1>1, <1>3, <2>1, <2>2, InExecutorIs DEF Waiting, IInv, TypeOK
  <2>4. /\ <<r>> \o acts[a] # <<>> /\ <<r>> \o acts[a] \in Seq(Tasks)
        /\ Tail(<<r>> \o acts[a]) = acts[a] /\ <<>> \o acts[a] = acts[a]
      BY <2>3
  <2>5. Running(a) = Null
    <3>1. Busy(a) = {}
        BY <1>5 DEF IInv, OneAtATime
    <3> QED
        BY <3>1 DEF Running, Busy, At
  <2> QED
      BY <2>3, <2>4, <2>5
<1> QED
    BY <1>2, <1>4, <1>5

\* A step that appends a runnable to one act's mailbox.
LEMMA SubmitStep ==
    ASSUME NEW a \in Acts, NEW r \in Tasks,
           Waiting(a)' = Append(Waiting(a), r),
           \A b \in Acts \ {a} : Waiting(b)' = Waiting(b),
           \A b \in Acts : Running(b)' = Running(b), isShutdown' = isShutdown
    PROVE  Mailbox!Next
<1>1. Mailbox!Submit(a, r)
    BY DEF Mailbox!Submit, Waiting
<1> QED
    BY <1>1 DEF Mailbox!Next

\* A step after which the first runnable of a mailbox runs.
LEMMA StartStep ==
    ASSUME NEW a \in Acts, NEW r \in Tasks,
           Waiting(a)' \in Seq(Tasks), Waiting(a) = <<r>> \o Waiting(a)',
           Running(a) = Null, Running(a)' = r,
           \A b \in Acts \ {a} : Waiting(b)' = Waiting(b) /\ Running(b)' = Running(b),
           isShutdown' = isShutdown
    PROVE  Mailbox!Next
<1>1. Waiting(a) # <<>> /\ Head(Waiting(a)) = r /\ Waiting(a)' = Tail(Waiting(a))
    OBVIOUS
<1>2. Mailbox!Start(a)
    BY <1>1 DEF Mailbox!Start, Waiting
<1> QED
    BY <1>2 DEF Mailbox!Next

\* A step after which a runnable does not run any more.
LEMMA FinishStep ==
    ASSUME NEW a \in Acts, Running(a) # Null, Running(a)' = Null,
           \A b \in Acts \ {a} : Running(b)' = Running(b),
           \A b \in Acts : Waiting(b)' = Waiting(b), isShutdown' = isShutdown
    PROVE  Mailbox!Next
<1>1. [b \in Acts |-> Running(b)]' = [[b \in Acts |-> Running(b)] EXCEPT ![a] = Null]
  <2>1. \A b \in Acts : Running(b)' = IF b = a THEN Null ELSE Running(b)
      OBVIOUS
  <2> QED
      BY <2>1
<1>2. [b \in Acts |-> InExecutor(b) \o acts[b]]' = [b \in Acts |-> InExecutor(b) \o acts[b]]
    BY DEF Waiting
<1>3. Mailbox!Finish(a)
    BY <1>1, <1>2 DEF Mailbox!Finish
<1> QED
    BY <1>3 DEF Mailbox!Next

\* A step after which the first runnable of some mailboxes is forgotten.
LEMMA DropStep ==
    ASSUME NEW lost \in SUBSET Acts,
           \A a \in lost : Waiting(a) # <<>> /\ Waiting(a)' = Tail(Waiting(a)),
           \A a \in Acts \ lost : Waiting(a)' = Waiting(a),
           \A a \in Acts : Running(a)' = Running(a), isShutdown' = TRUE
    PROVE  Mailbox!Next
<1>1. lost \in SUBSET {a \in Acts : Waiting(a) # <<>>}
    OBVIOUS
<1>2. Mailbox!Drop
    BY <1>1 DEF Mailbox!Drop, Waiting
<1> QED
    BY <1>2 DEF Mailbox!Next

LEMMA InitMaps == Init => Mailbox!Init
<1> SUFFICES ASSUME Init PROVE Mailbox!Init
    OBVIOUS
<1>1. \A a \in Acts : InExecutor(a) \o acts[a] = <<>>
  <2>1. DOMAIN queue = {} /\ acts = [a \in Acts |-> <<>>]
      BY DEF Init
  <2>2. \A a \in Acts : InExecutor(a) = <<>>
      BY <2>1 DEF InExecutor, Queued
  <2>3. <<>> \o <<>> = <<>>
      OBVIOUS
  <2> QED
      BY <2>1, <2>2, <2>3
<1>2. \A a \in Acts : Running(a) = Null
    BY IdleType DEF Init, Running, At, Threads
<1> QED
    BY <1>1, <1>2 DEF Mailbox!Init, Init

\* Every step of the pool is a step of ActorMailbox, or does not touch the mailboxes.
LEMMA NextMaps ==
    IInv /\ RunnersHaveTasks /\ [Next]_vars => [Mailbox!Next]_(Mailbox!mailboxVars)
<1> SUFFICES ASSUME IInv, RunnersHaveTasks, [Next]_vars
             PROVE  [Mailbox!Next]_(Mailbox!mailboxVars)
    OBVIOUS
<1>1. CASE UNCHANGED vars
  <2>1. UNCHANGED <<acts, queue, isShutdown, thread>>
      BY <1>1 DEF vars
  <2>2. \A a \in Acts : Waiting(a)' = Waiting(a) /\ Running(a)' = Running(a)
      BY <2>1 DEF Waiting, InExecutor, Queued, Running, At
  <2> QED
      BY <2>1, <2>2, SameMailboxes
<1>2. ASSUME NEW t \in Clients, NEW a \in Acts, NEW r \in Tasks, SubmitLook(t, a, r)
      PROVE  UNCHANGED Mailbox!mailboxVars
    BY <1>2, SubmitLookEffect, SameMailboxes DEF SubmitLook
<1>3. ASSUME NEW t \in Clients, SubmitExecute(t)
      PROVE  [Mailbox!Next]_(Mailbox!mailboxVars)
  <2>1. isShutdown' = isShutdown
      BY <1>3 DEF SubmitExecute
  <2>2. PICK a \in Acts, r \in Tasks :
            /\ Waiting(a) = <<>> /\ Waiting(a)' = IF isShutdown THEN <<>> ELSE <<r>>
            /\ \A b \in Acts \ {a} : Waiting(b)' = Waiting(b)
            /\ \A b \in Acts : Running(b)' = Running(b)
      BY <1>3, SubmitExecuteEffect
  <2>3. CASE isShutdown
      BY <2>1, <2>2, <2>3, SameMailboxes
  <2>4. CASE ~isShutdown
    <3>1. Waiting(a)' = Append(Waiting(a), r)
        BY <2>2, <2>4
    <3> QED
        BY <2>1, <2>2, <3>1, SubmitStep
  <2> QED
      BY <2>3, <2>4
<1>4. ASSUME NEW t \in Clients, SubmitPend(t) PROVE Mailbox!Next
    BY <1>4, SubmitPendEffect, SubmitStep DEF SubmitPend
<1>5. ASSUME NEW w \in Workers, Take(w) PROVE Mailbox!Next
    BY <1>5, TakeEffect, StartStep DEF Take
<1>6. ASSUME NEW w \in Workers, CompleteLook(w) PROVE Mailbox!Next
    BY <1>6, CompleteLookEffect, FinishStep, ThreadsAssumption DEF CompleteLook
<1>7. ASSUME NEW w \in Workers, CompleteRest(w) PROVE UNCHANGED Mailbox!mailboxVars
    BY <1>7, CompleteRestEffect, SameMailboxes DEF CompleteRest
<1>8. ASSUME NEW w \in Workers, CompleteNext(w)
      PROVE  [Mailbox!Next]_(Mailbox!mailboxVars)
  <2>1. isShutdown' = isShutdown
      BY <1>8 DEF CompleteNext
  <2>2. PICK a \in Acts :
            /\ Waiting(a) # <<>>
            /\ Waiting(a)' = IF isShutdown THEN Tail(Waiting(a)) ELSE Waiting(a)
            /\ \A b \in Acts \ {a} : Waiting(b)' = Waiting(b)
            /\ \A b \in Acts : Running(b)' = Running(b)
      BY <1>8, CompleteNextEffect
  <2>3. CASE isShutdown
    <3>1. {a} \in SUBSET Acts /\ isShutdown' = TRUE
        BY <2>1, <2>3
    <3> QED
        BY <2>2, <2>3, <3>1, DropStep
  <2>4. CASE ~isShutdown
      BY <2>1, <2>2, <2>4, SameMailboxes
  <2> QED
      BY <2>3, <2>4
<1>9. CASE shutdown
  <2> DEFINE lost == {a \in Acts : Queued(a) # {}}
  <2>1. /\ lost \in SUBSET Acts /\ isShutdown' = TRUE
        /\ \A a \in lost : Waiting(a) # <<>> /\ Waiting(a)' = Tail(Waiting(a))
        /\ \A a \in Acts \ lost : Waiting(a)' = Waiting(a)
        /\ \A a \in Acts : Running(a)' = Running(a)
      BY <1>9, ShutdownEffect DEF shutdown
  <2> HIDE DEF lost
  <2> QED
      BY <2>1, DropStep
<1> QED
    BY <1>1, <1>2, <1>3, <1>4, <1>5, <1>6, <1>7, <1>8, <1>9 DEF Next, Work

\* Only submitted runnables run.
LEMMA RunnersInvariance == Spec => []RunnersHaveTasks
<1>1. Init => RunnersHaveTasks
    BY IdleType DEF RunnersHaveTasks, Init, At, Threads
<1> QED
    BY <1>1, RunnersHaveTasksInv, Invariance, PTL DEF Spec

\* The runnables of an act run one at a time in the order in which they were submitted, and
\* none is lost or runs twice before the pool is shut down: the pool implements ActorMailbox,
\* up to its fairness.
THEOREM MailboxesAreKept == Spec => KeepsMailboxes
    BY InitMaps, NextMaps, Invariance, RunnersInvariance, PTL DEF Spec, KeepsMailboxes

-----------------------------------------------------------------------------
(* The runnables of an act, from submit() to complete() *)

\* The runnable of an act that runs, and the one that is being submitted for it.
RunPart(a) == IF Running(a) = Null THEN <<>> ELSE <<Running(a)>>
SubmitPart(a) ==
    IF \E t \in Clients : At(t, "submit") /\ thread[t].act = a
    THEN <<thread[CHOOSE t \in Clients : At(t, "submit") /\ thread[t].act = a].task>>
    ELSE <<>>

\* All of them, in the order in which they run.
Line(a) == (RunPart(a) \o Waiting(a)) \o SubmitPart(a)
Shortened(a) == Line(a) # <<>> /\ Line(a)' = Tail(Line(a))

LEMMA SubmitPartIs ==
    ASSUME IInv, NEW a \in Acts
    PROVE  /\ SubmitPart(a) \in Seq(Tasks)
           /\ \A t \in Clients : At(t, "submit") /\ thread[t].act = a
                                 => SubmitPart(a) = <<thread[t].task>>
           /\ (\A t \in Clients : ~(At(t, "submit") /\ thread[t].act = a))
                 => SubmitPart(a) = <<>>
<1>1. ASSUME NEW t \in Clients, At(t, "submit"), thread[t].act = a
      PROVE  SubmitPart(a) = <<thread[t].task>>
  <2> DEFINE s == CHOOSE s \in Clients : At(s, "submit") /\ thread[s].act = a
  <2>1. s \in Clients /\ At(s, "submit") /\ thread[s].act = a
      BY <1>1
  <2>2. s = t
      BY <1>1, <2>1 DEF IInv, Holds, Inside, Threads
  <2> QED
      BY <1>1, <2>2 DEF SubmitPart
<1>2. (\A t \in Clients : ~(At(t, "submit") /\ thread[t].act = a)) => SubmitPart(a) = <<>>
    BY DEF SubmitPart
<1>3. SubmitPart(a) \in Seq(Tasks)
  <2>1. CASE \E t \in Clients : At(t, "submit") /\ thread[t].act = a
    <3>1. PICK t \in Clients : At(t, "submit") /\ thread[t].act = a
        BY <2>1
    <3>2. SubmitPart(a) = <<thread[t].task>> /\ thread[t].task \in Tasks
        BY <1>1, <3>1 DEF IInv, Roles
    <3> QED
        BY <3>2
  <2>2. CASE ~\E t \in Clients : At(t, "submit") /\ thread[t].act = a
    <3>1. SubmitPart(a) = <<>>
        BY <2>2 DEF SubmitPart
    <3> QED
        BY <3>1
  <2> QED
      BY <2>1, <2>2
<1> QED
    BY <1>1, <1>2, <1>3

LEMMA LineType ==
    ASSUME IInv, RunnersHaveTasks, NEW a \in Acts
    PROVE  /\ RunPart(a) \in Seq(Tasks) /\ Waiting(a) \in Seq(Tasks)
           /\ SubmitPart(a) \in Seq(Tasks) /\ Line(a) \in Seq(Tasks)
<1>1. Waiting(a) \in Seq(Tasks)
  <2>1. InExecutor(a) \in Seq(Tasks) /\ acts[a] \in Seq(Tasks)
      BY InExecutorIs DEF IInv, TypeOK
  <2> QED
      BY <2>1 DEF Waiting
<1>2. Running(a) \in Tasks \cup {Null}
    BY RunningIs DEF IInv, RunnersHaveTasks
<1>3. RunPart(a) \in Seq(Tasks)
    BY <1>2 DEF RunPart
<1>4. SubmitPart(a) \in Seq(Tasks)
    BY SubmitPartIs
<1>5. Line(a) \in Seq(Tasks)
    BY <1>1, <1>3, <1>4 DEF Line
<1> QED
    BY <1>1, <1>3, <1>4, <1>5

\* A thread of the executor submits nothing.
LEMMA SameSubmitting ==
    ASSUME \A t \in Clients : thread'[t] = thread[t]
    PROVE  \A a \in Acts : SubmitPart(a)' = SubmitPart(a)
<1>1. ASSUME NEW a \in Acts PROVE SubmitPart(a)' = SubmitPart(a)
  <2> DEFINE Submits(t) == t \in Clients /\ At(t, "submit") /\ thread[t].act = a
  <2>1. \A t : /\ Submits(t)' <=> Submits(t)
               /\ Submits(t) => thread'[t] = thread[t]
      BY DEF At
  <2> QED
      BY <2>1 DEF SubmitPart
<1> QED
    BY <1>1

LEMMA SubmitLookLine ==
    ASSUME IInv, RunnersHaveTasks, NEW t \in Clients, NEW a \in Acts, NEW r \in Tasks,
           SubmitLook(t, a, r)
    PROVE  /\ Line(a)' = Append(Line(a), r)
           /\ \A b \in Acts \ {a} : Line(b)' = Line(b)
<1>1. IInv' /\ RunnersHaveTasks'
    BY SubmitLookInv, RunnersHaveTasksInv DEF Next
<1>2. /\ At(t, "idle") /\ enter(t, a)
      /\ thread'[t] = Frame("submit", a, r, a \in playingNow)
      /\ \A s \in Clients \ {t} : thread'[s] = thread[s]
    BY DEF SubmitLook, Become, IInv, TypeOK, Threads
<1>3. \A b \in Acts : RunPart(b)' = RunPart(b) /\ Waiting(b)' = Waiting(b)
    BY SubmitLookEffect DEF RunPart
<1>4. SubmitPart(a) = <<>>
  <2>1. \A s \in Clients : ~(At(s, "submit") /\ thread[s].act = a)
      BY <1>2, ThreadsAssumption DEF IInv, Holds, Inside, enter, free, Threads
  <2> QED
      BY <2>1, SubmitPartIs
<1>5. SubmitPart(a)' = <<r>>
  <2>1. (At(t, "submit") /\ thread[t].act = a)' /\ thread'[t].task = r
      BY <1>2 DEF At, Frame
  <2>2. \A s \in Clients \ {t} : ~(At(s, "submit") /\ thread[s].act = a)'
      BY <1>2, ThreadsAssumption DEF IInv, Holds, Inside, enter, free, Threads, At
  <2> QED
      BY <2>1, <2>2 DEF SubmitPart
<1>6. ASSUME NEW b \in Acts \ {a} PROVE SubmitPart(b)' = SubmitPart(b)
  <2> DEFINE Submits(s) == s \in Clients /\ At(s, "submit") /\ thread[s].act = b
  <2>1. ~Submits(t) /\ ~Submits(t)'
      BY <1>2 DEF At, Frame
  <2>2. \A s : /\ Submits(s)' <=> Submits(s)
               /\ Submits(s) => thread'[s] = thread[s]
      BY <1>2, <2>1 DEF At
  <2> QED
      BY <2>2 DEF SubmitPart
<1>7. Line(a)' = Append(Line(a), r)
  <2>1. RunPart(a) \in Seq(Tasks) /\ Waiting(a) \in Seq(Tasks)
      BY LineType
  <2>2. /\ (RunPart(a) \o Waiting(a)) \o <<r>> = Append(RunPart(a) \o Waiting(a), r)
        /\ (RunPart(a) \o Waiting(a)) \o <<>> = RunPart(a) \o Waiting(a)
      BY <2>1
  <2> QED
      BY <1>3, <1>4, <1>5, <2>2 DEF Line
<1>8. \A b \in Acts \ {a} : Line(b)' = Line(b)
    BY <1>3, <1>6 DEF Line
<1> QED
    BY <1>7, <1>8

\* What submit() leaves of the submitting part when it ends.
LEMMA SubmitEnds ==
    ASSUME IInv, NEW t \in Clients, At(t, "submit"), leave(t),
           NEW a \in Acts, a = thread[t].act
    PROVE  /\ SubmitPart(a) = <<thread[t].task>> /\ SubmitPart(a)' = <<>>
           /\ \A b \in Acts \ {a} : SubmitPart(b)' = SubmitPart(b)
<1>1. t \in Threads /\ Inside(t)
    BY DEF Threads, Inside
<1>2. /\ thread'[t] = Idle
      /\ \A s \in Clients \ {t} : /\ thread'[s] = thread[s]
                                  /\ At(s, "submit") => thread[s].act # a
    BY <1>1, LeaveState DEF IInv, Inside, Threads
<1>3. SubmitPart(a) = <<thread[t].task>>
    BY <1>1, SubmitPartIs
<1>4. SubmitPart(a)' = <<>>
  <2>1. \A s \in Clients : ~(At(s, "submit") /\ thread[s].act = a)'
      BY <1>2, IdleType DEF At
  <2> QED
      BY <2>1 DEF SubmitPart
<1>5. ASSUME NEW b \in Acts \ {a} PROVE SubmitPart(b)' = SubmitPart(b)
  <2> DEFINE Submits(s) == s \in Clients /\ At(s, "submit") /\ thread[s].act = b
  <2>1. ~Submits(t) /\ ~Submits(t)'
      BY <1>2, IdleType DEF At
  <2>2. \A s : /\ Submits(s)' <=> Submits(s)
               /\ Submits(s) => thread'[s] = thread[s]
      BY <1>2, <2>1 DEF At
  <2> QED
      BY <2>2 DEF SubmitPart
<1> QED
    BY <1>3, <1>4, <1>5

\* submit() ends: the runnable is behind the others, or gone with the executor.
LEMMA SubmitLine ==
    ASSUME IInv, RunnersHaveTasks, NEW t \in Clients, SubmitExecute(t) \/ SubmitPend(t)
    PROVE  \A b \in Acts : Line(b)' = Line(b) \/ (isShutdown /\ Shortened(b))
<1>0. PICK a \in Acts, r \in Tasks : a = thread[t].act /\ r = thread[t].task
    BY DEF IInv, Roles, SubmitExecute, SubmitPend, At, Threads
<1>1. /\ SubmitPart(a) = <<r>> /\ SubmitPart(a)' = <<>>
      /\ \A b \in Acts \ {a} : SubmitPart(b)' = SubmitPart(b)
    BY <1>0, SubmitEnds DEF SubmitExecute, SubmitPend
<1>2. RunPart(a) \in Seq(Tasks) /\ Waiting(a) \in Seq(Tasks)
    BY LineType
<1>3. CASE SubmitExecute(t)
  <2>1. /\ Waiting(a) = <<>> /\ Running(a) = Null
        /\ Waiting(a)' = IF isShutdown THEN <<>> ELSE <<r>>
        /\ \A b \in Acts \ {a} : Waiting(b)' = Waiting(b)
        /\ \A b \in Acts : Running(b)' = Running(b)
      BY <1>0, <1>3, SubmitExecuteEffect
  <2>2. \A b \in Acts \ {a} : Line(b)' = Line(b)
      BY <1>1, <2>1 DEF Line, RunPart
  <2>3. Line(a) = <<r>> /\ Line(a)' = IF isShutdown THEN <<>> ELSE <<r>>
    <3>1. (<<>> \o <<>>) \o <<r>> = <<r>> /\ (<<>> \o <<r>>) \o <<>> = <<r>>
          /\ (<<>> \o <<>>) \o <<>> = <<>>
        OBVIOUS
    <3> QED
        BY <1>1, <2>1, <3>1 DEF Line, RunPart
  <2>4. isShutdown => Shortened(a)
    <3>1. <<r>> # <<>> /\ Tail(<<r>>) = <<>>
        OBVIOUS
    <3> QED
        BY <2>3, <3>1 DEF Shortened
  <2> QED
      BY <2>2, <2>3, <2>4
<1>4. CASE SubmitPend(t)
  <2>1. /\ Waiting(a)' = Append(Waiting(a), r)
        /\ \A b \in Acts \ {a} : Waiting(b)' = Waiting(b)
        /\ \A b \in Acts : Running(b)' = Running(b)
      BY <1>0, <1>4, SubmitPendEffect
  <2>2. \A b \in Acts \ {a} : Line(b)' = Line(b)
      BY <1>1, <2>1 DEF Line, RunPart
  <2>3. /\ RunPart(a) \o Append(Waiting(a), r) \in Seq(Tasks)
        /\ (RunPart(a) \o Append(Waiting(a), r)) \o <<>> = (RunPart(a) \o Waiting(a)) \o <<r>>
      BY <1>2
  <2>4. Line(a)' = Line(a)
      BY <1>1, <2>1, <2>3 DEF Line, RunPart
  <2> QED
      BY <2>2, <2>4
<1> QED
    BY <1>3, <1>4

LEMMA TakeLine ==
    ASSUME IInv, RunnersHaveTasks, NEW w \in Workers, Take(w)
    PROVE  \A b \in Acts : Line(b)' = Line(b)
<1>1. PICK a \in Acts, r \in Tasks :
          /\ Waiting(a)' \in Seq(Tasks) /\ Waiting(a) = <<r>> \o Waiting(a)'
          /\ Running(a) = Null /\ Running(a)' = r
          /\ \A b \in Acts \ {a} : Waiting(b)' = Waiting(b) /\ Running(b)' = Running(b)
    BY TakeEffect
<1>2. \A b \in Acts : SubmitPart(b)' = SubmitPart(b)
  <2>1. \A t \in Clients : thread'[t] = thread[t]
      BY ThreadsAssumption DEF Take, Become, IInv, TypeOK, Threads
  <2> QED
      BY <2>1, SameSubmitting
<1>3. \A b \in Acts \ {a} : Line(b)' = Line(b)
    BY <1>1, <1>2 DEF Line, RunPart
<1>4. RunPart(a) = <<>> /\ RunPart(a)' = <<r>>
    BY <1>1, ThreadsAssumption DEF RunPart
<1>5. <<>> \o (<<r>> \o Waiting(a)') = <<r>> \o Waiting(a)'
    BY <1>1
<1>6. Line(a)' = Line(a)
    BY <1>1, <1>2, <1>4, <1>5 DEF Line
<1> QED
    BY <1>3, <1>6

\* What complete() leaves of a line.
LEMMA WorkerStep ==
    ASSUME IInv, NEW w \in Workers, CompleteLook(w) \/ CompleteRest(w) \/ CompleteNext(w)
    PROVE  \A b \in Acts : SubmitPart(b)' = SubmitPart(b)
<1>1. \A t \in Clients : thread'[t] = thread[t]
    BY ThreadsAssumption
       DEF CompleteLook, CompleteRest, CompleteNext, leave, Become, IInv, TypeOK, Threads
<1> QED
    BY <1>1, SameSubmitting

LEMMA CompleteLookLine ==
    ASSUME IInv, RunnersHaveTasks, NEW w \in Workers, CompleteLook(w)
    PROVE  \E a \in Acts :
              /\ thread[w].task \in Tasks /\ Line(a)' \in Seq(Tasks)
              /\ Line(a) = <<thread[w].task>> \o Line(a)'
              /\ \A b \in Acts \ {a} : Line(b)' = Line(b)
<1>1. PICK a \in Acts :
          /\ a = thread[w].act /\ thread[w].task \in Tasks
          /\ Running(a) = thread[w].task /\ Running(a)' = Null
          /\ \A b \in Acts \ {a} : Running(b)' = Running(b)
          /\ \A b \in Acts : Waiting(b)' = Waiting(b)
    BY CompleteLookEffect
<1>2. \A b \in Acts : SubmitPart(b)' = SubmitPart(b)
    BY WorkerStep
<1>3. \A b \in Acts \ {a} : Line(b)' = Line(b)
    BY <1>1, <1>2 DEF Line, RunPart
<1>4. RunPart(a) = <<thread[w].task>> /\ RunPart(a)' = <<>>
    BY <1>1, ThreadsAssumption DEF RunPart
<1>5. Waiting(a) \in Seq(Tasks) /\ SubmitPart(a) \in Seq(Tasks)
    BY LineType
<1>6. /\ (<<>> \o Waiting(a)) \o SubmitPart(a) \in Seq(Tasks)
      /\ (<<thread[w].task>> \o Waiting(a)) \o SubmitPart(a)
             = <<thread[w].task>> \o ((<<>> \o Waiting(a)) \o SubmitPart(a))
    BY <1>1, <1>5
<1>7. Line(a)' \in Seq(Tasks) /\ Line(a) = <<thread[w].task>> \o Line(a)'
    BY <1>1, <1>2, <1>4, <1>6 DEF Line
<1> QED
    BY <1>1, <1>3, <1>7

LEMMA ShorterLine ==
    ASSUME IInv, RunnersHaveTasks, NEW a \in Acts, Running(a) = Null, Running(a)' = Null,
           Waiting(a) # <<>>, Waiting(a)' = Tail(Waiting(a)), SubmitPart(a)' = SubmitPart(a)
    PROVE  Shortened(a)
<1>1. Waiting(a) \in Seq(Tasks) /\ SubmitPart(a) \in Seq(Tasks)
    BY LineType
<1>2. RunPart(a) = <<>> /\ RunPart(a)' = <<>>
    BY DEF RunPart
<1>3. /\ (<<>> \o Waiting(a)) \o SubmitPart(a) # <<>>
      /\ Tail((<<>> \o Waiting(a)) \o SubmitPart(a)) = (<<>> \o Tail(Waiting(a))) \o SubmitPart(a)
    BY <1>1
<1> QED
    BY <1>2, <1>3 DEF Shortened, Line

LEMMA CompleteLine ==
    ASSUME IInv, RunnersHaveTasks, NEW w \in Workers, CompleteRest(w) \/ CompleteNext(w)
    PROVE  \A b \in Acts : Line(b)' = Line(b) \/ (isShutdown /\ Shortened(b))
<1>1. \A b \in Acts : SubmitPart(b)' = SubmitPart(b)
    BY WorkerStep
<1>2. CASE CompleteRest(w)
    BY <1>1, <1>2, CompleteRestEffect DEF Line, RunPart
<1>3. CASE CompleteNext(w)
  <2>1. PICK a \in Acts :
            /\ Running(a) = Null /\ Waiting(a) # <<>>
            /\ Waiting(a)' = IF isShutdown THEN Tail(Waiting(a)) ELSE Waiting(a)
            /\ \A b \in Acts \ {a} : Waiting(b)' = Waiting(b)
            /\ \A b \in Acts : Running(b)' = Running(b)
      BY <1>3, CompleteNextEffect
  <2>2. \A b \in Acts : Waiting(b)' = Waiting(b) => Line(b)' = Line(b)
      BY <1>1, <2>1 DEF Line, RunPart
  <2>3. isShutdown => Shortened(a)
      BY <1>1, <2>1, ShorterLine
  <2> QED
      BY <2>1, <2>2, <2>3
<1> QED
    BY <1>2, <1>3

LEMMA shutdownLine ==
    ASSUME IInv, RunnersHaveTasks, shutdown
    PROVE  \A b \in Acts : Line(b)' = Line(b) \/ Shortened(b)
<1>1. \A b \in Acts : SubmitPart(b)' = SubmitPart(b)
    BY SameSubmitting DEF shutdown
<1>2. ASSUME NEW b \in Acts, Queued(b) = {} PROVE Line(b)' = Line(b)
    BY <1>1, <1>2, ShutdownEffect DEF Line, RunPart
<1>3. ASSUME NEW b \in Acts, Queued(b) # {} PROVE Shortened(b)
  <2>1. /\ Running(b) = Null /\ Running(b)' = Null
        /\ Waiting(b) # <<>> /\ Waiting(b)' = Tail(Waiting(b))
      BY <1>3, ShutdownEffect
  <2> QED
      BY <1>1, <2>1, ShorterLine
<1> QED
    BY <1>2, <1>3

\* A runnable that was submitted is at one place of one line.
EachOnce ==
    \A a \in Acts : \A i \in DOMAIN Line(a) :
        /\ Line(a)[i] \notin fresh
        /\ \A b \in Acts : \A j \in DOMAIN Line(b) : Line(a)[i] = Line(b)[j] => a = b /\ i = j

\* shutdownNow() empties the executor, which takes nothing after it.
ClosedIsEmpty == isShutdown => queue = <<>>

LInv == IInv /\ RunnersHaveTasks /\ EachOnce /\ ClosedIsEmpty

LEMMA OnceWhenShorter ==
    ASSUME IInv, RunnersHaveTasks, EachOnce, fresh' = fresh,
           \A a \in Acts : Line(a)' = Line(a) \/ Shortened(a)
    PROVE  EachOnce'
\* Where in a line a runnable was before the step.
<1>1. ASSUME NEW a \in Acts
      PROVE  \E n \in {0, 1} : \A i \in DOMAIN Line(a)' :
                 /\ i + n \in DOMAIN Line(a) /\ i \in Nat /\ Line(a)'[i] = Line(a)[i + n]
  <2>1. Line(a) \in Seq(Tasks)
      BY LineType
  <2>2. CASE Line(a)' = Line(a)
    <3>1. \A i \in DOMAIN Line(a) : i + 0 = i /\ i \in Nat
        BY <2>1
    <3> QED
        BY <2>2, <3>1
  <2>3. CASE Shortened(a)
    <3> DEFINE l == Line(a)
    <3>1. l \in Seq(Tasks) /\ l # <<>> /\ Line(a)' = Tail(l)
        BY <2>1, <2>3 DEF Shortened
    <3> HIDE DEF l
    <3>2. \A i \in DOMAIN Tail(l) : i + 1 \in DOMAIN l /\ i \in Nat /\ Tail(l)[i] = l[i + 1]
        BY <3>1
    <3> QED
        BY <3>1, <3>2 DEF l
  <2> QED
      BY <2>2, <2>3
<1> SUFFICES ASSUME NEW a \in Acts, NEW i \in DOMAIN Line(a)'
             PROVE  /\ Line(a)'[i] \notin fresh
                    /\ \A b \in Acts : \A j \in DOMAIN Line(b)' :
                          Line(a)'[i] = Line(b)'[j] => a = b /\ i = j
    BY DEF EachOnce
<1>2. PICK n \in {0, 1} : \A k \in DOMAIN Line(a)' :
          /\ k + n \in DOMAIN Line(a) /\ k \in Nat /\ Line(a)'[k] = Line(a)[k + n]
    BY <1>1
<1>3. ASSUME NEW b \in Acts, NEW j \in DOMAIN Line(b)', Line(a)'[i] = Line(b)'[j]
      PROVE  a = b /\ i = j
  <2>1. PICK m \in {0, 1} : \A k \in DOMAIN Line(b)' :
            /\ k + m \in DOMAIN Line(b) /\ k \in Nat /\ Line(b)'[k] = Line(b)[k + m]
      BY <1>1
  <2>2. a = b /\ i + n = j + m
      BY <1>2, <1>3, <2>1 DEF EachOnce
  <2>3. a = b /\ i + n = j + n
      BY <1>2, <1>3, <2>2 DEF EachOnce
  <2> QED
      BY <1>2, <2>1, <2>3
<1> QED
    BY <1>2, <1>3 DEF EachOnce

LEMMA OnceWhenSubmitted ==
    ASSUME IInv, RunnersHaveTasks, EachOnce, NEW a \in Acts, NEW r \in fresh,
           fresh' = fresh \ {r}, Line(a)' = Append(Line(a), r),
           \A b \in Acts \ {a} : Line(b)' = Line(b)
    PROVE  EachOnce'
<1>1. Line(a) \in Seq(Tasks)
    BY LineType
<1>2. /\ DOMAIN Line(a)' = 1..(Len(Line(a)) + 1) /\ DOMAIN Line(a) = 1..Len(Line(a))
      /\ Len(Line(a)) \in Nat /\ Line(a)'[Len(Line(a)) + 1] = r
      /\ \A i \in 1..Len(Line(a)) : Line(a)'[i] = Line(a)[i]
    BY <1>1
<1>3. \A b \in Acts : \A i \in DOMAIN Line(b)' :
          \/ i \in DOMAIN Line(b) /\ Line(b)'[i] = Line(b)[i]
          \/ b = a /\ i = Len(Line(a)) + 1 /\ Line(b)'[i] = r
    BY <1>2
<1>4. \A b \in Acts : \A i \in DOMAIN Line(b) : Line(b)[i] # r
    BY DEF EachOnce
<1> QED
    BY <1>3, <1>4 DEF EachOnce

LEMMA LinesAtFirst == Init => \A a \in Acts : Line(a) = <<>> /\ Running(a) = Null
<1> SUFFICES ASSUME Init PROVE \A a \in Acts : Line(a) = <<>> /\ Running(a) = Null
    OBVIOUS
<1>1. \A a \in Acts : InExecutor(a) \o acts[a] = <<>>
  <2>1. DOMAIN queue = {} /\ acts = [a \in Acts |-> <<>>]
      BY DEF Init
  <2>2. \A a \in Acts : InExecutor(a) = <<>>
      BY <2>1 DEF InExecutor, Queued
  <2>3. <<>> \o <<>> = <<>>
      OBVIOUS
  <2> QED
      BY <2>1, <2>2, <2>3
<1>2. \A t \in Threads : At(t, "idle")
    BY IdleType DEF Init, At
<1>3. \A a \in Acts : Running(a) = Null /\ Waiting(a) = <<>> /\ SubmitPart(a) = <<>>
    BY <1>1, <1>2 DEF Running, Waiting, SubmitPart, At, Threads
<1>4. (<<>> \o <<>>) \o <<>> = <<>>
    OBVIOUS
<1> QED
    BY <1>3, <1>4 DEF Line, RunPart

LEMMA LineInit == Init => EachOnce /\ ClosedIsEmpty
<1>1. DOMAIN <<>> = {}
    OBVIOUS
<1> QED
    BY <1>1, LinesAtFirst DEF EachOnce, ClosedIsEmpty, Init

LEMMA LineInv == LInv /\ [Next]_vars => LInv'
<1> SUFFICES ASSUME LInv, [Next]_vars PROVE LInv'
    OBVIOUS
<1>1. IInv /\ RunnersHaveTasks /\ EachOnce /\ ClosedIsEmpty /\ IInv' /\ RunnersHaveTasks'
    BY NextInv, RunnersHaveTasksInv DEF LInv
<1>2. ClosedIsEmpty'
    BY <1>1 DEF ClosedIsEmpty, Next, vars, Work, SubmitLook, SubmitExecute, SubmitPend, Take,
                CompleteLook, CompleteRest, CompleteNext, shutdown, execute
<1>3. CASE UNCHANGED vars
  <2>1. \A a \in Acts : Line(a)' = Line(a)
      BY <1>3 DEF vars, Line, RunPart, Running, Waiting, InExecutor, Queued, SubmitPart, At
  <2> QED
      BY <1>1, <1>2, <1>3, <2>1, OnceWhenShorter DEF vars, LInv
<1>4. ASSUME NEW t \in Clients, NEW a \in Acts, NEW r \in Tasks, SubmitLook(t, a, r)
      PROVE  EachOnce'
    BY <1>1, <1>4, SubmitLookLine, OnceWhenSubmitted DEF SubmitLook
<1>5. ASSUME NEW t \in Clients, SubmitExecute(t) \/ SubmitPend(t) PROVE EachOnce'
  <2>1. fresh' = fresh
      BY <1>5 DEF SubmitExecute, SubmitPend
  <2> QED
      BY <1>1, <1>5, <2>1, SubmitLine, OnceWhenShorter
<1>6. ASSUME NEW w \in Workers, Take(w) PROVE EachOnce'
    BY <1>1, <1>6, TakeLine, OnceWhenShorter DEF Take
<1>7. ASSUME NEW w \in Workers, CompleteLook(w) PROVE EachOnce'
  <2>1. PICK a \in Acts :
            /\ thread[w].task \in Tasks /\ Line(a)' \in Seq(Tasks)
            /\ Line(a) = <<thread[w].task>> \o Line(a)'
            /\ \A b \in Acts \ {a} : Line(b)' = Line(b)
      BY <1>1, <1>7, CompleteLookLine
  <2>2. Line(a) # <<>> /\ Line(a)' = Tail(Line(a))
    <3> DEFINE l == Line(a)'
    <3>1. l \in Seq(Tasks) /\ Line(a) = <<thread[w].task>> \o l
        BY <2>1
    <3> HIDE DEF l
    <3>2. <<thread[w].task>> \o l # <<>> /\ l = Tail(<<thread[w].task>> \o l)
        BY <3>1
    <3> QED
        BY <3>1, <3>2 DEF l
  <2>3. Shortened(a)
      BY <2>2 DEF Shortened
  <2> QED
      BY <1>1, <1>7, <2>1, <2>3, OnceWhenShorter DEF CompleteLook
<1>8. ASSUME NEW w \in Workers, CompleteRest(w) \/ CompleteNext(w) PROVE EachOnce'
  <2>1. fresh' = fresh
      BY <1>8 DEF CompleteRest, CompleteNext
  <2> QED
      BY <1>1, <1>8, <2>1, CompleteLine, OnceWhenShorter
<1>9. ASSUME shutdown PROVE EachOnce'
  <2>1. fresh' = fresh
      BY <1>9 DEF shutdown
  <2>2. \A a \in Acts : Line(a)' = Line(a) \/ Shortened(a)
      BY <1>1, <1>9, shutdownLine
  <2> QED
      BY <1>1, <2>1, <2>2, OnceWhenShorter
<1> QED
    BY <1>1, <1>2, <1>3, <1>4, <1>5, <1>6, <1>7, <1>8, <1>9 DEF Next, Work, LInv

\* A runnable is in one place at a time, from the submit() that takes it to the end of its
\* run, and never comes back: it is submitted for one act, and runs at most once.
THEOREM RunnablesRunOnce == Spec => []EachOnce
<1>1. Init => LInv
    BY LineInit, InitInv, IdleType DEF LInv, RunnersHaveTasks, Init, At, Threads
<1>2. LInv => EachOnce
    BY DEF LInv
<1> QED
    BY <1>1, <1>2, LineInv, PTL DEF Spec

=============================================================================
