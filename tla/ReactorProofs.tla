----------------------------- MODULE ReactorProofs -----------------------------
(* Theorems about Reactor, for any number of connections and frames. *)
EXTENDS Reactor, SequenceTheorems, TLAPS

\* A read() returns no more than the clients have sent.
WireBound == \A c \in Conns : Len(wire[c]) <= sent

\* A pool thread in the middle of send() or terminate() has a frame and a receiver;
\* a thread works on a connection only while its runnable runs.
Busy ==
    \A c \in Conns :
        /\ worker[c] \in {"post", "wake", "leave"} => rest[c] # <<>>
        /\ worker[c] \in {"post", "wake"} => dest[c] \in Conns
        /\ running[c] = Null => worker[c] = "idle"

\* Only a channel that is still connecting is selected to be accepted, and for
\* nothing else.
SelectedFor == \A e \in selected : e[2] = "accept" <=> chan[e[1]] = "connecting"

\* The selector thread writes to a channel that it has accepted.
WritingTo ==
    sel \in {"write", "settle", "close"} => at \in Conns /\ chan[at] # "connecting"

\* Nobody can send to a connection before it is accepted.
Fresh ==
    \A c \in Conns : chan[c] = "connecting" => writeQueue[c] = 0 /\ c \notin clientsToCH

\* The write interest of c is asked for, or about to be.
Asked(c) == c \in ToSet(selectorTasks) \/ \E d \in Conns : Running(d, "post") /\ dest[d] = c

\* The selector thread has found the queue empty and is about to drop the write
\* interest: whatever was queued since then has asked for it again.
Settled == sel = "settle" /\ writeQueue[at] > 0 => Asked(at)

Written == \A c \in Conns : Serving /\ chan[c] = "open" /\ writeQueue[c] > 0 =>
               "write" \in ops[c] \/ Asked(c)

\* NoLostWakeup holds wherever the selector thread is behind its queue of tasks, not
\* only where it goes into select().
Woken == Serving /\ sel # "tasks" /\ selectorTasks # <<>> =>
             wakeup \/ \E d \in Conns : Running(d, "wake")

Shape == TypeOK /\ WireBound /\ Busy /\ SelectedFor /\ WritingTo /\ Fresh
IInv == Shape /\ Settled /\ Written /\ Woken

-----------------------------------------------------------------------------
(* Sequences *)

LEMMA ToSetAppend ==
    ASSUME NEW S, NEW s \in Seq(S), NEW e \in S
    PROVE  ToSet(Append(s, e)) = ToSet(s) \cup {e}
<1>1. /\ DOMAIN s = 1..Len(s) /\ DOMAIN Append(s, e) = 1..Len(s) + 1 /\ Len(s) \in Nat
      /\ \A i \in 1..Len(s) : Append(s, e)[i] = s[i]
      /\ Append(s, e)[Len(s) + 1] = e
    OBVIOUS
<1>2. \A x : x \in ToSet(Append(s, e)) <=> \E i \in 1..Len(s) + 1 : x = Append(s, e)[i]
    BY <1>1 DEF ToSet
<1>3. \A x : x \in ToSet(s) <=> \E i \in 1..Len(s) : x = s[i]
    BY <1>1 DEF ToSet
<1>4. \A i \in 1..Len(s) + 1 : i \in 1..Len(s) \/ i = Len(s) + 1
    BY <1>1
<1>5. (1..Len(s)) \subseteq 1..Len(s) + 1 /\ Len(s) + 1 \in 1..Len(s) + 1
    BY <1>1
<1>6. \A x : x \in ToSet(Append(s, e)) <=> x \in ToSet(s) \/ x = e
    BY <1>1, <1>2, <1>3, <1>4, <1>5
<1> QED
    BY <1>6

LEMMA ToSetTail ==
    ASSUME NEW S, NEW s \in Seq(S), s # <<>>, NEW x \in ToSet(s), x # Head(s)
    PROVE  x \in ToSet(Tail(s))
<1>1. PICK i \in 1..Len(s) : x = s[i]
    BY DEF ToSet
<1>2. i # 1 /\ i - 1 \in DOMAIN Tail(s) /\ Tail(s)[i - 1] = s[i]
    BY <1>1
<1> QED
    BY <1>1, <1>2 DEF ToSet

LEMMA SubSeqParts ==
    ASSUME NEW S, NEW s \in Seq(S), NEW n \in 1..Len(s)
    PROVE  SubSeq(s, 1, n) \in [1..n -> S] /\ SubSeq(s, n + 1, Len(s)) \in Seq(S)
<1>1. /\ Len(s) \in Nat /\ n \in Int /\ n + 1 \in Int /\ Len(s) \in Int /\ 1 \in Int /\ n \in Nat /\ 1 <= n
      /\ \A i \in 1..n : s[i] \in S /\ \A k \in n + 1 .. Len(s) : s[k] \in S
    OBVIOUS
<1>2. SubSeq(s, n + 1, Len(s)) \in Seq(S)
    BY <1>1, SubSeqProperties
<1>3. SubSeq(s, 1, n) \in Seq(S) /\ Len(SubSeq(s, 1, n)) = n
  <2>1. /\ SubSeq(s, 1, n) \in Seq(S)
        /\ Len(SubSeq(s, 1, n)) = IF 1 <= n THEN n - 1 + 1 ELSE 0
      BY <1>1, SubSeqProperties
  <2> QED
      BY <1>1, <2>1
<1>4. SubSeq(s, 1, n) \in [1..n -> S]
    BY <1>3, LenProperties
<1> QED
    BY <1>2, <1>4

LEMMA ChunkIsSeq ==
    ASSUME NEW chunk \in Chunk
    PROVE  chunk \in Seq({"msg", "last"})
<1>1. PICK n \in 1..MaxFrames : chunk \in [1..n -> {"msg", "last"}]
    BY DEF Chunk
<1>2. n \in Nat
    BY <1>1, ReactorAssumption
<1> QED
    BY <1>1, <1>2


\* Reading takes frames off the wire.
LEMMA StepWireBound ==
    ASSUME TypeOK, WireBound, Next
    PROVE  WireBound'
<1>1. ASSUME NEW c \in Conns, NEW kind \in {"msg", "last"}, ClientSend(c, kind) PROVE WireBound'
    BY <1>1 DEF ClientSend, WireBound, net, channels, selector, pool, handlers, TypeOK
<1>2. ASSUME NEW c \in Conns, continueRead(c) PROVE WireBound'
    BY <1>2 DEF continueRead, Pool!Submit, WireBound, net, channels, selector, pool, handlers, TypeOK
<1>3. ASSUME UNCHANGED <<wire, sent>> PROVE WireBound'
    BY <1>3 DEF WireBound
<1>4. ASSUME Select \/ RunTask \/ TasksDone \/ KeysDone \/ WriteAllDone \/ WriteSettles \/
    WriteCloses PROVE WireBound'
    BY <1>3, <1>4 DEF Select, RunTask, TasksDone, KeysDone, WriteAllDone, WriteSettles,
        settledOps, WriteCloses, close, net, channels, selector, pool, handlers
<1>5. ASSUME WriteFrame \/ WritePart \/ WriteFails \/ CloseServer PROVE WireBound'
    BY <1>3, <1>5 DEF WriteFrame, WritePart, WriteFails, close, CloseServer, Pool!Drop, net,
        channels, selector, pool, handlers
<1>6. ASSUME NEW c \in Conns, ClientClose(c) \/ handleAccept(c) \/ continueReadEnds(c) \/
    BeginWrite(c) \/ StartChunk(c) \/ EndChunk(c) \/ PostTask(c) PROVE WireBound'
    BY <1>3, <1>6 DEF ClientClose, handleAccept, continueReadEnds, close, BeginWrite,
        StartChunk, Pool!Start, Goes, EndChunk, Pool!Finish, Running, PostTask, net,
        channels, selector, pool, handlers
<1>7. ASSUME NEW c \in Conns, WakeUp(c) \/ Unanswered(c) \/ Leave(c) \/ ProcessThrows(c)
    PROVE WireBound'
    BY <1>3, <1>7 DEF WakeUp, Goes, Running, NextFrame, woken, Unanswered, Leave,
        ProcessThrows, net, channels, selector, pool, handlers
<1>8. ASSUME NEW c \in Conns, NEW d \in Conns, SendFrame(c, d) PROVE WireBound'
    BY <1>3, <1>8 DEF SendFrame, Goes, Running, net, channels, selector, pool, handlers
<1> QED
    BY <1>1, <1>2, <1>4, <1>5, <1>6, <1>7, <1>8
    DEF Next, Serve, RunChunk

\* A frame stays the first of its chunk until its thread is done with it.
LEMMA StepBusy ==
    ASSUME TypeOK, Busy, Next
    PROVE  Busy'
<1>1. ASSUME NEW c \in Conns, StartChunk(c) PROVE Busy'
    <2>1. Head(mailbox[c]) \in Chunk
        BY <1>1 DEF StartChunk, Pool!Start, TypeOK
    <2>2. Head(mailbox[c]) # Null
        BY <2>1, ReactorAssumption
    <2>3. /\ running' = [running EXCEPT ![c] = Head(mailbox[c])] /\ running[c] = Null
          /\ worker' = [worker EXCEPT ![c] = "run"] /\ dest' = dest
          /\ rest' = [rest EXCEPT ![c] = Head(mailbox[c])]
        BY <1>1 DEF StartChunk, Pool!Start, Goes
    <2>4. /\ DOMAIN running = Conns /\ DOMAIN worker = Conns /\ DOMAIN rest = Conns
        BY DEF TypeOK
    <2> QED
        BY <2>2, <2>3, <2>4 DEF Busy
<1>2. ASSUME NEW c \in Conns, EndChunk(c) PROVE Busy'
    BY <1>2 DEF EndChunk, Pool!Finish, Goes, Running, Busy, net, channels, selector, pool, handlers, TypeOK
<1>3. ASSUME NEW c \in Conns, NEW d \in Conns, SendFrame(c, d) PROVE Busy'
    BY <1>3 DEF SendFrame, Goes, Running, Busy, net, channels, selector, pool, handlers, TypeOK
<1>4. ASSUME NEW c \in Conns, PostTask(c) PROVE Busy'
    BY <1>4 DEF PostTask, Goes, Running, Busy, net, channels, selector, pool, handlers
<1>5. ASSUME NEW c \in Conns, WakeUp(c) PROVE Busy'
    <2>1. /\ dest' = [dest EXCEPT ![c] = Null] /\ running' = running /\ worker[c] = "wake"
          /\ \/ worker' = [worker EXCEPT ![c] = "leave"] /\ rest' = rest
             \/ /\ worker' = [worker EXCEPT ![c] = "run"]
                /\ rest' = [rest EXCEPT ![c] = Tail(@)]
        BY <1>5 DEF WakeUp, Goes, Running, NextFrame, pool
    <2>2. DOMAIN worker = Conns /\ DOMAIN rest = Conns /\ DOMAIN dest = Conns
        BY DEF TypeOK
    <2> QED
        BY <2>1, <2>2 DEF Busy
<1>6. ASSUME NEW c \in Conns, Unanswered(c) PROVE Busy'
    BY <1>6 DEF Unanswered, Goes, Running, NextFrame, Busy, net, channels, selector, pool, handlers, TypeOK
<1>7. ASSUME NEW c \in Conns, Leave(c) PROVE Busy'
    BY <1>7 DEF Leave, Goes, Running, NextFrame, Busy, net, channels, selector, pool, handlers, TypeOK
<1>8. ASSUME NEW c \in Conns, ProcessThrows(c) PROVE Busy'
    BY <1>8 DEF ProcessThrows, Running, Busy, net, channels, selector, pool, handlers
<1>9. ASSUME UNCHANGED <<worker, rest, dest, running>> PROVE Busy'
    BY <1>9 DEF Busy
<1>10. ASSUME Select \/ RunTask \/ TasksDone \/ KeysDone \/ WriteAllDone \/ WriteSettles \/
    WriteCloses PROVE Busy'
    BY <1>9, <1>10 DEF Select, RunTask, TasksDone, KeysDone, WriteAllDone, WriteSettles,
        settledOps, WriteCloses, close, net, channels, selector, pool, handlers
<1>11. ASSUME WriteFrame \/ WritePart \/ WriteFails \/ CloseServer PROVE Busy'
    BY <1>9, <1>11 DEF WriteFrame, WritePart, WriteFails, close, CloseServer, Pool!Drop,
        net, channels, selector, pool, handlers
<1>12. ASSUME NEW c \in Conns, ClientClose(c) \/ handleAccept(c) \/ continueRead(c) \/
    continueReadEnds(c) \/ BeginWrite(c) PROVE Busy'
    BY <1>9, <1>12 DEF ClientClose, handleAccept, continueRead, Pool!Submit,
        continueReadEnds, close, BeginWrite, net, channels, selector, pool, handlers
<1>13. ASSUME NEW c \in Conns, NEW kind \in {"msg", "last"}, ClientSend(c, kind) PROVE Busy'
    BY <1>9, <1>13 DEF ClientSend, net, channels, selector, pool, handlers
<1> QED
    BY <1>1, <1>2, <1>3, <1>4, <1>5, <1>6, <1>7, <1>8, <1>10, <1>11, <1>12, <1>13
    DEF Next, Serve, RunChunk

\* Accepting and closing change a channel that is no longer selected to be accepted.
LEMMA StepSelectedFor ==
    ASSUME TypeOK, SelectedFor, WritingTo, Next
    PROVE  SelectedFor'
<1>1. ASSUME Select PROVE SelectedFor'
    BY <1>1 DEF Select, SelectedFor, net, channels, selector, pool, handlers, Ready, ReadyFor
<1>2. ASSUME NEW c \in Conns, handleAccept(c) PROVE SelectedFor'
    BY <1>2 DEF handleAccept, SelectedFor, net, channels, selector, pool, handlers, TypeOK
<1>3. ASSUME NEW c \in Conns, continueRead(c) PROVE SelectedFor'
    BY <1>3 DEF continueRead, Pool!Submit, SelectedFor, net, channels, selector, pool, handlers
<1>4. ASSUME NEW c \in Conns, continueReadEnds(c) PROVE SelectedFor'
    BY <1>4 DEF continueReadEnds, close, SelectedFor, net, channels, selector, pool, handlers
<1>5. ASSUME NEW c \in Conns, BeginWrite(c) PROVE SelectedFor'
    BY <1>5 DEF BeginWrite, SelectedFor, net, channels, selector, pool, handlers
<1>6. ASSUME WriteCloses PROVE SelectedFor'
    <2>1. at \in Conns /\ chan[at] # "connecting"
        BY <1>6 DEF WriteCloses, WritingTo
    <2>2. chan \in [Conns -> {"connecting", "open", "closed"}] /\ \A e \in selected : e[1] \in Conns
        BY DEF TypeOK
    <2>3. chan' = [chan EXCEPT ![at] = "closed"] /\ selected' = selected
        BY <1>6 DEF WriteCloses, close, selector
    <2> QED
        BY <2>1, <2>2, <2>3 DEF SelectedFor
<1>7. ASSUME WriteFails PROVE SelectedFor'
    <2>1. at \in Conns /\ chan[at] # "connecting"
        BY <1>7 DEF WriteFails, WritingTo
    <2>2. chan \in [Conns -> {"connecting", "open", "closed"}] /\ \A e \in selected : e[1] \in Conns
        BY DEF TypeOK
    <2>3. chan' = [chan EXCEPT ![at] = "closed"] /\ selected' = selected
        BY <1>7 DEF WriteFails, close, selector
    <2> QED
        BY <2>1, <2>2, <2>3 DEF SelectedFor
<1>8. ASSUME UNCHANGED <<selected, chan>> PROVE SelectedFor'
    BY <1>8 DEF SelectedFor
<1>9. ASSUME RunTask \/ TasksDone \/ KeysDone \/ WriteAllDone \/ WriteSettles \/ WriteFrame
    \/ WritePart PROVE SelectedFor'
    BY <1>8, <1>9 DEF RunTask, TasksDone, KeysDone, WriteAllDone, WriteSettles, settledOps,
        WriteFrame, WritePart, net, channels, selector, pool, handlers
<1>10. ASSUME CloseServer PROVE SelectedFor'
    BY <1>8, <1>10 DEF CloseServer, Pool!Drop, net, channels, selector, pool, handlers
<1>11. ASSUME NEW c \in Conns, ClientClose(c) \/ StartChunk(c) \/ EndChunk(c) \/ PostTask(c)
    \/ WakeUp(c) \/ Unanswered(c) \/ Leave(c) PROVE SelectedFor'
    BY <1>8, <1>11 DEF ClientClose, StartChunk, Pool!Start, Goes, EndChunk, Pool!Finish,
        Running, PostTask, WakeUp, NextFrame, woken, Unanswered, Leave, net, channels,
        selector, pool, handlers
<1>12. ASSUME NEW c \in Conns, ProcessThrows(c) PROVE SelectedFor'
    BY <1>8, <1>12 DEF ProcessThrows, Running, net, channels, selector, pool, handlers
<1>13. ASSUME NEW c \in Conns, NEW kind \in {"msg", "last"}, ClientSend(c, kind) PROVE
    SelectedFor'
    BY <1>8, <1>13 DEF ClientSend, net, channels, selector, pool, handlers
<1>14. ASSUME NEW c \in Conns, NEW d \in Conns, SendFrame(c, d) PROVE SelectedFor'
    BY <1>8, <1>14 DEF SendFrame, Goes, Running, net, channels, selector, pool, handlers
<1> QED
    BY <1>1, <1>2, <1>3, <1>4, <1>5, <1>6, <1>7, <1>9, <1>10, <1>11, <1>12, <1>13, <1>14
    DEF Next, Serve, RunChunk

\* A write begins with a key that was selected for it.
LEMMA StepWritingTo ==
    ASSUME TypeOK, SelectedFor, WritingTo, Next
    PROVE  WritingTo'
<1>1. ASSUME Select PROVE WritingTo'
    BY <1>1 DEF Select, WritingTo, net, channels, selector, pool, handlers
<1>2. ASSUME RunTask PROVE WritingTo'
    BY <1>2 DEF RunTask, WritingTo, net, channels, selector, pool, handlers
<1>3. ASSUME TasksDone PROVE WritingTo'
    BY <1>3 DEF TasksDone, WritingTo, net, channels, selector, pool, handlers
<1>4. ASSUME KeysDone PROVE WritingTo'
    BY <1>4 DEF KeysDone, WritingTo, net, channels, selector, pool, handlers
<1>5. ASSUME NEW c \in Conns, handleAccept(c) PROVE WritingTo'
    BY <1>5 DEF handleAccept, WritingTo, net, channels, selector, pool, handlers
<1>6. ASSUME NEW c \in Conns, continueReadEnds(c) PROVE WritingTo'
    BY <1>6 DEF continueReadEnds, close, WritingTo, net, channels, selector, pool, handlers
<1>7. ASSUME NEW c \in Conns, BeginWrite(c) PROVE WritingTo'
    <2>1. <<c, "write">> \in selected /\ sel' = "write" /\ at' = c /\ chan' = chan
        BY <1>7 DEF BeginWrite, channels
    <2>2. chan[c] # "connecting"
        BY <2>1 DEF SelectedFor
    <2> QED
        BY <2>1, <2>2 DEF WritingTo
<1>8. ASSUME WriteAllDone PROVE WritingTo'
    BY <1>8 DEF WriteAllDone, WritingTo, net, channels, selector, pool, handlers
<1>9. ASSUME WriteSettles PROVE WritingTo'
    BY <1>9 DEF WriteSettles, settledOps, WritingTo, net, channels, selector, pool, handlers
<1>10. ASSUME WriteCloses PROVE WritingTo'
    BY <1>10 DEF WriteCloses, close, WritingTo, net, channels, selector, pool, handlers
<1>11. ASSUME WritePart PROVE WritingTo'
    BY <1>11 DEF WritePart, WritingTo, net, channels, selector, pool, handlers
<1>12. ASSUME WriteFails PROVE WritingTo'
    BY <1>12 DEF WriteFails, close, WritingTo, net, channels, selector, pool, handlers
<1>13. ASSUME CloseServer PROVE WritingTo'
    BY <1>13 DEF CloseServer, Pool!Drop, WritingTo, net, channels, selector, pool, handlers
<1>14. ASSUME UNCHANGED <<sel, at, chan>> PROVE WritingTo'
    BY <1>14 DEF WritingTo
<1>15. ASSUME WriteFrame PROVE WritingTo'
    BY <1>14, <1>15 DEF WriteFrame, net, channels, selector, pool, handlers
<1>16. ASSUME NEW c \in Conns, ClientClose(c) \/ continueRead(c) \/ StartChunk(c) \/
    EndChunk(c) \/ PostTask(c) \/ WakeUp(c) \/ Unanswered(c) PROVE WritingTo'
    BY <1>14, <1>16 DEF ClientClose, continueRead, Pool!Submit, StartChunk, Pool!Start,
        Goes, EndChunk, Pool!Finish, Running, PostTask, WakeUp, NextFrame, woken,
        Unanswered, net, channels, selector, pool, handlers
<1>17. ASSUME NEW c \in Conns, Leave(c) \/ ProcessThrows(c) PROVE WritingTo'
    BY <1>14, <1>17 DEF Leave, Goes, Running, NextFrame, ProcessThrows, net, channels,
        selector, pool, handlers
<1>18. ASSUME NEW c \in Conns, NEW kind \in {"msg", "last"}, ClientSend(c, kind) PROVE
    WritingTo'
    BY <1>14, <1>18 DEF ClientSend, net, channels, selector, pool, handlers
<1>19. ASSUME NEW c \in Conns, NEW d \in Conns, SendFrame(c, d) PROVE WritingTo'
    BY <1>14, <1>19 DEF SendFrame, Goes, Running, net, channels, selector, pool, handlers
<1> QED
    BY <1>1, <1>2, <1>3, <1>4, <1>5, <1>6, <1>7, <1>8, <1>9, <1>10, <1>11, <1>12, <1>13, <1>15, <1>16, <1>17, <1>18, <1>19
    DEF Next, Serve, RunChunk

\* Accepting a connection registers it, and only then can a frame be queued for it.
LEMMA StepFresh ==
    ASSUME TypeOK, Fresh, Next
    PROVE  Fresh'
<1>1. ASSUME NEW c \in Conns, handleAccept(c) PROVE Fresh'
    BY <1>1 DEF handleAccept, Fresh, net, channels, selector, pool, handlers, TypeOK
<1>2. ASSUME NEW c \in Conns, continueReadEnds(c) PROVE Fresh'
    BY <1>2 DEF continueReadEnds, close, Fresh, net, channels, selector, pool, handlers
<1>3. ASSUME WriteCloses PROVE Fresh'
    BY <1>3 DEF WriteCloses, close, Fresh, net, channels, selector, pool, handlers
<1>4. ASSUME WriteFrame PROVE Fresh'
    BY <1>4 DEF WriteFrame, Fresh, net, channels, selector, pool, handlers
<1>5. ASSUME WriteFails PROVE Fresh'
    BY <1>5 DEF WriteFails, close, Fresh, net, channels, selector, pool, handlers
<1>6. ASSUME NEW c \in Conns, NEW d \in Conns, SendFrame(c, d) PROVE Fresh'
    BY <1>6 DEF SendFrame, Goes, Running, Fresh, net, channels, selector, pool, handlers
<1>7. ASSUME NEW c \in Conns, Leave(c) PROVE Fresh'
    BY <1>7 DEF Leave, Goes, Running, NextFrame, Fresh, net, channels, selector, pool, handlers
<1>8. ASSUME UNCHANGED <<chan, writeQueue, clientsToCH>> PROVE Fresh'
    BY <1>8 DEF Fresh
<1>9. ASSUME Select \/ RunTask \/ TasksDone \/ KeysDone \/ WriteAllDone \/ WriteSettles \/
    WritePart PROVE Fresh'
    BY <1>8, <1>9 DEF Select, RunTask, TasksDone, KeysDone, WriteAllDone, WriteSettles,
        settledOps, WritePart, net, channels, selector, pool, handlers
<1>10. ASSUME CloseServer PROVE Fresh'
    BY <1>8, <1>10 DEF CloseServer, Pool!Drop, net, channels, selector, pool, handlers
<1>11. ASSUME NEW c \in Conns, ClientClose(c) \/ continueRead(c) \/ BeginWrite(c) \/
    StartChunk(c) \/ EndChunk(c) \/ PostTask(c) \/ WakeUp(c) PROVE Fresh'
    BY <1>8, <1>11 DEF ClientClose, continueRead, Pool!Submit, BeginWrite, StartChunk,
        Pool!Start, Goes, EndChunk, Pool!Finish, Running, PostTask, WakeUp, NextFrame,
        woken, net, channels, selector, pool, handlers
<1>12. ASSUME NEW c \in Conns, Unanswered(c) \/ ProcessThrows(c) PROVE Fresh'
    BY <1>8, <1>12 DEF Unanswered, Goes, Running, NextFrame, ProcessThrows, net, channels,
        selector, pool, handlers
<1>13. ASSUME NEW c \in Conns, NEW kind \in {"msg", "last"}, ClientSend(c, kind) PROVE Fresh'
    BY <1>8, <1>13 DEF ClientSend, net, channels, selector, pool, handlers
<1> QED
    BY <1>1, <1>2, <1>3, <1>4, <1>5, <1>6, <1>7, <1>9, <1>10, <1>11, <1>12, <1>13
    DEF Next, Serve, RunChunk

\* Whoever has asked for the write interest has asked for it still, until the
\* selector thread runs a task.
LEMMA AskedStays ==
    ASSUME TypeOK, Busy, Next, ~RunTask, NEW x \in Conns, Asked(x)
    PROVE  Asked(x)'
<1>1. /\ DOMAIN worker = Conns /\ DOMAIN dest = Conns /\ selectorTasks \in Seq(Conns)
    BY DEF TypeOK
<1>2. ASSUME UNCHANGED <<selectorTasks, worker, dest>> PROVE Asked(x)'
    BY <1>2 DEF Asked, Running
<1>3. ASSUME NEW c \in Conns, worker[c] # "post", NEW pc, NEW to,
             worker' = [worker EXCEPT ![c] = pc],
             dest' = dest \/ dest' = [dest EXCEPT ![c] = to],
             selectorTasks' = selectorTasks
      PROVE  Asked(x)'
  <2>1. CASE x \in ToSet(selectorTasks)
      BY <2>1, <1>3 DEF Asked
  <2>2. ASSUME NEW d \in Conns, Running(d, "post"), dest[d] = x PROVE Asked(x)'
    <3>1. d # c /\ worker'[d] = "post" /\ dest'[d] = x
        BY <1>1, <1>3, <2>2 DEF Running
    <3> QED
        BY <3>1 DEF Asked, Running
  <2> QED
      BY <2>1, <2>2 DEF Asked
<1>4. ASSUME NEW c \in Conns, ClientClose(c) PROVE Asked(x)'
    BY <1>2, <1>4 DEF ClientClose, net, channels, selector, pool, handlers
<1>5. ASSUME NEW c \in Conns, NEW kind \in {"msg", "last"}, ClientSend(c, kind) PROVE Asked(x)'
    BY <1>2, <1>5 DEF ClientSend, net, channels, selector, pool, handlers
<1>6. ASSUME Select PROVE Asked(x)'
    BY <1>2, <1>6 DEF Select, net, channels, selector, pool, handlers
<1>7. ASSUME TasksDone PROVE Asked(x)'
    BY <1>2, <1>7 DEF TasksDone, net, channels, selector, pool, handlers
<1>8. ASSUME KeysDone PROVE Asked(x)'
    BY <1>2, <1>8 DEF KeysDone, net, channels, selector, pool, handlers
<1>9. ASSUME NEW c \in Conns, handleAccept(c) PROVE Asked(x)'
    BY <1>2, <1>9 DEF handleAccept, net, channels, selector, pool, handlers
<1>10. ASSUME NEW c \in Conns, continueRead(c) PROVE Asked(x)'
    BY <1>2, <1>10 DEF continueRead, Pool!Submit, net, channels, selector, pool, handlers
<1>11. ASSUME NEW c \in Conns, continueReadEnds(c) PROVE Asked(x)'
    BY <1>2, <1>11 DEF continueReadEnds, close, net, channels, selector, pool, handlers
<1>12. ASSUME NEW c \in Conns, BeginWrite(c) PROVE Asked(x)'
    BY <1>2, <1>12 DEF BeginWrite, net, channels, selector, pool, handlers
<1>13. ASSUME WriteAllDone PROVE Asked(x)'
    BY <1>2, <1>13 DEF WriteAllDone, net, channels, selector, pool, handlers
<1>14. ASSUME WriteSettles PROVE Asked(x)'
    BY <1>2, <1>14 DEF WriteSettles, settledOps, net, channels, selector, pool, handlers
<1>15. ASSUME WriteCloses PROVE Asked(x)'
    BY <1>2, <1>15 DEF WriteCloses, close, net, channels, selector, pool, handlers
<1>16. ASSUME WriteFrame PROVE Asked(x)'
    BY <1>2, <1>16 DEF WriteFrame, net, channels, selector, pool, handlers
<1>17. ASSUME WritePart PROVE Asked(x)'
    BY <1>2, <1>17 DEF WritePart, net, channels, selector, pool, handlers
<1>18. ASSUME WriteFails PROVE Asked(x)'
    BY <1>2, <1>18 DEF WriteFails, close, net, channels, selector, pool, handlers
<1>19. ASSUME NEW c \in Conns, StartChunk(c) PROVE Asked(x)'
  <2>1. worker[c] = "idle"
      BY <1>19 DEF StartChunk, Pool!Start, Busy
  <2>2. worker' = [worker EXCEPT ![c] = "run"] /\ dest' = dest /\ selectorTasks' = selectorTasks
      BY <1>19 DEF StartChunk, Goes
  <2> QED
      BY <1>3, <2>1, <2>2
<1>20. ASSUME NEW c \in Conns, EndChunk(c) PROVE Asked(x)'
  <2>1. /\ worker[c] # "post" /\ selectorTasks' = selectorTasks /\ dest' = dest
        /\ worker' = [worker EXCEPT ![c] = "idle"]
      BY <1>20 DEF EndChunk, Goes, Running
  <2> QED
      BY <1>3, <2>1
<1>21. ASSUME NEW c \in Conns, NEW d \in Conns, SendFrame(c, d) PROVE Asked(x)'
  <2>1. /\ worker[c] # "post" /\ selectorTasks' = selectorTasks /\ dest' = [dest EXCEPT ![c] = d]
        /\ worker' = [worker EXCEPT ![c] = "post"]
      BY <1>21 DEF SendFrame, Goes, Running
  <2> QED
      BY <1>3, <2>1
<1>22. ASSUME NEW c \in Conns, PostTask(c) PROVE Asked(x)'
  <2>1. /\ selectorTasks' = Append(selectorTasks, dest[c]) /\ dest' = dest
        /\ worker' = [worker EXCEPT ![c] = "wake"] /\ worker[c] = "post"
      BY <1>22 DEF PostTask, Goes, Running
  <2>2. dest[c] \in Conns
      BY <2>1 DEF Busy
  <2>3. ToSet(selectorTasks') = ToSet(selectorTasks) \cup {dest[c]}
      BY <1>1, <2>1, <2>2, ToSetAppend
  <2>4. CASE x \in ToSet(selectorTasks)
      BY <2>3, <2>4 DEF Asked
  <2>5. ASSUME NEW d \in Conns, Running(d, "post"), dest[d] = x PROVE Asked(x)'
    <3>1. CASE d = c
        BY <2>3, <2>5, <3>1 DEF Asked
    <3>2. CASE d # c
      <4>1. worker'[d] = "post" /\ dest'[d] = x
          BY <1>1, <2>1, <2>5, <3>2 DEF Running
      <4> QED
          BY <4>1 DEF Asked, Running
    <3> QED
        BY <3>1, <3>2
  <2> QED
      BY <2>4, <2>5 DEF Asked
<1>23. ASSUME NEW c \in Conns, WakeUp(c) PROVE Asked(x)'
  <2>1. worker[c] # "post" /\ selectorTasks' = selectorTasks /\ dest' = [dest EXCEPT ![c] = Null]
      BY <1>23 DEF WakeUp, Running
  <2>2. worker' = [worker EXCEPT ![c] = "leave"] \/ worker' = [worker EXCEPT ![c] = "run"]
      BY <1>23 DEF WakeUp, Goes
  <2> QED
      BY <1>3, <2>1, <2>2
<1>24. ASSUME NEW c \in Conns, Unanswered(c) PROVE Asked(x)'
  <2>1. worker[c] # "post" /\ selectorTasks' = selectorTasks /\ dest' = dest
      BY <1>24 DEF Unanswered, Running
  <2>2. worker' = [worker EXCEPT ![c] = "leave"] \/ worker' = worker
      BY <1>24 DEF Unanswered, Goes
  <2> QED
      BY <1>2, <1>3, <2>1, <2>2
<1>25. ASSUME NEW c \in Conns, Leave(c) PROVE Asked(x)'
  <2>1. /\ worker[c] # "post" /\ selectorTasks' = selectorTasks /\ dest' = dest
        /\ worker' = [worker EXCEPT ![c] = "run"]
      BY <1>25 DEF Leave, Goes, Running
  <2> QED
      BY <1>3, <2>1
<1>26. ASSUME NEW c \in Conns, ProcessThrows(c) PROVE Asked(x)'
    BY <1>2, <1>26 DEF ProcessThrows, Running, net, channels, selector, pool, handlers
<1>27. ASSUME CloseServer PROVE Asked(x)'
    BY <1>2, <1>27 DEF CloseServer, Pool!Drop, net, channels, selector, pool, handlers
<1> QED
    BY <1>4, <1>5, <1>6, <1>7, <1>8, <1>9, <1>10, <1>11, <1>12, <1>13, <1>14, <1>15, <1>16, <1>17, <1>18, <1>19, <1>20, <1>21, <1>22, <1>23, <1>24, <1>25, <1>26, <1>27
    DEF Next, Serve, RunChunk

\* Between the check of the queue and the end of updateInterestedOps() frames may be
\* queued for the connection; each of them asks for the write interest.
LEMMA StepSettled ==
    ASSUME Shape, Settled, Next
    PROVE  Settled'
<1> USE DEF Shape
<1> SUFFICES ASSUME sel' = "settle", writeQueue'[at'] > 0 PROVE Asked(at)'
    BY DEF Settled
<1>1. ~RunTask
    BY DEF RunTask
<1>2. ASSUME UNCHANGED <<sel, at, writeQueue>> PROVE Asked(at)'
  <2>1. at \in Conns /\ Asked(at)
      BY <1>2 DEF Settled, WritingTo
  <2> QED
      BY <1>1, <1>2, <2>1, AskedStays
<1>3. ASSUME WriteAllDone PROVE Asked(at)'
  <2>1. writeQueue'[at'] = 0
      BY <1>3 DEF WriteAllDone, handlers
  <2> QED
      BY <2>1
<1>4. ASSUME NEW c \in Conns, NEW d \in Conns, SendFrame(c, d) PROVE Asked(at)'
  <2>1. /\ at' = at /\ sel = "settle" /\ at \in Conns
        /\ dest' = [dest EXCEPT ![c] = d] /\ worker' = [worker EXCEPT ![c] = "post"]
        /\ writeQueue' = [writeQueue EXCEPT ![d] = @ + 1]
      BY <1>4 DEF SendFrame, Goes, selector, WritingTo
  <2>2. /\ DOMAIN dest = Conns /\ DOMAIN worker = Conns
      BY DEF TypeOK
  <2>3. CASE d = at
    <3>1. worker'[c] = "post" /\ dest'[c] = at'
        BY <2>1, <2>2, <2>3
    <3> QED
        BY <3>1 DEF Asked, Running
  <2>4. CASE d # at
    <3>1. writeQueue'[at] = writeQueue[at]
        BY <2>1, <2>4
    <3>2. Asked(at)
        BY <2>1, <3>1 DEF Settled
    <3> QED
        BY <1>1, <2>1, <3>2, AskedStays
  <2> QED
      BY <2>3, <2>4
<1>5. ASSUME NEW c \in Conns, ClientClose(c) PROVE Asked(at)'
    BY <1>2, <1>5 DEF ClientClose, net, channels, selector, pool, handlers
<1>6. ASSUME NEW c \in Conns, NEW kind \in {"msg", "last"}, ClientSend(c, kind) PROVE Asked(at)'
    BY <1>2, <1>6 DEF ClientSend, net, channels, selector, pool, handlers
<1>7. ASSUME Select PROVE Asked(at)'
    BY <1>7 DEF Select, net, channels, selector, pool, handlers
<1>8. ASSUME RunTask PROVE Asked(at)'
    BY <1>8 DEF RunTask, net, channels, selector, pool, handlers
<1>9. ASSUME TasksDone PROVE Asked(at)'
    BY <1>9 DEF TasksDone, net, channels, selector, pool, handlers
<1>10. ASSUME KeysDone PROVE Asked(at)'
    BY <1>10 DEF KeysDone, net, channels, selector, pool, handlers
<1>11. ASSUME NEW c \in Conns, handleAccept(c) PROVE Asked(at)'
    BY <1>11 DEF handleAccept, net, channels, selector, pool, handlers
<1>12. ASSUME NEW c \in Conns, continueRead(c) PROVE Asked(at)'
    BY <1>12 DEF continueRead, Pool!Submit, net, channels, selector, pool, handlers
<1>13. ASSUME NEW c \in Conns, continueReadEnds(c) PROVE Asked(at)'
    BY <1>13 DEF continueReadEnds, close, net, channels, selector, pool, handlers
<1>14. ASSUME NEW c \in Conns, BeginWrite(c) PROVE Asked(at)'
    BY <1>14 DEF BeginWrite, net, channels, selector, pool, handlers
<1>15. ASSUME WriteSettles PROVE Asked(at)'
    BY <1>15 DEF WriteSettles, settledOps, net, channels, selector, pool, handlers
<1>16. ASSUME WriteCloses PROVE Asked(at)'
    BY <1>16 DEF WriteCloses, close, net, channels, selector, pool, handlers
<1>17. ASSUME WriteFrame PROVE Asked(at)'
    BY <1>17 DEF WriteFrame, net, channels, selector, pool, handlers
<1>18. ASSUME WritePart PROVE Asked(at)'
    BY <1>18 DEF WritePart, net, channels, selector, pool, handlers
<1>19. ASSUME WriteFails PROVE Asked(at)'
    BY <1>19 DEF WriteFails, close, net, channels, selector, pool, handlers
<1>20. ASSUME NEW c \in Conns, StartChunk(c) PROVE Asked(at)'
    BY <1>2, <1>20 DEF StartChunk, Pool!Start, Goes, net, channels, selector, pool, handlers
<1>21. ASSUME NEW c \in Conns, EndChunk(c) PROVE Asked(at)'
    BY <1>2, <1>21 DEF EndChunk, Pool!Finish, Goes, Running, net, channels, selector, pool, handlers
<1>22. ASSUME NEW c \in Conns, PostTask(c) PROVE Asked(at)'
    BY <1>2, <1>22 DEF PostTask, Goes, Running, net, channels, selector, pool, handlers
<1>23. ASSUME NEW c \in Conns, WakeUp(c) PROVE Asked(at)'
    BY <1>2, <1>23 DEF WakeUp, Goes, Running, NextFrame, woken, net, channels, selector, pool, handlers
<1>24. ASSUME NEW c \in Conns, Unanswered(c) PROVE Asked(at)'
    BY <1>2, <1>24 DEF Unanswered, Goes, Running, NextFrame, net, channels, selector, pool, handlers
<1>25. ASSUME NEW c \in Conns, Leave(c) PROVE Asked(at)'
    BY <1>2, <1>25 DEF Leave, Goes, Running, NextFrame, net, channels, selector, pool, handlers
<1>26. ASSUME NEW c \in Conns, ProcessThrows(c) PROVE Asked(at)'
    BY <1>2, <1>26 DEF ProcessThrows, Running, net, channels, selector, pool, handlers
<1>27. ASSUME CloseServer PROVE Asked(at)'
    BY <1>27 DEF CloseServer, Pool!Drop, net, channels, selector, pool, handlers
<1> QED
    BY <1>3, <1>4, <1>5, <1>6, <1>7, <1>8, <1>9, <1>10, <1>11, <1>12, <1>13, <1>14, <1>15, <1>16, <1>17, <1>18, <1>19, <1>20, <1>21, <1>22, <1>23, <1>24, <1>25, <1>26, <1>27
    DEF Next, Serve, RunChunk

\* A queued frame keeps its write interest, or somebody who has asked for it.
LEMMA StepWritten ==
    ASSUME Shape, Settled, Written, Next
    PROVE  Written'
<1> USE DEF Shape
<1> SUFFICES ASSUME NEW x \in Conns, Serving', chan'[x] = "open", writeQueue'[x] > 0
             PROVE  "write" \in ops'[x] \/ Asked(x)'
    BY DEF Written
<1>1. /\ DOMAIN chan = Conns /\ DOMAIN ops = Conns /\ DOMAIN writeQueue = Conns
      /\ DOMAIN dest = Conns /\ DOMAIN worker = Conns /\ selectorTasks \in Seq(Conns)
      /\ \A c \in Conns : writeQueue[c] \in Nat
    BY DEF TypeOK
<1>2. ASSUME ~RunTask, Serving, chan[x] = "open", writeQueue[x] > 0, "write" \in ops[x] => "write" \in ops'[x]
      PROVE  "write" \in ops'[x] \/ Asked(x)'
    BY <1>2, AskedStays DEF Written
<1>3. ASSUME RunTask PROVE "write" \in ops'[x] \/ Asked(x)'
  <2>1. /\ selectorTasks # <<>> /\ selectorTasks' = Tail(selectorTasks) /\ sel = "tasks"
        /\ chan[Head(selectorTasks)] = "open"
        /\ ops' = [ops EXCEPT ![Head(selectorTasks)] = {"read", "write"}]
        /\ chan' = chan /\ writeQueue' = writeQueue /\ worker' = worker /\ dest' = dest
      BY <1>3 DEF RunTask, Serving, handlers
  <2>2. CASE x = Head(selectorTasks)
      BY <1>1, <2>1, <2>2
  <2>3. CASE x # Head(selectorTasks)
    <3>1. ops'[x] = ops[x]
        BY <1>1, <2>1, <2>3
    <3>2. "write" \in ops[x] \/ Asked(x)
        BY <2>1 DEF Written, Serving
    <3>3. CASE x \in ToSet(selectorTasks)
        BY <1>1, <2>1, <2>3, <3>3, ToSetTail DEF Asked
    <3>4. CASE \E d \in Conns : Running(d, "post") /\ dest[d] = x
        BY <2>1, <3>4 DEF Asked, Running
    <3> QED
        BY <3>1, <3>2, <3>3, <3>4 DEF Asked
  <2> QED
      BY <2>2, <2>3
<1>4. ASSUME NEW c \in Conns, NEW d \in Conns, SendFrame(c, d)
      PROVE  "write" \in ops'[x] \/ Asked(x)'
  <2>1. /\ dest' = [dest EXCEPT ![c] = d] /\ worker' = [worker EXCEPT ![c] = "post"]
        /\ writeQueue' = [writeQueue EXCEPT ![d] = @ + 1] /\ UNCHANGED <<chan, ops, sel>>
      BY <1>4 DEF SendFrame, Goes, channels, selector
  <2>2. CASE d = x
    <3>1. worker'[c] = "post" /\ dest'[c] = x
        BY <1>1, <2>1, <2>2
    <3> QED
        BY <3>1 DEF Asked, Running
  <2>3. CASE d # x
    <3>1. writeQueue[x] > 0
        BY <1>1, <2>1, <2>3
    <3>2. ~RunTask
        BY <1>4 DEF RunTask, SendFrame, Goes, handlers, Running
    <3> QED
        BY <1>2, <2>1, <3>1, <3>2 DEF Serving
  <2> QED
      BY <2>2, <2>3
<1>5. ASSUME NEW c \in Conns, handleAccept(c) PROVE "write" \in ops'[x] \/ Asked(x)'
  <2>1. /\ <<c, "accept">> \in selected /\ UNCHANGED <<sel, writeQueue>> /\ sel = "keys"
        /\ chan' = [chan EXCEPT ![c] = "open"] /\ ops' = [ops EXCEPT ![c] = {"read"}]
      BY <1>5 DEF handleAccept
  <2>2. chan[c] = "connecting"
      BY <2>1 DEF SelectedFor
  <2>3. x # c
      BY <2>1, <2>2 DEF Fresh
  <2>4. ~RunTask
      BY <2>1 DEF RunTask
  <2> QED
      BY <1>1, <1>2, <2>1, <2>3, <2>4 DEF Serving
<1>6. ASSUME WriteSettles PROVE "write" \in ops'[x] \/ Asked(x)'
  <2>1. /\ sel = "settle" /\ UNCHANGED <<chan, writeQueue>> /\ ~RunTask
        /\ ops' = [ops EXCEPT ![at] = {"read"}]
      BY <1>6 DEF WriteSettles, settledOps, handlers, RunTask
  <2>2. CASE x = at
      BY <2>1, <2>2, AskedStays DEF Settled
  <2>3. CASE x # at
      BY <1>1, <1>2, <2>1, <2>3 DEF Serving
  <2> QED
      BY <2>2, <2>3
<1>7. ASSUME NEW c \in Conns, ClientClose(c) PROVE "write" \in ops'[x] \/ Asked(x)'
  <2>1. Serving /\ chan[x] = "open" /\ writeQueue[x] > 0 /\ ops' = ops
      BY <1>1, <1>7 DEF ClientClose, net, channels, selector, pool, handlers, Serving
  <2>2. ~RunTask
      BY <1>7 DEF ClientClose, net, channels, selector, pool, handlers, RunTask
  <2> QED
      BY <1>2, <2>1, <2>2
<1>8. ASSUME NEW c \in Conns, NEW kind \in {"msg", "last"}, ClientSend(c, kind) PROVE "write" \in ops'[x] \/ Asked(x)'
  <2>1. Serving /\ chan[x] = "open" /\ writeQueue[x] > 0 /\ ops' = ops
      BY <1>1, <1>8 DEF ClientSend, net, channels, selector, pool, handlers, Serving
  <2>2. ~RunTask
      BY <1>8 DEF ClientSend, net, channels, selector, pool, handlers, RunTask
  <2> QED
      BY <1>2, <2>1, <2>2
<1>9. ASSUME Select PROVE "write" \in ops'[x] \/ Asked(x)'
  <2>1. Serving /\ chan[x] = "open" /\ writeQueue[x] > 0 /\ ops' = ops
      BY <1>1, <1>9 DEF Select, net, channels, selector, pool, handlers, Serving
  <2>2. ~RunTask
      BY <1>9 DEF Select, net, channels, selector, pool, handlers, RunTask
  <2> QED
      BY <1>2, <2>1, <2>2
<1>10. ASSUME TasksDone PROVE "write" \in ops'[x] \/ Asked(x)'
  <2>1. Serving /\ chan[x] = "open" /\ writeQueue[x] > 0 /\ ops' = ops
      BY <1>1, <1>10 DEF TasksDone, net, channels, selector, pool, handlers, Serving
  <2>2. ~RunTask
      BY <1>10 DEF TasksDone, net, channels, selector, pool, handlers, RunTask
  <2> QED
      BY <1>2, <2>1, <2>2
<1>11. ASSUME KeysDone PROVE "write" \in ops'[x] \/ Asked(x)'
  <2>1. Serving /\ chan[x] = "open" /\ writeQueue[x] > 0 /\ ops' = ops
      BY <1>1, <1>11 DEF KeysDone, net, channels, selector, pool, handlers, Serving
  <2>2. ~RunTask
      BY <1>11 DEF KeysDone, net, channels, selector, pool, handlers, RunTask
  <2> QED
      BY <1>2, <2>1, <2>2
<1>12. ASSUME NEW c \in Conns, continueRead(c) PROVE "write" \in ops'[x] \/ Asked(x)'
  <2>1. Serving /\ chan[x] = "open" /\ writeQueue[x] > 0 /\ ops' = ops
      BY <1>1, <1>12 DEF continueRead, Pool!Submit, net, channels, selector, pool, handlers, Serving
  <2>2. ~RunTask
      BY <1>12 DEF continueRead, Pool!Submit, net, channels, selector, pool, handlers, RunTask
  <2> QED
      BY <1>2, <2>1, <2>2
<1>13. ASSUME NEW c \in Conns, continueReadEnds(c) PROVE "write" \in ops'[x] \/ Asked(x)'
  <2>1. Serving /\ chan[x] = "open" /\ writeQueue[x] > 0 /\ ops' = ops
      BY <1>1, <1>13 DEF continueReadEnds, close, net, channels, selector, pool, handlers, Serving
  <2>2. ~RunTask
      BY <1>13 DEF continueReadEnds, close, net, channels, selector, pool, handlers, RunTask
  <2> QED
      BY <1>2, <2>1, <2>2
<1>14. ASSUME NEW c \in Conns, BeginWrite(c) PROVE "write" \in ops'[x] \/ Asked(x)'
  <2>1. Serving /\ chan[x] = "open" /\ writeQueue[x] > 0 /\ ops' = ops
      BY <1>1, <1>14 DEF BeginWrite, net, channels, selector, pool, handlers, Serving
  <2>2. ~RunTask
      BY <1>14 DEF BeginWrite, net, channels, selector, pool, handlers, RunTask
  <2> QED
      BY <1>2, <2>1, <2>2
<1>15. ASSUME WriteAllDone PROVE "write" \in ops'[x] \/ Asked(x)'
  <2>1. Serving /\ chan[x] = "open" /\ writeQueue[x] > 0 /\ ops' = ops
      BY <1>1, <1>15 DEF WriteAllDone, net, channels, selector, pool, handlers, Serving
  <2>2. ~RunTask
      BY <1>15 DEF WriteAllDone, net, channels, selector, pool, handlers, RunTask
  <2> QED
      BY <1>2, <2>1, <2>2
<1>16. ASSUME WriteCloses PROVE "write" \in ops'[x] \/ Asked(x)'
  <2>1. Serving /\ chan[x] = "open" /\ writeQueue[x] > 0 /\ ops' = ops
      BY <1>1, <1>16 DEF WriteCloses, close, net, channels, selector, pool, handlers, Serving
  <2>2. ~RunTask
      BY <1>16 DEF WriteCloses, close, net, channels, selector, pool, handlers, RunTask
  <2> QED
      BY <1>2, <2>1, <2>2
<1>17. ASSUME WriteFrame PROVE "write" \in ops'[x] \/ Asked(x)'
  <2>1. /\ sel = "write" /\ writeQueue' = [writeQueue EXCEPT ![at] = @ - 1]
        /\ UNCHANGED <<chan, ops>> /\ ~RunTask
      BY <1>17 DEF WriteFrame, channels, RunTask
  <2>2. writeQueue[x] > 0
      BY <1>1, <2>1
  <2> QED
      BY <1>2, <2>1, <2>2 DEF Serving
<1>18. ASSUME WritePart PROVE "write" \in ops'[x] \/ Asked(x)'
  <2>1. Serving /\ chan[x] = "open" /\ writeQueue[x] > 0 /\ ops' = ops
      BY <1>1, <1>18 DEF WritePart, net, channels, selector, pool, handlers, Serving
  <2>2. ~RunTask
      BY <1>18 DEF WritePart, net, channels, selector, pool, handlers, RunTask
  <2> QED
      BY <1>2, <2>1, <2>2
<1>19. ASSUME WriteFails PROVE "write" \in ops'[x] \/ Asked(x)'
  <2>1. Serving /\ chan[x] = "open" /\ writeQueue[x] > 0 /\ ops' = ops
      BY <1>1, <1>19 DEF WriteFails, close, net, channels, selector, pool, handlers, Serving
  <2>2. ~RunTask
      BY <1>19 DEF WriteFails, close, net, channels, selector, pool, handlers, RunTask
  <2> QED
      BY <1>2, <2>1, <2>2
<1>20. ASSUME NEW c \in Conns, StartChunk(c) PROVE "write" \in ops'[x] \/ Asked(x)'
  <2>1. Serving /\ chan[x] = "open" /\ writeQueue[x] > 0 /\ ops' = ops
      BY <1>1, <1>20 DEF StartChunk, Pool!Start, Goes, net, channels, selector, pool, handlers, Serving
  <2>2. ~RunTask
      BY <1>20 DEF StartChunk, Pool!Start, Goes, net, channels, selector, pool, handlers, RunTask
  <2> QED
      BY <1>2, <2>1, <2>2
<1>21. ASSUME NEW c \in Conns, EndChunk(c) PROVE "write" \in ops'[x] \/ Asked(x)'
  <2>1. Serving /\ chan[x] = "open" /\ writeQueue[x] > 0 /\ ops' = ops
      BY <1>1, <1>21 DEF EndChunk, Pool!Finish, Goes, Running, net, channels, selector, pool, handlers, Serving
  <2>2. ~RunTask
      BY <1>21 DEF EndChunk, Pool!Finish, Goes, Running, net, channels, selector, pool, handlers, RunTask
  <2> QED
      BY <1>2, <2>1, <2>2
<1>22. ASSUME NEW c \in Conns, PostTask(c) PROVE "write" \in ops'[x] \/ Asked(x)'
  <2>1. Serving /\ chan[x] = "open" /\ writeQueue[x] > 0 /\ ops' = ops
      BY <1>1, <1>22 DEF PostTask, Goes, Running, net, channels, selector, pool, handlers, Serving
  <2>2. ~RunTask
      BY <1>22 DEF PostTask, Goes, Running, net, channels, selector, pool, handlers, RunTask
  <2> QED
      BY <1>2, <2>1, <2>2
<1>23. ASSUME NEW c \in Conns, WakeUp(c) PROVE "write" \in ops'[x] \/ Asked(x)'
  <2>1. Serving /\ chan[x] = "open" /\ writeQueue[x] > 0 /\ ops' = ops
      BY <1>1, <1>23 DEF WakeUp, Goes, Running, NextFrame, woken, net, channels, selector, pool, handlers, Serving
  <2>2. selectorTasks' = selectorTasks
      BY <1>23 DEF WakeUp
  <2>3. selectorTasks # <<>> => Len(Tail(selectorTasks)) # Len(selectorTasks)
      BY <1>1
  <2>4. ~RunTask
      BY <2>2, <2>3 DEF RunTask
  <2> QED
      BY <1>2, <2>1, <2>4
<1>24. ASSUME NEW c \in Conns, Unanswered(c) PROVE "write" \in ops'[x] \/ Asked(x)'
  <2>1. Serving /\ chan[x] = "open" /\ writeQueue[x] > 0 /\ ops' = ops
      BY <1>1, <1>24 DEF Unanswered, Goes, Running, NextFrame, net, channels, selector, pool, handlers, Serving
  <2>2. ~RunTask
      BY <1>24 DEF Unanswered, Goes, Running, NextFrame, net, channels, selector, pool, handlers, RunTask
  <2> QED
      BY <1>2, <2>1, <2>2
<1>25. ASSUME NEW c \in Conns, Leave(c) PROVE "write" \in ops'[x] \/ Asked(x)'
  <2>1. Serving /\ chan[x] = "open" /\ writeQueue[x] > 0 /\ ops' = ops
      BY <1>1, <1>25 DEF Leave, Goes, Running, NextFrame, net, channels, selector, pool, handlers, Serving
  <2>2. ~RunTask
      BY <1>25 DEF Leave, Goes, Running, NextFrame, net, channels, selector, pool, handlers, RunTask
  <2> QED
      BY <1>2, <2>1, <2>2
<1>26. ASSUME NEW c \in Conns, ProcessThrows(c) PROVE "write" \in ops'[x] \/ Asked(x)'
  <2>1. Serving /\ chan[x] = "open" /\ writeQueue[x] > 0 /\ ops' = ops
      BY <1>1, <1>26 DEF ProcessThrows, Running, net, channels, selector, pool, handlers, Serving
  <2>2. ~RunTask
      BY <1>26 DEF ProcessThrows, Running, net, channels, selector, pool, handlers, RunTask
  <2> QED
      BY <1>2, <2>1, <2>2
<1>27. ASSUME CloseServer PROVE "write" \in ops'[x] \/ Asked(x)'
  <2>1. Serving /\ chan[x] = "open" /\ writeQueue[x] > 0 /\ ops' = ops
      BY <1>1, <1>27 DEF CloseServer, Pool!Drop, net, channels, selector, pool, handlers, Serving
  <2>2. ~RunTask
      BY <1>27 DEF CloseServer, Pool!Drop, net, channels, selector, pool, handlers, RunTask
  <2> QED
      BY <1>2, <2>1, <2>2
<1> QED
    BY <1>3, <1>4, <1>5, <1>6, <1>7, <1>8, <1>9, <1>10, <1>11, <1>12, <1>13, <1>14, <1>15, <1>16, <1>17, <1>18, <1>19, <1>20, <1>21, <1>22, <1>23, <1>24, <1>25, <1>26, <1>27
    DEF Next, Serve, RunChunk

\* A task in the queue has its wakeup(), or a thread that is about to call it.
LEMMA StepWoken ==
    ASSUME Shape, Woken, Next
    PROVE  Woken'
<1> USE DEF Shape
<1> DEFINE Coming == wakeup \/ \E d \in Conns : Running(d, "wake")
<1> SUFFICES ASSUME Serving', sel' # "tasks", selectorTasks' # <<>> PROVE Coming'
    BY DEF Woken
<1>1. DOMAIN worker = Conns
    BY DEF TypeOK
<1>2. ASSUME Serving, sel # "tasks", UNCHANGED <<selectorTasks, worker, wakeup>> PROVE Coming'
    BY <1>2 DEF Woken, Running
<1>3. ASSUME NEW c \in Conns, worker[c] # "wake", NEW pc, worker' = [worker EXCEPT ![c] = pc],
             UNCHANGED <<sel, selectorTasks, wakeup>>
      PROVE  Coming'
    BY <1>1, <1>3 DEF Woken, Running, Serving
<1>4. ASSUME NEW c \in Conns, ClientClose(c) PROVE Coming'
    BY <1>2, <1>4 DEF ClientClose, net, channels, selector, pool, handlers, Serving
<1>5. ASSUME NEW c \in Conns, NEW kind \in {"msg", "last"}, ClientSend(c, kind) PROVE Coming'
    BY <1>2, <1>5 DEF ClientSend, net, channels, selector, pool, handlers, Serving
<1>6. ASSUME Select PROVE Coming'
    BY <1>6 DEF Select, Serving
<1>7. ASSUME RunTask PROVE Coming'
    BY <1>7 DEF RunTask, Serving
<1>8. ASSUME TasksDone PROVE Coming'
    BY <1>8 DEF TasksDone, Serving
<1>9. ASSUME KeysDone PROVE Coming'
    BY <1>2, <1>9 DEF KeysDone, net, channels, selector, pool, handlers, Serving
<1>10. ASSUME NEW c \in Conns, handleAccept(c) PROVE Coming'
    BY <1>2, <1>10 DEF handleAccept, net, channels, selector, pool, handlers, Serving
<1>11. ASSUME NEW c \in Conns, continueRead(c) PROVE Coming'
    BY <1>2, <1>11 DEF continueRead, Pool!Submit, net, channels, selector, pool, handlers, Serving
<1>12. ASSUME NEW c \in Conns, continueReadEnds(c) PROVE Coming'
    BY <1>2, <1>12 DEF continueReadEnds, close, net, channels, selector, pool, handlers, Serving
<1>13. ASSUME NEW c \in Conns, BeginWrite(c) PROVE Coming'
    BY <1>2, <1>13 DEF BeginWrite, net, channels, selector, pool, handlers, Serving
<1>14. ASSUME WriteAllDone PROVE Coming'
    BY <1>2, <1>14 DEF WriteAllDone, net, channels, selector, pool, handlers, Serving
<1>15. ASSUME WriteSettles PROVE Coming'
    BY <1>2, <1>15 DEF WriteSettles, settledOps, net, channels, selector, pool, handlers, Serving
<1>16. ASSUME WriteCloses PROVE Coming'
    BY <1>2, <1>16 DEF WriteCloses, close, net, channels, selector, pool, handlers, Serving
<1>17. ASSUME WriteFrame PROVE Coming'
    BY <1>2, <1>17 DEF WriteFrame, net, channels, selector, pool, handlers, Serving
<1>18. ASSUME WritePart PROVE Coming'
    BY <1>2, <1>18 DEF WritePart, net, channels, selector, pool, handlers, Serving
<1>19. ASSUME WriteFails PROVE Coming'
    BY <1>2, <1>19 DEF WriteFails, close, net, channels, selector, pool, handlers, Serving
<1>20. ASSUME NEW c \in Conns, StartChunk(c) PROVE Coming'
  <2>1. worker[c] = "idle"
      BY <1>20 DEF StartChunk, Pool!Start, Busy
  <2>2. worker' = [worker EXCEPT ![c] = "run"] /\ UNCHANGED <<sel, selectorTasks, wakeup>>
      BY <1>20 DEF StartChunk, Goes, selector
  <2> QED
      BY <1>3, <2>1, <2>2
<1>21. ASSUME NEW c \in Conns, EndChunk(c) PROVE Coming'
  <2>1. /\ worker[c] # "wake" /\ worker' = [worker EXCEPT ![c] = "idle"]
        /\ UNCHANGED <<sel, selectorTasks, wakeup>>
      BY <1>21 DEF EndChunk, Goes, Running, selector
  <2> QED
      BY <1>3, <2>1
<1>22. ASSUME NEW c \in Conns, NEW d \in Conns, SendFrame(c, d) PROVE Coming'
  <2>1. /\ worker[c] # "wake" /\ worker' = [worker EXCEPT ![c] = "post"]
        /\ UNCHANGED <<sel, selectorTasks, wakeup>>
      BY <1>22 DEF SendFrame, Goes, Running, selector
  <2> QED
      BY <1>3, <2>1
<1>23. ASSUME NEW c \in Conns, PostTask(c) PROVE Coming'
  <2>1. worker'[c] = "wake"
      BY <1>1, <1>23 DEF PostTask, Goes
  <2> QED
      BY <2>1 DEF Running
<1>24. ASSUME NEW c \in Conns, WakeUp(c) PROVE Coming'
    BY <1>24 DEF WakeUp, woken
<1>25. ASSUME NEW c \in Conns, Unanswered(c) PROVE Coming'
  <2>1. worker[c] # "wake" /\ UNCHANGED <<sel, selectorTasks, wakeup>>
      BY <1>25 DEF Unanswered, Running, selector
  <2>2. worker' = [worker EXCEPT ![c] = "leave"] \/ worker' = worker
      BY <1>25 DEF Unanswered, Goes
  <2> QED
      BY <1>2, <1>3, <2>1, <2>2 DEF Serving
<1>26. ASSUME NEW c \in Conns, Leave(c) PROVE Coming'
  <2>1. /\ worker[c] # "wake" /\ worker' = [worker EXCEPT ![c] = "run"]
        /\ UNCHANGED <<sel, selectorTasks, wakeup>>
      BY <1>26 DEF Leave, Goes, Running, selector
  <2> QED
      BY <1>3, <2>1
<1>27. ASSUME NEW c \in Conns, ProcessThrows(c) PROVE Coming'
    BY <1>2, <1>27 DEF ProcessThrows, Running, net, channels, selector, pool, handlers, Serving
<1>28. ASSUME CloseServer PROVE Coming'
    BY <1>28 DEF CloseServer, Serving
<1> QED
    BY <1>4, <1>5, <1>6, <1>7, <1>8, <1>9, <1>10, <1>11, <1>12, <1>13, <1>14, <1>15, <1>16, <1>17, <1>18, <1>19, <1>20, <1>21, <1>22, <1>23, <1>24, <1>25, <1>26, <1>27, <1>28
    DEF Next, Serve, RunChunk

\* Every step keeps the types.
LEMMA StepTypes ==
    ASSUME TypeOK, WireBound, Busy, SelectedFor, WritingTo, Next
    PROVE  TypeOK'
<1>1. ASSUME NEW c \in Conns, ClientClose(c) PROVE TypeOK'
    BY <1>1 DEF ClientClose, TypeOK, net, channels, selector, pool, handlers, vars
<1>2. ASSUME NEW c \in Conns, NEW kind \in {"msg", "last"}, ClientSend(c, kind) PROVE TypeOK'
  <2>1. wire[c] \in Seq({"msg", "last"}) /\ sent \in 0..MaxFrames /\ sent < MaxFrames
      BY <1>2 DEF ClientSend, TypeOK
  <2>2. Append(wire[c], kind) \in Seq({"msg", "last"})
      BY <2>1
  <2>3. wire' \in [Conns -> Seq({"msg", "last"})]
      BY <1>2, <2>2 DEF ClientSend, TypeOK
  <2>4. sent' \in 0..MaxFrames
      BY <1>2, <2>1, ReactorAssumption DEF ClientSend
  <2>8. UNCHANGED <<eof, chan, ops, sel, at, selected, selectorTasks, wakeup, mailbox, running, closed, rest, worker, dest, writeQueue, clientsToCH, shouldTerminate>>
      BY <1>2 DEF ClientSend, net, channels, selector, pool, handlers
  <2> QED
      BY <2>1, <2>2, <2>3, <2>4, <2>8 DEF TypeOK
<1>3. ASSUME Select PROVE TypeOK'
  <2>1. Ready \in SUBSET (Conns \X {"accept", "read", "write"})
    <3>1. ASSUME NEW c \in Conns PROVE {c} \X ReadyFor(c) \subseteq Conns \X {"accept", "read", "write"}
        BY DEF ReadyFor
    <3> QED
        BY <3>1 DEF Ready
  <2>2. selected' = Ready /\ sel' = "tasks" /\ wakeup' = FALSE
      BY <1>3 DEF Select
  <2>8. UNCHANGED <<wire, sent, eof, chan, ops, at, selectorTasks, mailbox, running, closed, rest, worker, dest, writeQueue, clientsToCH, shouldTerminate>>
      BY <1>3 DEF Select, net, channels, selector, pool, handlers
  <2> QED
      BY <2>1, <2>2, <2>8 DEF TypeOK
<1>4. ASSUME RunTask PROVE TypeOK'
  <2>1. /\ selectorTasks \in Seq(Conns) /\ selectorTasks # <<>> /\ selectorTasks' = Tail(selectorTasks)
      BY <1>4 DEF RunTask, TypeOK
  <2>2. selectorTasks' \in Seq(Conns) /\ Head(selectorTasks) \in Conns
      BY <2>1
  <2>3. /\ ops' \in [Conns -> SUBSET {"read", "write"}]
      BY <1>4, <2>2 DEF RunTask, TypeOK
  <2>4. sel' \in {"tasks", "dead"}
      BY <1>4 DEF RunTask
  <2>8. UNCHANGED <<wire, sent, eof, chan, at, selected, wakeup, mailbox, running, closed, rest, worker, dest, writeQueue, clientsToCH, shouldTerminate>>
      BY <1>4 DEF RunTask, net, channels, selector, pool, handlers
  <2> QED
      BY <2>1, <2>2, <2>3, <2>4, <2>8 DEF TypeOK
<1>5. ASSUME TasksDone PROVE TypeOK'
    BY <1>5 DEF TasksDone, TypeOK, net, channels, selector, pool, handlers, vars
<1>6. ASSUME KeysDone PROVE TypeOK'
    BY <1>6 DEF KeysDone, TypeOK, net, channels, selector, pool, handlers, vars
<1>7. ASSUME NEW c \in Conns, handleAccept(c) PROVE TypeOK'
    BY <1>7 DEF handleAccept, TypeOK, net, channels, selector, pool, handlers, vars
<1>8. ASSUME NEW c \in Conns, continueRead(c) PROVE TypeOK'
  <2>1. PICK n \in 1..Len(wire[c]) :
          /\ mailbox' = [mailbox EXCEPT ![c] = Append(@, SubSeq(wire[c], 1, n))]
          /\ wire' = [wire EXCEPT ![c] = SubSeq(@, n + 1, Len(@))]
      BY <1>8 DEF continueRead, Pool!Submit
  <2>2. /\ wire[c] \in Seq({"msg", "last"}) /\ mailbox[c] \in Seq(Chunk) /\ sent \in 0..MaxFrames
        /\ Len(wire[c]) <= sent
      BY DEF TypeOK, WireBound
  <2>3. n \in 1..MaxFrames
      BY <2>2, ReactorAssumption
  <2>4. SubSeq(wire[c], 1, n) \in [1..n -> {"msg", "last"}] /\ SubSeq(wire[c], n + 1, Len(wire[c])) \in Seq({"msg", "last"})
      BY <2>2, SubSeqParts
  <2>5. SubSeq(wire[c], 1, n) \in Chunk
      BY <2>3, <2>4 DEF Chunk
  <2>6. /\ mailbox' \in [Conns -> Seq(Chunk)]
        /\ wire' \in [Conns -> Seq({"msg", "last"})]
      BY <2>1, <2>2, <2>4, <2>5 DEF TypeOK
  <2>7. selected' \in SUBSET (Conns \X {"accept", "read", "write"})
      BY <1>8 DEF continueRead, TypeOK
  <2>8. UNCHANGED <<sent, eof, chan, ops, sel, at, selectorTasks, wakeup, running, closed, rest, worker, dest, writeQueue, clientsToCH, shouldTerminate>>
      BY <1>8 DEF continueRead, Pool!Submit, net, channels, selector, pool, handlers
  <2> QED
      BY <2>1, <2>2, <2>3, <2>4, <2>5, <2>6, <2>7, <2>8 DEF TypeOK
<1>9. ASSUME NEW c \in Conns, continueReadEnds(c) PROVE TypeOK'
    BY <1>9 DEF continueReadEnds, close, TypeOK, net, channels, selector, pool, handlers, vars
<1>10. ASSUME NEW c \in Conns, BeginWrite(c) PROVE TypeOK'
    BY <1>10 DEF BeginWrite, TypeOK, net, channels, selector, pool, handlers, vars
<1>11. ASSUME WriteAllDone PROVE TypeOK'
    BY <1>11 DEF WriteAllDone, TypeOK, net, channels, selector, pool, handlers, vars
<1>12. ASSUME WriteSettles PROVE TypeOK'
    BY <1>12 DEF WriteSettles, settledOps, TypeOK, net, channels, selector, pool, handlers, vars
<1>13. ASSUME WriteCloses PROVE TypeOK'
    BY <1>13 DEF WriteCloses, close, TypeOK, net, channels, selector, pool, handlers, vars
<1>14. ASSUME WriteFrame PROVE TypeOK'
  <2>1. at \in Conns /\ writeQueue[at] \in Nat /\ writeQueue[at] > 0
      BY <1>14 DEF WriteFrame, WritingTo, TypeOK
  <2>2. writeQueue' \in [Conns -> Nat]
      BY <1>14, <2>1 DEF WriteFrame, TypeOK
  <2>8. UNCHANGED <<wire, sent, eof, chan, ops, sel, at, selected, selectorTasks, wakeup, mailbox, running, closed, rest, worker, dest, clientsToCH, shouldTerminate>>
      BY <1>14 DEF WriteFrame, net, channels, selector, pool, handlers
  <2> QED
      BY <2>1, <2>2, <2>8 DEF TypeOK
<1>15. ASSUME WritePart PROVE TypeOK'
    BY <1>15 DEF WritePart, TypeOK, net, channels, selector, pool, handlers, vars
<1>16. ASSUME WriteFails PROVE TypeOK'
    BY <1>16 DEF WriteFails, close, TypeOK, net, channels, selector, pool, handlers, vars
<1>17. ASSUME NEW c \in Conns, StartChunk(c) PROVE TypeOK'
  <2>1. mailbox[c] \in Seq(Chunk) /\ mailbox[c] # <<>>
      BY <1>17 DEF StartChunk, Pool!Start, TypeOK
  <2>2. Head(mailbox[c]) \in Chunk /\ Tail(mailbox[c]) \in Seq(Chunk)
      BY <2>1
  <2>3. Head(mailbox[c]) \in Seq({"msg", "last"})
      BY <2>2, ChunkIsSeq
  <2>4. mailbox' \in [Conns -> Seq(Chunk)] /\ running' \in [Conns -> Chunk \cup {Null}]
      BY <1>17, <2>2 DEF StartChunk, Pool!Start, TypeOK
  <2>5. rest' \in [Conns -> Seq({"msg", "last"})]
      BY <1>17, <2>3 DEF StartChunk, TypeOK
  <2>6. worker' \in [Conns -> {"idle", "run", "post", "wake", "leave"}]
      BY <1>17 DEF StartChunk, Goes, TypeOK
  <2>8. UNCHANGED <<wire, sent, eof, chan, ops, sel, at, selected, selectorTasks, wakeup, closed, dest, writeQueue, clientsToCH, shouldTerminate>>
      BY <1>17 DEF StartChunk, Pool!Start, Goes, net, channels, selector, pool, handlers
  <2> QED
      BY <2>1, <2>2, <2>3, <2>4, <2>5, <2>6, <2>8 DEF TypeOK
<1>18. ASSUME NEW c \in Conns, EndChunk(c) PROVE TypeOK'
    BY <1>18 DEF EndChunk, Pool!Finish, Goes, Running, TypeOK, net, channels, selector, pool, handlers, vars
<1>19. ASSUME NEW c \in Conns, NEW d \in Conns, SendFrame(c, d) PROVE TypeOK'
  <2>1. writeQueue[d] + 1 \in Nat
      BY DEF TypeOK
  <2>2. writeQueue' \in [Conns -> Nat]
      BY <1>19, <2>1 DEF SendFrame, TypeOK
  <2>3. dest' \in [Conns -> Conns \cup {Null}] /\ worker' \in [Conns -> {"idle", "run", "post", "wake", "leave"}]
      BY <1>19 DEF SendFrame, Goes, TypeOK
  <2>8. UNCHANGED <<wire, sent, eof, chan, ops, sel, at, selected, selectorTasks, wakeup, mailbox, running, closed, rest, clientsToCH, shouldTerminate>>
      BY <1>19 DEF SendFrame, Goes, Running, net, channels, selector, pool, handlers
  <2> QED
      BY <2>1, <2>2, <2>3, <2>8 DEF TypeOK
<1>20. ASSUME NEW c \in Conns, PostTask(c) PROVE TypeOK'
  <2>1. dest[c] \in Conns /\ selectorTasks \in Seq(Conns) /\ selectorTasks' = Append(selectorTasks, dest[c])
      BY <1>20 DEF PostTask, Running, Busy, TypeOK
  <2>2. selectorTasks' \in Seq(Conns)
      BY <2>1
  <2>3. worker' \in [Conns -> {"idle", "run", "post", "wake", "leave"}]
      BY <1>20 DEF PostTask, Goes, TypeOK
  <2>8. UNCHANGED <<wire, sent, eof, chan, ops, sel, at, selected, wakeup, mailbox, running, closed, rest, dest, writeQueue, clientsToCH, shouldTerminate>>
      BY <1>20 DEF PostTask, Goes, Running, net, channels, selector, pool, handlers
  <2> QED
      BY <2>1, <2>2, <2>3, <2>8 DEF TypeOK
<1>21. ASSUME NEW c \in Conns, WakeUp(c) PROVE TypeOK'
  <2>1. rest[c] \in Seq({"msg", "last"}) /\ rest[c] # <<>>
      BY <1>21 DEF WakeUp, Running, Busy, TypeOK
  <2>2. Tail(rest[c]) \in Seq({"msg", "last"})
      BY <2>1
  <2>3. rest' \in [Conns -> Seq({"msg", "last"})]
      BY <1>21, <2>2 DEF WakeUp, NextFrame, TypeOK
  <2>4. worker' \in [Conns -> {"idle", "run", "post", "wake", "leave"}]
      BY <1>21 DEF WakeUp, Goes, TypeOK
  <2>5. dest' \in [Conns -> Conns \cup {Null}] /\ wakeup' \in BOOLEAN
      BY <1>21 DEF WakeUp, woken, TypeOK
  <2>8. UNCHANGED <<wire, sent, eof, chan, ops, sel, at, selected, selectorTasks, mailbox, running, closed, writeQueue, clientsToCH, shouldTerminate>>
      BY <1>21 DEF WakeUp, Goes, Running, NextFrame, woken, net, channels, selector, pool, handlers
  <2> QED
      BY <2>1, <2>2, <2>3, <2>4, <2>5, <2>8 DEF TypeOK
<1>22. ASSUME NEW c \in Conns, Unanswered(c) PROVE TypeOK'
  <2>1. rest[c] \in Seq({"msg", "last"}) /\ rest[c] # <<>>
      BY <1>22 DEF Unanswered, Running, Busy, TypeOK
  <2>2. Tail(rest[c]) \in Seq({"msg", "last"})
      BY <2>1
  <2>3. rest' \in [Conns -> Seq({"msg", "last"})]
      BY <1>22, <2>2 DEF Unanswered, NextFrame, TypeOK
  <2>4. worker' \in [Conns -> {"idle", "run", "post", "wake", "leave"}]
      BY <1>22 DEF Unanswered, Goes, TypeOK
  <2>8. UNCHANGED <<wire, sent, eof, chan, ops, sel, at, selected, selectorTasks, wakeup, mailbox, running, closed, dest, writeQueue, clientsToCH, shouldTerminate>>
      BY <1>22 DEF Unanswered, Goes, Running, NextFrame, net, channels, selector, pool, handlers
  <2> QED
      BY <2>1, <2>2, <2>3, <2>4, <2>8 DEF TypeOK
<1>23. ASSUME NEW c \in Conns, Leave(c) PROVE TypeOK'
  <2>1. rest[c] \in Seq({"msg", "last"}) /\ rest[c] # <<>>
      BY <1>23 DEF Leave, Running, Busy, TypeOK
  <2>2. Tail(rest[c]) \in Seq({"msg", "last"})
      BY <2>1
  <2>3. rest' \in [Conns -> Seq({"msg", "last"})]
      BY <1>23, <2>2 DEF Leave, NextFrame, TypeOK
  <2>4. worker' \in [Conns -> {"idle", "run", "post", "wake", "leave"}]
      BY <1>23 DEF Leave, Goes, TypeOK
  <2>5. clientsToCH' \in SUBSET Conns
      BY <1>23 DEF Leave, TypeOK
  <2>6. shouldTerminate' \in [Conns -> BOOLEAN]
      BY <1>23 DEF Leave, TypeOK
  <2>8. UNCHANGED <<wire, sent, eof, chan, ops, sel, at, selected, selectorTasks, wakeup, mailbox, running, closed, dest, writeQueue>>
      BY <1>23 DEF Leave, Goes, Running, NextFrame, net, channels, selector, pool, handlers
  <2> QED
      BY <2>1, <2>2, <2>3, <2>4, <2>5, <2>6, <2>8 DEF TypeOK
<1>24. ASSUME NEW c \in Conns, ProcessThrows(c) PROVE TypeOK'
    BY <1>24 DEF ProcessThrows, Running, TypeOK, net, channels, selector, pool, handlers, vars
<1>25. ASSUME CloseServer PROVE TypeOK'
    BY <1>25 DEF CloseServer, Pool!Drop, TypeOK, net, channels, selector, pool, handlers, vars
<1> QED
    BY <1>1, <1>2, <1>3, <1>4, <1>5, <1>6, <1>7, <1>8, <1>9, <1>10, <1>11, <1>12, <1>13, <1>14, <1>15, <1>16, <1>17, <1>18, <1>19, <1>20, <1>21, <1>22, <1>23, <1>24, <1>25
    DEF Next, Serve, RunChunk

-----------------------------------------------------------------------------

LEMMA InitInv == Init => IInv
<1> SUFFICES ASSUME Init PROVE IInv
    OBVIOUS
<1> USE DEF Init
<1>1. TypeOK
  <2>1. /\ wire \in [Conns -> Seq({"msg", "last"})] /\ rest \in [Conns -> Seq({"msg", "last"})]
        /\ mailbox \in [Conns -> Seq(Chunk)] /\ selectorTasks \in Seq(Conns)
      BY DEF Pool!Init
  <2>2. sent \in 0..MaxFrames
      BY ReactorAssumption
  <2>3. /\ eof \in SUBSET Conns /\ chan \in [Conns -> {"connecting", "open", "closed"}]
        /\ ops \in [Conns -> SUBSET {"read", "write"}]
        /\ sel \in {"select", "tasks", "keys", "write", "settle", "close", "dead", "stuck", "closed"}
        /\ at \in Conns \cup {Null} /\ selected \in SUBSET (Conns \X {"accept", "read", "write"})
        /\ wakeup \in BOOLEAN
      OBVIOUS
  <2>4. /\ running \in [Conns -> Chunk \cup {Null}]
        /\ worker \in [Conns -> {"idle", "run", "post", "wake", "leave"}]
        /\ dest \in [Conns -> Conns \cup {Null}] /\ writeQueue \in [Conns -> Nat]
        /\ clientsToCH \in SUBSET Conns /\ shouldTerminate \in [Conns -> BOOLEAN]
      BY DEF Pool!Init
  <2> QED
      BY <2>1, <2>2, <2>3, <2>4 DEF TypeOK
<1>2. WireBound
    BY DEF WireBound
<1>3. Busy /\ SelectedFor /\ WritingTo /\ Fresh
    BY DEF Busy, SelectedFor, WritingTo, Fresh
<1>4. Settled /\ Written /\ Woken
    BY DEF Settled, Written, Woken
<1> QED
    BY <1>1, <1>2, <1>3, <1>4 DEF IInv, Shape

LEMMA NextInv == IInv /\ [Next]_vars => IInv'
<1> SUFFICES ASSUME IInv, [Next]_vars PROVE IInv'
    OBVIOUS
<1>1. CASE Next
  <2>1. TypeOK' /\ WireBound' /\ Busy' /\ SelectedFor' /\ WritingTo' /\ Fresh'
      BY <1>1, StepTypes, StepWireBound, StepBusy, StepSelectedFor, StepWritingTo, StepFresh
      DEF IInv, Shape
  <2>2. Settled' /\ Written' /\ Woken'
      BY <1>1, StepSettled, StepWritten, StepWoken DEF IInv
  <2> QED
      BY <2>1, <2>2 DEF IInv, Shape
<1>2. CASE UNCHANGED vars
  <2>1. UNCHANGED <<wire, sent, eof, chan, ops, sel, at, selected, selectorTasks, wakeup, mailbox,
                    running, closed, rest, worker, dest, writeQueue, clientsToCH, shouldTerminate>>
      BY <1>2 DEF vars, net, channels, selector, pool, handlers
  <2>2. TypeOK'
      BY <2>1 DEF IInv, Shape, TypeOK
  <2>3. WireBound' /\ Busy' /\ SelectedFor' /\ WritingTo' /\ Fresh'
      BY <2>1 DEF IInv, Shape, WireBound, Busy, SelectedFor, WritingTo, Fresh
  <2>4. \A c \in Conns : Asked(c)' <=> Asked(c)
      BY <2>1 DEF Asked, Running
  <2>5. Settled' /\ Written'
      BY <2>1, <2>4 DEF IInv, Shape, Settled, Written, WritingTo, Serving
  <2>6. Woken'
      BY <2>1 DEF IInv, Woken, Serving, Running
  <2> QED
      BY <2>2, <2>3, <2>5, <2>6 DEF IInv, Shape
<1> QED
    BY <1>1, <1>2

\* The inductive invariant of the reactor holds in every reachable state.
THEOREM Invariance == Spec => []IInv
    BY InitInv, NextInv, PTL DEF Spec

\* Every variable of the reactor keeps its type.
THEOREM TypeCorrect == Spec => []TypeOK
<1>1. IInv => TypeOK
    BY DEF IInv, Shape
<1> QED
    BY <1>1, Invariance, PTL

\* With any number of connections that answer each other, no queued frame is left
\* without the write interest of its key and without somebody to ask for it.
THEOREM WritesAreNotLost == Spec => []NoLostWrite
<1>1. IInv => NoLostWrite
    BY DEF IInv, Written, Asked, NoLostWrite
<1> QED
    BY <1>1, Invariance, PTL

\* With any number of pool threads, the selector thread never goes to sleep on a
\* selector task whose wakeup() has been and gone.
THEOREM WakeupsAreNotLost == Spec => []NoLostWakeup
<1>1. IInv => NoLostWakeup
    BY DEF IInv, Woken, Serving, NoLostWakeup
<1> QED
    BY <1>1, Invariance, PTL

=============================================================================
