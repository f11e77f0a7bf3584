------------------------- MODULE FrameDecodingProofs -------------------------
(* Theorems about FrameDecoding, for every value of its constants: the pool  *)
(* keeps its promises while its runnables decode, and no buffer is shared.   *)
EXTENDS FrameDecoding, ActorThreadPoolProofs, ListLemmas

-----------------------------------------------------------------------------
(* The pool in the composition *)

\* A step of the selector thread or of a runnable is a step of the pool, or
\* leaves the pool alone.
LEMMA DecodingStep == TypeOK /\ [DecodingNext]_decodingVars => [Next]_vars
<1> SUFFICES ASSUME TypeOK, [DecodingNext]_decodingVars PROVE [Next]_vars
    OBVIOUS
<1>1. CASE UNCHANGED decodingVars
    BY <1>1 DEF decodingVars
<1>2. ASSUME NEW t \in Clients, NEW a \in Acts, continueRead(t, a) PROVE Next
  <2>1. PICK r \in {CHOOSE r \in fresh : TRUE} : SubmitLook(t, a, r)
      BY <1>2 DEF continueRead
  <2>2. r \in Tasks
      BY <2>1 DEF SubmitLook, TypeOK
  <2> QED
      BY <2>1, <2>2 DEF Next
<1>3. ASSUME NEW t \in Clients, NEW a \in Acts, continueReadEnds(t, a) PROVE UNCHANGED vars
    BY <1>3 DEF continueReadEnds
<1>4. ASSUME NEW t \in Clients, Submitting(t) \/ Stop(t) PROVE Next
    BY <1>4 DEF Submitting, Stop, Next
<1>5. ASSUME NEW w \in Workers, RunnableStep(w) PROVE [Next]_vars
  <2>1. CASE Take(w) \/ Complete(w)
      BY <2>1 DEF Complete, Work, Next
  <2>2. CASE decodeNextByte(w) \/ processThrows(w) \/ EndRun(w)
      BY <2>2 DEF decodeNextByte, processThrows, EndRun
  <2> QED
      BY <1>5, <2>1, <2>2 DEF RunnableStep
<1> QED
    BY <1>1, <1>2, <1>3, <1>4, <1>5 DEF DecodingNext

-----------------------------------------------------------------------------
(* Who has which buffer *)

\* A runnable that has not been submitted has no buffer.
Owners ==
    /\ BUFFER_POOL \in Seq(Buffers)
    /\ buf \in [Tasks -> Buffers \cup {Null}]
    /\ \A r \in fresh : buf[r] = Null
    /\ OneOwner

DInv == IInv /\ RunnersHaveTasks /\ Owners

\* A buffer that is leased was in the pool, and is not any more, or nobody had it.
LEMMA leaseBufferIsFree ==
    ASSUME Owners
    PROVE  /\ leaseBuffer \in Buffers
           /\ Unleased \in Seq(Buffers) /\ IsInjective(Unleased)
           /\ ToSet(Unleased) \subseteq ToSet(BUFFER_POOL)
           /\ leaseBuffer \notin ToSet(Unleased)
           /\ \A r \in Tasks : buf[r] # leaseBuffer
<1>1. CASE BUFFER_POOL = <<>>
  <2>1. leaseBuffer = CHOOSE b \in Buffers : b \notin Allocated
      BY <1>1 DEF leaseBuffer
  <2>2. \E b \in Buffers : \A r \in Tasks : buf[r] # b
      BY AllocationAssumption DEF Owners
  <2>3. Allocated = {buf[r] : r \in Tasks}
      BY <1>1 DEF Allocated, ToSet
  <2>4. leaseBuffer \in Buffers /\ leaseBuffer \notin Allocated
      BY <2>1, <2>2, <2>3
  <2>5. Unleased = <<>>
      BY <1>1 DEF Unleased
  <2> QED
      BY <2>3, <2>4, <2>5 DEF ToSet, IsInjective
<1>2. CASE BUFFER_POOL # <<>>
  <2> DEFINE pool == BUFFER_POOL
  <2>1. pool \in Seq(Buffers) /\ IsInjective(pool)
      BY DEF Owners, OneOwner
  <2>2. leaseBuffer = Head(pool) /\ Unleased = Tail(pool)
      BY <1>2 DEF leaseBuffer, Unleased
  <2>3. \A r \in Tasks : buf[r] # Null => buf[r] \notin ToSet(pool)
      BY DEF Owners, OneOwner
  <2> HIDE DEF pool
  <2>4. /\ Head(pool) = pool[1] /\ Head(pool) \in Buffers /\ Tail(pool) \in Seq(Buffers)
        /\ Len(Tail(pool)) = Len(pool) - 1 /\ Len(pool) \in Nat \ {0}
        /\ \A i \in 1..(Len(pool) - 1) : Tail(pool)[i] = pool[i + 1]
    <3>1. pool # <<>>
        BY <1>2 DEF pool
    <3> QED
        BY <2>1, <3>1
  <2>5. DOMAIN pool = 1..Len(pool) /\ DOMAIN Tail(pool) = 1..(Len(pool) - 1)
      BY <2>1, <2>4
  <2>6. IsInjective(Tail(pool))
      BY <2>1, <2>4, <2>5 DEF IsInjective
  <2>7. ToSet(Tail(pool)) \subseteq ToSet(pool) /\ Head(pool) \notin ToSet(Tail(pool))
      BY <2>1, <2>4, <2>5 DEF ToSet, IsInjective
  <2>8. Head(pool) \in ToSet(pool) /\ Head(pool) # Null
      BY <2>4, <2>5, DecodingAssumption DEF ToSet
  <2> QED
      BY <2>2, <2>3, <2>4, <2>6, <2>7, <2>8 DEF pool
<1> QED
    BY <1>1, <1>2

LEMMA continueReadOwners ==
    ASSUME DInv, NEW t \in Clients, NEW a \in Acts, continueRead(t, a)
    PROVE  Owners'
<1>1. PICK r \in fresh, b \in {leaseBuffer} :
          /\ fresh' = fresh \ {r}
          /\ buf' = [buf EXCEPT ![r] = b]
          /\ BUFFER_POOL' = Unleased
    BY DEF continueRead, SubmitLook, Kept
<1>2. Owners /\ fresh \in SUBSET Tasks
    BY DEF DInv, IInv, TypeOK
<1>3. /\ b \in Buffers /\ Unleased \in Seq(Buffers) /\ IsInjective(Unleased)
      /\ ToSet(Unleased) \subseteq ToSet(BUFFER_POOL) /\ b \notin ToSet(Unleased)
      /\ \A s \in Tasks : buf[s] # b
    BY <1>1, <1>2, leaseBufferIsFree
<1>4. /\ buf'[r] = b /\ \A s \in Tasks \ {r} : buf'[s] = buf[s]
      /\ buf' \in [Tasks -> Buffers \cup {Null}] /\ r \in Tasks
    BY <1>1, <1>2, <1>3 DEF Owners
<1>5. OneOwner'
    BY <1>1, <1>2, <1>3, <1>4 DEF Owners, OneOwner
<1> QED
    BY <1>1, <1>2, <1>3, <1>4, <1>5 DEF Owners

LEMMA continueReadEndsOwners ==
    ASSUME DInv, NEW t \in Clients, NEW a \in Acts, continueReadEnds(t, a)
    PROVE  Owners'
<1>1. BUFFER_POOL' = Append(Unleased, leaseBuffer) /\ buf' = buf /\ fresh' = fresh
    BY DEF continueReadEnds, vars
<1>2. Owners
    BY DEF DInv
<1>3. /\ leaseBuffer \in Buffers /\ Unleased \in Seq(Buffers) /\ IsInjective(Unleased)
      /\ ToSet(Unleased) \subseteq ToSet(BUFFER_POOL) /\ leaseBuffer \notin ToSet(Unleased)
      /\ \A r \in Tasks : buf[r] # leaseBuffer
    BY <1>2, leaseBufferIsFree
<1>4. /\ BUFFER_POOL' \in Seq(Buffers) /\ IsInjective(BUFFER_POOL')
      /\ ToSet(BUFFER_POOL') = ToSet(Unleased) \cup {leaseBuffer}
    BY <1>1, <1>3, AppendToList
<1>5. OneOwner'
    BY <1>1, <1>2, <1>3, <1>4 DEF Owners, OneOwner
<1> QED
    BY <1>1, <1>2, <1>4, <1>5 DEF Owners

LEMMA releaseBufferOwners ==
    ASSUME DInv, NEW r \in Tasks, buf[r] # Null, releaseBuffer(r), fresh' = fresh
    PROVE  Owners'
<1>1. Owners /\ fresh \in SUBSET Tasks
    BY DEF DInv, IInv, TypeOK
<1>2. /\ BUFFER_POOL' = Append(BUFFER_POOL, buf[r]) /\ buf[r] \in Buffers
      /\ buf[r] \notin ToSet(BUFFER_POOL)
    BY <1>1 DEF releaseBuffer, Owners, OneOwner
<1>3. /\ BUFFER_POOL' \in Seq(Buffers) /\ IsInjective(BUFFER_POOL')
      /\ ToSet(BUFFER_POOL') = ToSet(BUFFER_POOL) \cup {buf[r]}
    BY <1>1, <1>2, AppendToList DEF Owners, OneOwner
<1>4. /\ buf'[r] = Null /\ \A s \in Tasks \ {r} : buf'[s] = buf[s]
      /\ buf' \in [Tasks -> Buffers \cup {Null}]
    BY <1>1 DEF releaseBuffer, Owners
<1>5. OneOwner'
    BY <1>1, <1>3, <1>4 DEF Owners, OneOwner
<1>6. \A s \in fresh' : buf'[s] = Null
    BY <1>1, <1>4 DEF Owners
<1> QED
    BY <1>3, <1>4, <1>5, <1>6 DEF Owners

-----------------------------------------------------------------------------
(* The theorems *)

LEMMA DecodingInitInv == DecodingInit => DInv
<1> SUFFICES ASSUME DecodingInit PROVE DInv
    OBVIOUS
<1>1. IInv
    BY InitInv DEF DecodingInit
<1>2. BUFFER_POOL = <<>> /\ buf = [r \in Tasks |-> Null] /\ fresh = Tasks
    BY DEF DecodingInit, Init
<1>3. Owners
    BY <1>2 DEF Owners, OneOwner, IsInjective
<1>4. RunnersHaveTasks
    BY IdleType DEF RunnersHaveTasks, DecodingInit, Init, At, Threads
<1> QED
    BY <1>1, <1>3, <1>4 DEF DInv

LEMMA DecodingNextInv == DInv /\ [DecodingNext]_decodingVars => DInv'
<1> SUFFICES ASSUME DInv, [DecodingNext]_decodingVars PROVE DInv'
    OBVIOUS
<1>1. IInv' /\ RunnersHaveTasks'
    BY DecodingStep, NextInv, RunnersHaveTasksInv DEF DInv, IInv
<1>2. CASE UNCHANGED <<fresh, BUFFER_POOL, buf>>
    BY <1>1, <1>2 DEF DInv, Owners, OneOwner
<1>3. ASSUME NEW t \in Clients, NEW a \in Acts, continueRead(t, a) \/ continueReadEnds(t, a)
      PROVE  Owners'
    BY <1>3, continueReadOwners, continueReadEndsOwners
<1>4. ASSUME NEW w \in Workers, processThrows(w) \/ EndRun(w) PROVE Owners'
  <2>1. /\ At(w, "run") /\ buf[thread[w].task] # Null
        /\ releaseBuffer(thread[w].task) /\ fresh' = fresh
      BY <1>4 DEF processThrows, EndRun, Runs, vars
  <2>2. thread[w].task \in Tasks
      BY <2>1 DEF DInv, RunnersHaveTasks
  <2> QED
      BY <2>1, <2>2, releaseBufferOwners
<1>5. ASSUME NEW t \in Clients, Submitting(t) \/ Stop(t)
      PROVE  UNCHANGED <<fresh, BUFFER_POOL, buf>>
    BY <1>5 DEF Submitting, Stop, SubmitExecute, SubmitPend, shutdown, decoding
<1>6. ASSUME NEW w \in Workers, (Take(w) /\ UNCHANGED decoding) \/ Complete(w) \/ decodeNextByte(w)
      PROVE  UNCHANGED <<fresh, BUFFER_POOL, buf>>
    BY <1>6 DEF Take, Complete, CompleteLook, CompleteRest, CompleteNext, decodeNextByte,
                decoding, vars
<1>7. CASE UNCHANGED decodingVars
    BY <1>2, <1>7 DEF decodingVars, decoding, vars
<1> QED
    BY <1>1, <1>2, <1>3, <1>4, <1>5, <1>6, <1>7 DEF DecodingNext, RunnableStep, DInv

\* The invariant of the pool, and of the buffers, holds while the runnables decode.
THEOREM DecodingInvariance == DecodingSpec => []DInv
<1> QED
    BY DecodingInitInv, DecodingNextInv, PTL DEF DecodingSpec

\* The runnables of one connection never run side by side, so its decoder is
\* one thread's at a time.
THEOREM DecodersAreSerial == DecodingSpec => []OneAtATime
<1>1. DInv => OneAtATime
    BY DEF DInv, IInv
<1> QED
    BY <1>1, DecodingInvariance, PTL

\* A runnable that was left pending has a complete() of its connection to come.
THEOREM ReadsAreHandedOn == DecodingSpec => []NobodyStranded
<1>1. DInv => NobodyStranded
    BY DEF DInv, IInv, PendingPlays, PlayingPresent, NobodyStranded
<1> QED
    BY <1>1, DecodingInvariance, PTL

\* No buffer is in BUFFER_POOL while a runnable has still to read it, or twice.
THEOREM BuffersHaveOneOwner == DecodingSpec => []OneOwner
<1>1. DInv => OneOwner
    BY DEF DInv, Owners
<1> QED
    BY <1>1, DecodingInvariance, PTL

\* The composition's handlers find their runnables where ActorMailbox puts them.
THEOREM DecodingKeepsMailboxes == DecodingSpec => KeepsMailboxes
<1>1. DecodingInit => Mailbox!Init
    BY InitMaps DEF DecodingInit
<1>2. DInv /\ [DecodingNext]_decodingVars => [Mailbox!Next]_(Mailbox!mailboxVars)
    BY DecodingStep, NextMaps DEF DInv, IInv
<1> QED
    BY <1>1, <1>2, DecodingInvariance, PTL DEF DecodingSpec, KeepsMailboxes

-----------------------------------------------------------------------------
(* Types *)

TInv == DInv /\ DecodingTypeOK

\* What a worker runs is a runnable of an act, and its buffer has bytes.
LEMMA RunsTypes ==
    ASSUME TInv, NEW w \in Workers, Runs(w)
    PROVE  /\ thread[w].act \in Acts /\ thread[w].task \in Tasks
           /\ buf[thread[w].task] \in Buffers /\ Remaining(w) \in Seq(Bytes)
<1>1. thread[w].act \in Acts /\ thread[w].task \in Tasks
    BY DEF TInv, DInv, IInv, Roles, RunnersHaveTasks, Runs, At, Threads
<1> QED
    BY <1>1 DEF Runs, TInv, DecodingTypeOK, Remaining

LEMMA continueReadTypes ==
    ASSUME TInv, NEW t \in Clients, NEW a \in Acts, continueRead(t, a), Owners'
    PROVE  DecodingTypeOK'
<1>1. PICK b \in {leaseBuffer}, n \in 1..Len(wire[a]) :
          /\ content' = [content EXCEPT ![b] = SubSeq(wire[a], 1, n)]
          /\ wire' = [wire EXCEPT ![a] = SubSeq(@, n + 1, Len(@))]
    BY DEF continueRead
<1>2. UNCHANGED <<open, bytes, processed, threw>>
    BY DEF continueRead
<1>3. b \in Buffers
    BY <1>1, leaseBufferIsFree DEF TInv, DInv
<1>4. wire[a] \in Seq(Bytes)
    BY DEF TInv, DecodingTypeOK
<1>5. SubSeq(wire[a], 1, n) \in Seq(Bytes) /\ SubSeq(wire[a], n + 1, Len(wire[a])) \in Seq(Bytes)
    BY <1>4
<1> QED
    BY <1>1, <1>2, <1>3, <1>5 DEF TInv, DecodingTypeOK, Owners

LEMMA frameTypes ==
    ASSUME TInv, NEW a \in Acts
    PROVE  /\ Append(processed[a], bytes[a]) \in Seq(Seq(Bytes \ {End}))
           /\ popString(bytes[a]) \in Seq(Bytes \ {End})
    BY DEF TInv, DecodingTypeOK, popString

LEMMA decodeNextByteTypes ==
    ASSUME TInv, NEW w \in Workers, decodeNextByte(w), Owners'
    PROVE  DecodingTypeOK'
<1> DEFINE a == thread[w].act
           b == buf[thread[w].task]
<1>1. a \in Acts /\ b \in Buffers /\ content[b] \in Seq(Bytes) /\ content[b] # <<>>
    BY RunsTypes DEF decodeNextByte, Remaining
<1>2. /\ content' = [content EXCEPT ![b] = Tail(@)]
      /\ UNCHANGED <<wire, open, threw>>
    BY DEF decodeNextByte
<1>3. Head(content[b]) \in Bytes /\ Tail(content[b]) \in Seq(Bytes)
    BY <1>1
<1>4. CASE ends(Head(Remaining(w)))
  <2>1. /\ processed' = [processed EXCEPT ![a] = Append(@, bytes[a])]
        /\ bytes' = [bytes EXCEPT ![a] = popString(@)]
      BY <1>4 DEF decodeNextByte
  <2> QED
      BY <1>1, <1>2, <1>3, <2>1, frameTypes DEF TInv, DecodingTypeOK, Owners
<1>5. CASE ~ends(Head(Remaining(w)))
  <2>1. /\ bytes' = [bytes EXCEPT ![a] = Append(@, Head(content[b]))]
        /\ processed' = processed
      BY <1>5 DEF decodeNextByte, Remaining
  <2>2. bytes[a] \in Seq(Bytes \ {End}) /\ Head(content[b]) \in Bytes \ {End}
      BY <1>1, <1>3, <1>5 DEF TInv, DecodingTypeOK, ends, Remaining
  <2>3. Append(bytes[a], Head(content[b])) \in Seq(Bytes \ {End})
      BY <2>2
  <2> QED
      BY <1>1, <1>2, <1>3, <2>1, <2>3 DEF TInv, DecodingTypeOK, Owners
<1> QED
    BY <1>4, <1>5

LEMMA DecodingTypeInv == TInv /\ [DecodingNext]_decodingVars => TInv'
<1> SUFFICES ASSUME TInv, [DecodingNext]_decodingVars PROVE TInv'
    OBVIOUS
<1>1. DInv' /\ Owners'
    BY DecodingNextInv DEF TInv, DInv
<1>2. CASE UNCHANGED <<wire, open, content, bytes, processed, threw>>
    BY <1>1, <1>2 DEF TInv, DecodingTypeOK, Owners
<1>3. ASSUME NEW t \in Clients, NEW a \in Acts, continueRead(t, a) PROVE DecodingTypeOK'
    BY <1>1, <1>3, continueReadTypes
<1>4. ASSUME NEW t \in Clients, NEW a \in Acts, continueReadEnds(t, a) PROVE DecodingTypeOK'
    BY <1>1, <1>4 DEF continueReadEnds, TInv, DecodingTypeOK, Owners
<1>5. ASSUME NEW w \in Workers, decodeNextByte(w) PROVE DecodingTypeOK'
    BY <1>1, <1>5, decodeNextByteTypes
<1>6. ASSUME NEW w \in Workers, processThrows(w) PROVE DecodingTypeOK'
  <2> DEFINE a == thread[w].act
  <2>1. a \in Acts
      BY <1>6, RunsTypes DEF processThrows
  <2>2. /\ processed' = [processed EXCEPT ![a] = Append(@, bytes[a])]
        /\ bytes' = [bytes EXCEPT ![a] = popString(@)]
        /\ threw' = threw \cup {a}
        /\ UNCHANGED <<wire, open, content>>
      BY <1>6 DEF processThrows
  <2> QED
      BY <1>1, <2>1, <2>2, frameTypes DEF TInv, DecodingTypeOK, Owners
<1>7. ASSUME NEW t \in Clients, Submitting(t) \/ Stop(t)
      PROVE  UNCHANGED <<wire, open, content, bytes, processed, threw>>
    BY <1>7 DEF Submitting, Stop, decoding
<1>8. ASSUME NEW w \in Workers, (Take(w) /\ UNCHANGED decoding) \/ Complete(w) \/ EndRun(w)
      PROVE  UNCHANGED <<wire, open, content, bytes, processed, threw>>
    BY <1>8 DEF Complete, EndRun, decoding
<1>9. CASE UNCHANGED decodingVars
    BY <1>2, <1>9 DEF decodingVars, decoding
<1> QED
    BY <1>1, <1>2, <1>3, <1>4, <1>5, <1>6, <1>7, <1>8, <1>9 DEF DecodingNext, RunnableStep, TInv

LEMMA DecodingInitTypes == DecodingInit => DecodingTypeOK
<1> SUFFICES ASSUME DecodingInit PROVE DecodingTypeOK
    OBVIOUS
<1>1. /\ <<>> \in Seq(Bytes) /\ <<>> \in Seq(Bytes \ {End})
      /\ <<>> \in Seq(Seq(Bytes \ {End})) /\ <<>> \in Seq(Buffers)
    OBVIOUS
<1> QED
    BY <1>1, DecodingAssumption DEF DecodingInit, DecodingTypeOK

\* Every variable of the decoders keeps its type; in particular no frame has an end in it.
THEOREM DecodingTypeCorrect == DecodingSpec => []DecodingTypeOK
<1>1. DecodingInit => TInv
    BY DecodingInitInv, DecodingInitTypes DEF TInv
<1>2. TInv => DecodingTypeOK
    BY DEF TInv
<1> QED
    BY <1>1, <1>2, DecodingTypeInv, PTL DEF DecodingSpec

-----------------------------------------------------------------------------
(* The order of the bytes *)

\* What a runnable has still to decode, and what those of an act have.
Left(r) == IF buf[r] = Null THEN <<>> ELSE content[buf[r]]
Lefts == [r \in Tasks |-> Left(r)]
Unread(a) == FlattenSeq(Mapped(Lefts, Line(a)))
RunningLeft(a) == IF Running(a) = Null THEN <<>> ELSE Left(Running(a))

\* All that a client sends is decoded, or in the runnables of its handler in the order in
\* which they run, or on the wire; when the pool has been shut down what its workers are
\* still decoding continues what was decoded.
OrderOf(a) ==
    IF isShutdown THEN IsPrefix(Decoded(a) \o RunningLeft(a), Stream[a])
    ELSE (Decoded(a) \o Unread(a)) \o wire[a] = Stream[a]
InOrder == \A a \in Acts \ threw : OrderOf(a)

OInv == LInv /\ TInv /\ InOrder

LEMMA LeftType == DecodingTypeOK => Lefts \in [Tasks -> Seq(Bytes)]
<1> SUFFICES ASSUME DecodingTypeOK, NEW r \in Tasks PROVE Left(r) \in Seq(Bytes)
    BY DEF Lefts
<1>1. buf[r] \in Buffers \cup {Null} /\ \A b \in Buffers : content[b] \in Seq(Bytes)
    BY DEF DecodingTypeOK
<1>2. <<>> \in Seq(Bytes)
    OBVIOUS
<1> QED
    BY <1>1, <1>2 DEF Left

\* What a line's runnables have left changes only when a buffer of theirs does.
LEMMA LeftsSame ==
    ASSUME NEW line \in Seq(Tasks),
           \A r \in Tasks : (\E i \in DOMAIN line : line[i] = r) => Left(r)' = Left(r)
    PROVE  Mapped(Lefts', line) = Mapped(Lefts, line)
<1>1. \A i \in DOMAIN line : line[i] \in Tasks
    OBVIOUS
<1>2. \A r \in Tasks : Lefts[r] = Left(r) /\ Lefts'[r] = Left(r)'
    BY DEF Lefts
<1>3. \A i \in DOMAIN line : Lefts'[line[i]] = Lefts[line[i]]
    BY <1>1, <1>2
<1> QED
    BY <1>3 DEF Mapped

LEMMA SameUnread ==
    ASSUME NEW a \in Acts, Line(a)' = Line(a), Line(a) \in Seq(Tasks),
           \A r \in Tasks : (\E i \in DOMAIN Line(a) : Line(a)[i] = r) => Left(r)' = Left(r)
    PROVE  Unread(a)' = Unread(a)
<1>1. Mapped(Lefts', Line(a)) = Mapped(Lefts, Line(a))
    BY LeftsSame
<1>2. Unread(a)' = FlattenSeq(Mapped(Lefts', Line(a)'))
    BY DEF Unread, Mapped
<1> QED
    BY <1>1, <1>2 DEF Unread

\* What an act runs is first in its line, and a runnable in no other place.
LEMMA RunnerFirst ==
    ASSUME OInv, NEW a \in Acts, Running(a) # Null
    PROVE  /\ Running(a) \in Tasks
           /\ \E rest \in Seq(Tasks) :
                 /\ Line(a) = <<Running(a)>> \o rest
                 /\ \A i \in DOMAIN rest : rest[i] # Running(a)
           /\ \A b \in Acts \ {a} : /\ Running(b) # Running(a)
                                    /\ \A i \in DOMAIN Line(b) : Line(b)[i] # Running(a)
<1>1. /\ IInv /\ RunnersHaveTasks /\ EachOnce /\ OneAtATime
      /\ \A b \in Acts : Waiting(b) \in Seq(Tasks) /\ SubmitPart(b) \in Seq(Tasks)
    BY LineType DEF OInv, LInv, IInv
<1>2. Running(a) \in Tasks
    BY <1>1, RunningIs DEF RunnersHaveTasks
<1>3. ASSUME NEW b \in Acts, Running(b) # Null
      PROVE  /\ Line(b) = <<Running(b)>> \o (Waiting(b) \o SubmitPart(b))
             /\ 1 \in DOMAIN Line(b) /\ Line(b)[1] = Running(b)
  <2>1. Running(b) \in Tasks
      BY <1>1, <1>3, RunningIs DEF RunnersHaveTasks
  <2>2. Line(b) = (<<Running(b)>> \o Waiting(b)) \o SubmitPart(b)
      BY <1>3 DEF Line, RunPart
  <2> DEFINE r == Running(b)
             u == Waiting(b)
             v == SubmitPart(b)
             l == <<r>> \o (u \o v)
  <2>3. r \in Tasks /\ u \in Seq(Tasks) /\ v \in Seq(Tasks)
      BY <1>1, <2>1
  <2> HIDE DEF r, u, v
  <2>4. (<<r>> \o u) \o v = l /\ 1 \in DOMAIN l /\ l[1] = r
      BY <2>3
  <2> QED
      BY <2>2, <2>4 DEF r, u, v
<1> DEFINE rest == Waiting(a) \o SubmitPart(a)
<1>4. rest \in Seq(Tasks) /\ Line(a) = <<Running(a)>> \o rest
    BY <1>1, <1>3
<1>5. ASSUME NEW i \in DOMAIN rest PROVE rest[i] # Running(a)
  <2>1. /\ i \in Nat \ {0} /\ i + 1 \in DOMAIN (<<Running(a)>> \o rest)
        /\ (<<Running(a)>> \o rest)[i + 1] = rest[i]
    <3> HIDE DEF rest
    <3> QED
        BY <1>4, <1>5
  <2>2. i + 1 \in DOMAIN Line(a) /\ Line(a)[i + 1] = rest[i] /\ i + 1 # 1
      BY <1>4, <2>1
  <2>3. 1 \in DOMAIN Line(a) /\ Line(a)[1] = Running(a)
      BY <1>3
  <2>4. Line(a)[i + 1] # Line(a)[1]
      BY <1>1, <2>2, <2>3 DEF EachOnce
  <2> QED
      BY <2>2, <2>3, <2>4
<1>6. ASSUME NEW b \in Acts \ {a} PROVE \A i \in DOMAIN Line(b) : Line(b)[i] # Running(a)
  <2>1. ASSUME NEW i \in DOMAIN Line(b) PROVE Line(b)[i] # Line(a)[1]
    <3>1. Line(a)[1] = Line(b)[i] => a = b
        BY <1>1, <1>3 DEF EachOnce
    <3> QED
        BY <1>6, <3>1
  <2> QED
      BY <1>3, <2>1
<1>7. ASSUME NEW b \in Acts \ {a} PROVE Running(b) # Running(a)
    BY <1>3, <1>6
<1> HIDE DEF rest
<1> QED
    BY <1>2, <1>4, <1>5, <1>6, <1>7

LEMMA SameRunningLeft ==
    ASSUME NEW a \in Acts, Running(a)' = Running(a),
           \A r \in Tasks : Running(a) = r => Left(r)' = Left(r), Running(a) \in Tasks \cup {Null}
    PROVE  RunningLeft(a)' = RunningLeft(a)
<1>1. CASE Running(a) = Null
    BY <1>1 DEF RunningLeft
<1>2. CASE Running(a) # Null
  <2>1. PICK r \in Tasks : r = Running(a)
      BY <1>2
  <2>2. Left(r)' = Left(r) /\ r = Running(a)'
      BY <2>1
  <2>3. r # Null
      BY <1>2, <2>1
  <2>4. RunningLeft(a) = Left(r) /\ RunningLeft(a)' = Left(r)'
      BY <2>1, <2>2, <2>3 DEF RunningLeft
  <2> QED
      BY <2>2, <2>4
<1> QED
    BY <1>1, <1>2

\* A step that leaves an act's connection, its line and what it has left as they are.
LEMMA SameOrder ==
    ASSUME NEW a \in Acts, OrderOf(a), isShutdown' = isShutdown,
           processed'[a] = processed[a], bytes'[a] = bytes[a], wire'[a] = wire[a],
           ~isShutdown => Unread(a)' = Unread(a),
           isShutdown => RunningLeft(a)' = RunningLeft(a)
    PROVE  OrderOf(a)'
<1>1. Decoded(a)' = Decoded(a)
    BY DEF Decoded
<1> QED
    BY <1>1 DEF OrderOf

LEMMA OrderTypes ==
    ASSUME OInv, NEW a \in Acts
    PROVE  /\ Decoded(a) \in Seq(Bytes) /\ Unread(a) \in Seq(Bytes)
           /\ RunningLeft(a) \in Seq(Bytes) /\ wire[a] \in Seq(Bytes)
           /\ Stream[a] \in Seq(Bytes) /\ Line(a) \in Seq(Tasks)
           /\ Running(a) \in Tasks \cup {Null}
           /\ [i \in DOMAIN processed[a] |-> encode(processed[a][i])] \in Seq(Seq(Bytes))
           /\ bytes[a] \in Seq(Bytes)
<1>1. TInv /\ Line(a) \in Seq(Tasks)
    BY LineType DEF OInv, LInv
<1>2. Unread(a) \in Seq(Bytes)
    BY <1>1, LeftType, FlattenMapped DEF Unread, TInv
<1>3. Running(a) \in Tasks \cup {Null}
    BY RunningIs DEF OInv, LInv, IInv, RunnersHaveTasks
<1>4. RunningLeft(a) \in Seq(Bytes)
  <2>1. <<>> \in Seq(Bytes)
      OBVIOUS
  <2> QED
      BY <1>1, <1>3, <2>1, LeftType DEF RunningLeft, Lefts, TInv
<1> DEFINE frames == processed[a]
           encoded == [i \in DOMAIN frames |-> encode(frames[i])]
<1>5. frames \in Seq(Seq(Bytes \ {End})) /\ bytes[a] \in Seq(Bytes \ {End})
    BY <1>1 DEF TInv, DecodingTypeOK
<1>6. bytes[a] \in Seq(Bytes)
    BY <1>5
<1>7. encoded \in Seq(Seq(Bytes))
  <2> HIDE DEF frames
  <2>1. \A m \in Seq(Bytes \ {End}) : Append(m, End) \in Seq(Bytes)
    <3>1. End \in Bytes
        BY DecodingAssumption
    <3> QED
        BY <3>1
  <2>2. DOMAIN frames = 1..Len(frames) /\ Len(frames) \in Nat
        /\ \A i \in 1..Len(frames) : frames[i] \in Seq(Bytes \ {End})
      BY <1>5
  <2>3. \A i \in 1..Len(frames) : encode(frames[i]) \in Seq(Bytes)
      BY <2>1, <2>2 DEF encode
  <2>4. encoded = [i \in 1..Len(frames) |-> encode(frames[i])]
      BY <2>2
  <2> QED
      BY <2>2, <2>3, <2>4
<1>8. Decoded(a) \in Seq(Bytes)
  <2>1. FlattenSeq(encoded) \in Seq(Bytes)
    <3> HIDE DEF encoded
    <3> QED
        BY <1>7, FlattenSeqType
  <2> QED
      BY <1>6, <2>1 DEF Decoded
<1> QED
    BY <1>1, <1>2, <1>3, <1>4, <1>6, <1>7, <1>8, DecodingAssumption DEF TInv, DecodingTypeOK

\* The step that decodes a byte adds it to what its connection has decoded.
LEMMA DecodedGrows ==
    ASSUME OInv, NEW a \in Acts, NEW c \in Bytes,
           \/ /\ ends(c)
              /\ processed' = [processed EXCEPT ![a] = Append(@, bytes[a])]
              /\ bytes' = [bytes EXCEPT ![a] = popString(@)]
           \/ /\ bytes' = [bytes EXCEPT ![a] = Append(@, c)]
              /\ processed' = processed
    PROVE  /\ Decoded(a)' = Decoded(a) \o <<c>>
           /\ \A b \in Acts \ {a} : processed'[b] = processed[b] /\ bytes'[b] = bytes[b]
<1> DEFINE frames == processed[a]
           encoded == [i \in DOMAIN frames |-> encode(frames[i])]
<1>1. /\ frames \in Seq(Seq(Bytes \ {End})) /\ bytes[a] \in Seq(Bytes)
      /\ encoded \in Seq(Seq(Bytes)) /\ FlattenSeq(encoded) \in Seq(Bytes)
      /\ processed \in [Acts -> Seq(Seq(Bytes \ {End}))]
      /\ bytes \in [Acts -> Seq(Bytes \ {End})]
  <2>1. encoded \in Seq(Seq(Bytes))
      BY OrderTypes
  <2>2. FlattenSeq(encoded) \in Seq(Bytes)
    <3> HIDE DEF encoded
    <3> QED
        BY <2>1, FlattenSeqType
  <2> QED
      BY <2>1, <2>2, OrderTypes DEF OInv, TInv, DecodingTypeOK
<1>2. \A b \in Acts \ {a} : processed'[b] = processed[b] /\ bytes'[b] = bytes[b]
    BY <1>1
<1>3. Decoded(a) = FlattenSeq(encoded) \o bytes[a]
    BY DEF Decoded
<1>4. CASE /\ ends(c)
           /\ processed' = [processed EXCEPT ![a] = Append(@, bytes[a])]
           /\ bytes' = [bytes EXCEPT ![a] = popString(@)]
  <2>1. processed'[a] = Append(frames, bytes[a]) /\ bytes'[a] = <<>> /\ c = End
      BY <1>1, <1>4 DEF popString, ends
  <2> DEFINE more == Append(frames, bytes[a])
             encodedMore == [i \in DOMAIN more |-> encode(more[i])]
             frame == encode(bytes[a])
  <2>2. frame \in Seq(Bytes) /\ frame = bytes[a] \o <<c>>
    <3>1. \A m \in Seq(Bytes) : Append(m, c) \in Seq(Bytes) /\ Append(m, c) = m \o <<c>>
        OBVIOUS
    <3> QED
        BY <1>1, <2>1, <3>1 DEF encode
  <2>3. encodedMore = Append(encoded, frame)
    <3>1. /\ DOMAIN more = 1..(Len(frames) + 1) /\ DOMAIN frames = 1..Len(frames)
          /\ Len(frames) \in Nat /\ more[Len(frames) + 1] = bytes[a]
          /\ \A i \in 1..Len(frames) : more[i] = frames[i]
      <4> HIDE DEF frames
      <4> QED
          BY <1>1
    <3> HIDE DEF frames, more, frame
    <3>2. encoded \in Seq(Seq(Bytes)) /\ Len(encoded) = Len(frames)
          /\ \A i \in 1..Len(frames) : encoded[i] = encode(frames[i])
        BY <1>1, <3>1
    <3>3. /\ DOMAIN encodedMore = 1..(Len(frames) + 1)
          /\ encodedMore[Len(frames) + 1] = frame
          /\ \A i \in 1..Len(frames) : encodedMore[i] = encoded[i]
        BY <3>1, <3>2 DEF frame
    <3> HIDE DEF encoded
    <3> DEFINE app == Append(encoded, frame)
    <3>4. /\ app \in Seq(Seq(Bytes)) /\ Len(app) = Len(frames) + 1
          /\ app[Len(frames) + 1] = frame
          /\ \A i \in 1..Len(frames) : app[i] = encoded[i]
        BY <2>2, <3>1, <3>2
    <3> HIDE DEF app
    <3>5. ASSUME NEW i \in 1..(Len(frames) + 1) PROVE encodedMore[i] = app[i]
      <4>1. CASE i = Len(frames) + 1
          BY <3>3, <3>4, <4>1
      <4>2. CASE i # Len(frames) + 1
        <5>1. i \in 1..Len(frames)
            BY <3>1, <4>2
        <5> QED
            BY <3>3, <3>4, <5>1
      <4> QED
          BY <4>1, <4>2
    <3>6. DOMAIN app = 1..(Len(frames) + 1)
        BY <3>1, <3>4
    <3>7. app = [i \in 1..(Len(frames) + 1) |-> app[i]]
        BY <3>4, <3>6
    <3>8. encodedMore = [i \in 1..(Len(frames) + 1) |-> encodedMore[i]]
        BY <3>3
    <3>9. encodedMore = app
        BY <3>5, <3>7, <3>8
    <3> QED
        BY <3>9 DEF app
  <2>4. Decoded(a)' = FlattenSeq(encodedMore) \o <<>>
    <3>1. Decoded(a)' = FlattenSeq([i \in DOMAIN processed'[a] |-> encode(processed'[a][i])])
                           \o bytes'[a]
        BY DEF Decoded, encode
    <3> QED
        BY <2>1, <3>1
  <2>5. FlattenSeq(encodedMore) = FlattenSeq(encoded) \o frame
    <3> HIDE DEF encoded, frame
    <3>1. FlattenSeq(Append(encoded, frame)) = FlattenSeq(encoded) \o frame
        BY <1>1, <2>2, FlattenSeqAppend
    <3> QED
        BY <2>3, <3>1
  <2> DEFINE f == FlattenSeq(encoded)
             g == bytes[a]
  <2>6. Decoded(a)' = (f \o (g \o <<c>>)) \o <<>> /\ Decoded(a) = f \o g
      BY <1>3, <2>2, <2>4, <2>5
  <2>7. f \in Seq(Bytes) /\ g \in Seq(Bytes)
      BY <1>1
  <2> HIDE DEF f, g
  <2>8. (f \o (g \o <<c>>)) \o <<>> = (f \o g) \o <<c>>
      BY <2>7
  <2> QED
      BY <1>2, <2>6, <2>8
<1>5. CASE bytes' = [bytes EXCEPT ![a] = Append(@, c)] /\ processed' = processed
  <2> DEFINE f == FlattenSeq(encoded)
             g == bytes[a]
  <2>1. bytes'[a] = Append(g, c) /\ processed'[a] = processed[a]
      BY <1>1, <1>5
  <2>2. Decoded(a)' = f \o Append(g, c) /\ Decoded(a) = f \o g
    <3>1. Decoded(a)' = FlattenSeq([i \in DOMAIN processed'[a] |-> encode(processed'[a][i])])
                           \o bytes'[a]
        BY DEF Decoded, encode
    <3> QED
        BY <1>3, <2>1, <3>1
  <2>3. f \in Seq(Bytes) /\ g \in Seq(Bytes)
      BY <1>1
  <2> HIDE DEF f, g
  <2>4. f \o Append(g, c) = (f \o g) \o <<c>>
      BY <2>3
  <2> QED
      BY <1>2, <2>2, <2>4
<1> QED
    BY <1>4, <1>5


\* What of its act a runnable that runs has left, and the others.
RunnerHas(w, a, r, rest) ==
    /\ a = thread[w].act /\ r = thread[w].task
    /\ Running(a) = r /\ Line(a) = <<r>> \o rest
    /\ Unread(a) = Left(r) \o FlattenSeq(Mapped(Lefts, rest))
    /\ RunningLeft(a) = Left(r)
    /\ \A i \in DOMAIN rest : rest[i] # r
    /\ \A b \in Acts \ {a} : /\ Running(b) # r
                             /\ \A i \in DOMAIN Line(b) : Line(b)[i] # r

LEMMA RunnerLeft ==
    ASSUME OInv, NEW w \in Workers, At(w, "run")
    PROVE  \E a \in Acts, r \in Tasks, rest \in Seq(Tasks) : RunnerHas(w, a, r, rest)
<1>1. PICK a \in Acts, r \in Tasks : a = thread[w].act /\ r = thread[w].task
    BY DEF OInv, LInv, IInv, Roles, RunnersHaveTasks, At, Threads
<1>2. Running(a) = r /\ r # Null
    BY <1>1, RunningIs, ThreadsAssumption DEF OInv, LInv, IInv
<1>3. PICK rest \in Seq(Tasks) :
          /\ Line(a) = <<r>> \o rest
          /\ \A i \in DOMAIN rest : rest[i] # r
    BY <1>2, RunnerFirst
<1>4. \A b \in Acts \ {a} : /\ Running(b) # r
                            /\ \A i \in DOMAIN Line(b) : Line(b)[i] # r
    BY <1>2, RunnerFirst
<1>5. Unread(a) = Left(r) \o FlattenSeq(Mapped(Lefts, rest))
  <2>1. Lefts \in [Tasks -> Seq(Bytes)] /\ Lefts[r] = Left(r)
      BY LeftType DEF OInv, TInv, Lefts
  <2>2. FlattenSeq(Mapped(Lefts, <<r>> \o rest)) = Lefts[r] \o FlattenSeq(Mapped(Lefts, rest))
    <3>1. FlattensCons(Lefts, r, rest)
        BY ONLY <2>1, r \in Tasks, rest \in Seq(Tasks), FlattenMappedCons
    <3> QED
        BY ONLY <3>1 DEF FlattensCons
  <2> QED
      BY <1>3, <2>1, <2>2, Zenon DEF Unread
<1>6. RunningLeft(a) = Left(r)
    BY <1>2 DEF RunningLeft
<1>7. RunnerHas(w, a, r, rest)
    BY <1>1, <1>2, <1>3, <1>4, <1>5, <1>6, Zenon DEF RunnerHas
<1> QED
    BY ONLY <1>7, a \in Acts, r \in Tasks, rest \in Seq(Tasks)

\* A step that does nothing to the line of an act, nor to what its runnables have left.
LEMMA OrderElsewhere ==
    ASSUME OInv, NEW a \in Acts, OrderOf(a), isShutdown' = isShutdown,
           processed'[a] = processed[a], bytes'[a] = bytes[a], wire'[a] = wire[a],
           ~isShutdown => Line(a)' = Line(a), Running(a)' = Running(a),
           \A r \in Tasks : \/ Left(r)' = Left(r)
                            \/ Running(a) # r /\ \A i \in DOMAIN Line(a) : Line(a)[i] # r
    PROVE  OrderOf(a)'
<1>1. Line(a) \in Seq(Tasks) /\ Running(a) \in Tasks \cup {Null}
    BY OrderTypes
<1>2. ~isShutdown => Unread(a)' = Unread(a)
    BY <1>1, SameUnread
<1>3. RunningLeft(a)' = RunningLeft(a)
    BY <1>1, SameRunningLeft
<1> QED
    BY <1>2, <1>3, SameOrder

\* The pool's steps before a runnable starts, and when it has run.
LEMMA PoolOrder ==
    ASSUME OInv, UNCHANGED decoding, isShutdown' = isShutdown,
           ~isShutdown => \A a \in Acts : Line(a)' = Line(a),
           \A a \in Acts : Running(a)' = Running(a)
    PROVE  InOrder'
<1>1. \A r \in Tasks : Left(r)' = Left(r)
    BY DEF Left, decoding
<1>2. threw' = threw
    BY DEF decoding
<1>3. ASSUME NEW a \in Acts, OrderOf(a) PROVE OrderOf(a)'
  <2>1. processed'[a] = processed[a] /\ bytes'[a] = bytes[a] /\ wire'[a] = wire[a]
      BY DEF decoding
  <2> QED
      BY <1>1, <1>3, <2>1, OrderElsewhere
<1> QED
    BY <1>2, <1>3 DEF InOrder, OInv

LEMMA continueReadOrder ==
    ASSUME OInv, NEW t \in Clients, NEW a \in Acts, continueRead(t, a), TInv'
    PROVE  InOrder'
<1>1. PICK r \in {CHOOSE r \in fresh : TRUE}, b \in {leaseBuffer}, n \in 1..Len(wire[a]) :
          /\ SubmitLook(t, a, r)
          /\ buf' = [buf EXCEPT ![r] = b]
          /\ content' = [content EXCEPT ![b] = SubSeq(wire[a], 1, n)]
          /\ wire' = [wire EXCEPT ![a] = SubSeq(@, n + 1, Len(@))]
    BY DEF continueRead
<1>2. ~isShutdown /\ UNCHANGED <<isShutdown, processed, bytes, threw>>
    BY <1>1 DEF continueRead, SubmitLook
<1>3. r \in fresh /\ r \in Tasks
    BY <1>1 DEF SubmitLook, OInv, LInv, IInv, TypeOK
<1>4. b \in Buffers /\ b # Null /\ \A s \in Tasks : buf[s] # b
    BY <1>1, leaseBufferIsFree, DecodingAssumption DEF OInv, TInv, DInv
<1>5. /\ buf \in [Tasks -> Buffers \cup {Null}] /\ content \in [Buffers -> Seq(Bytes)]
      /\ wire \in [Acts -> Seq(Bytes)]
    BY DEF OInv, TInv, DecodingTypeOK
<1>6. Left(r)' = SubSeq(wire[a], 1, n)
    BY <1>1, <1>3, <1>4, <1>5 DEF Left
<1>7. \A s \in Tasks \ {r} : Left(s)' = Left(s)
    BY <1>1, <1>3, <1>4, <1>5 DEF Left
<1>8. /\ Line(a)' = Append(Line(a), r) /\ \A c \in Acts \ {a} : Line(c)' = Line(c)
      /\ \A c \in Acts : Running(c)' = Running(c)
    BY <1>1, <1>3, SubmitLookLine, SubmitLookEffect DEF OInv, LInv
<1>9. \A c \in Acts : \A i \in DOMAIN Line(c) : Line(c)[i] # r
    BY <1>3 DEF OInv, LInv, EachOnce
<1>10. ASSUME NEW c \in Acts \ {a}, OrderOf(c) PROVE OrderOf(c)'
  <2>1. Running(c) # r
    <3>1. CASE Running(c) = Null
        BY <1>3, <3>1, ThreadsAssumption
    <3>2. CASE Running(c) # Null
      <4>1. PICK rest \in Seq(Tasks) : Line(c) = <<Running(c)>> \o rest /\ Running(c) \in Tasks
          BY <3>2, RunnerFirst
      <4>2. 1 \in DOMAIN Line(c) /\ Line(c)[1] = Running(c)
          BY <4>1
      <4> QED
          BY <1>9, <4>2
    <3> QED
        BY <3>1, <3>2
  <2>2. wire'[c] = wire[c]
      BY <1>1, <1>5
  <2> QED
      BY <1>2, <1>7, <1>8, <1>9, <1>10, <2>1, <2>2, OrderElsewhere
<1>11. ASSUME OrderOf(a) PROVE OrderOf(a)'
  <2>1. Line(a) \in Seq(Tasks) /\ Lefts' \in [Tasks -> Seq(Bytes)]
    <3>1. (DecodingTypeOK => Lefts \in [Tasks -> Seq(Bytes)])'
        BY LeftType, PTL
    <3> QED
        BY <3>1, OrderTypes DEF TInv
  <2>2. Mapped(Lefts', Line(a)) = Mapped(Lefts, Line(a))
      BY <1>7, <1>9, <2>1, LeftsSame
  <2>3. Unread(a)' = FlattenSeq(Mapped(Lefts', Append(Line(a), r)))
      BY <1>8 DEF Unread, Mapped
  <2>4. FlattenSeq(Mapped(Lefts', Append(Line(a), r)))
            = FlattenSeq(Mapped(Lefts', Line(a))) \o Lefts'[r]
    <3>1. FlattensAppend(Lefts', Line(a), r)
        BY ONLY <1>3, <2>1, FlattenMappedAppend
    <3> QED
        BY ONLY <3>1 DEF FlattensAppend
  <2>5. Unread(a)' = Unread(a) \o SubSeq(wire[a], 1, n)
      BY <1>3, <1>6, <2>2, <2>3, <2>4 DEF Unread, Lefts
  <2>6. Decoded(a)' = Decoded(a) /\ wire'[a] = SubSeq(wire[a], n + 1, Len(wire[a]))
      BY <1>1, <1>2, <1>5 DEF Decoded
  <2> DEFINE d == Decoded(a)
             u == Unread(a)
             v == wire[a]
  <2>7. d \in Seq(Bytes) /\ u \in Seq(Bytes) /\ v \in Seq(Bytes) /\ n \in 1..Len(v)
      BY OrderTypes
  <2>8. (d \o u) \o v = Stream[a]
      BY <1>2, <1>11 DEF OrderOf
  <2> HIDE DEF d, u, v
  <2>9. (d \o (u \o SubSeq(v, 1, n))) \o SubSeq(v, n + 1, Len(v)) = (d \o u) \o v
    <3>1. /\ SubSeq(v, 1, n) \in Seq(Bytes) /\ SubSeq(v, n + 1, Len(v)) \in Seq(Bytes)
          /\ SubSeq(v, 1, n) \o SubSeq(v, n + 1, Len(v)) = v
        BY <2>7
    <3>2. MovesUp(d, u, SubSeq(v, 1, n), SubSeq(v, n + 1, Len(v)))
        BY ONLY <2>7, <3>1, Concatenation
    <3> QED
        BY ONLY <3>1, <3>2 DEF MovesUp
  <2> QED
      BY <1>2, <2>5, <2>6, <2>8, <2>9 DEF OrderOf, d, u, v
<1> QED
    BY <1>2, <1>10, <1>11 DEF InOrder, OInv


\* A step that moves the first byte of a running runnable's buffer to what is decoded.
LEMMA decodeNextByteOrder ==
    ASSUME OInv, NEW w \in Workers, decodeNextByte(w), TInv'
    PROVE  InOrder'
<1>1. At(w, "run") /\ Runs(w)
    BY DEF decodeNextByte, Runs
<1>2a. PICK a \in Acts, r \in Tasks, rest \in Seq(Tasks) : RunnerHas(w, a, r, rest)
    BY <1>1, RunnerLeft, Zenon
<1>2. /\ a = thread[w].act /\ r = thread[w].task
      /\ Running(a) = r /\ Line(a) = <<r>> \o rest
      /\ Unread(a) = Left(r) \o FlattenSeq(Mapped(Lefts, rest))
      /\ RunningLeft(a) = Left(r)
      /\ \A i \in DOMAIN rest : rest[i] # r
      /\ \A b \in Acts \ {a} : /\ Running(b) # r
                               /\ \A i \in DOMAIN Line(b) : Line(b)[i] # r
    BY <1>2a, Zenon DEF RunnerHas
<1> DEFINE all == Remaining(w)
<1>3. /\ buf[r] \in Buffers /\ buf[r] # Null /\ all = content[buf[r]] /\ all = Left(r)
      /\ all \in Seq(Bytes) /\ all # <<>>
    BY <1>1, <1>2, RunsTypes, DecodingAssumption DEF OInv, decodeNextByte, Remaining, Left
<1>4. /\ content' = [content EXCEPT ![buf[r]] = Tail(@)]
      /\ UNCHANGED <<vars, wire, buf, threw>>
    BY <1>2 DEF decodeNextByte
<1>5. Head(all) \in Bytes /\ Tail(all) \in Seq(Bytes) /\ all = <<Head(all)>> \o Tail(all)
  <2> HIDE DEF all
  <2> QED
      BY <1>3
<1>6. Left(r)' = Tail(all) /\ \A s \in Tasks \ {r} : Left(s)' = Left(s)
  <2>1. content \in [Buffers -> Seq(Bytes)] /\ OneOwner
      BY DEF OInv, TInv, DInv, Owners, DecodingTypeOK
  <2>2. \A s \in Tasks \ {r} : buf[s] # buf[r]
      BY <1>3, <2>1 DEF OneOwner
  <2>3. buf \in [Tasks -> Buffers \cup {Null}]
      BY DEF OInv, TInv, DecodingTypeOK
  <2> QED
      BY <1>3, <1>4, <2>1, <2>2, <2>3 DEF Left
<1>7. /\ Decoded(a)' = Decoded(a) \o <<Head(all)>>
      /\ \A b \in Acts \ {a} : processed'[b] = processed[b] /\ bytes'[b] = bytes[b]
  <2>1. \/ /\ ends(Head(all))
           /\ processed' = [processed EXCEPT ![a] = Append(@, bytes[a])]
           /\ bytes' = [bytes EXCEPT ![a] = popString(@)]
        \/ /\ bytes' = [bytes EXCEPT ![a] = Append(@, Head(all))]
           /\ processed' = processed
      BY <1>2 DEF decodeNextByte
  <2> HIDE DEF all
  <2> QED
      BY <1>5, <2>1, DecodedGrows
<1>8. /\ isShutdown' = isShutdown
      /\ \A b \in Acts : Line(b)' = Line(b) /\ Running(b)' = Running(b)
    BY <1>4 DEF vars, Line, RunPart, Running, Waiting, InExecutor, Queued, SubmitPart, At
<1>9. ASSUME NEW b \in Acts \ {a}, OrderOf(b) PROVE OrderOf(b)'
  <2>1. wire'[b] = wire[b] /\ processed'[b] = processed[b] /\ bytes'[b] = bytes[b]
      BY <1>4, <1>7
  <2>2. \A s \in Tasks : \/ Left(s)' = Left(s)
                         \/ Running(b) # s /\ \A i \in DOMAIN Line(b) : Line(b)[i] # s
      BY <1>2, <1>6
  <2> QED
      BY <1>8, <1>9, <2>1, <2>2, OrderElsewhere
<1>10. ASSUME OrderOf(a) PROVE OrderOf(a)'
  <2> DEFINE d == Decoded(a)
             m == FlattenSeq(Mapped(Lefts, rest))
             c == Head(all)
             t == Tail(all)
             v == wire[a]
  <2>1. /\ d \in Seq(Bytes) /\ m \in Seq(Bytes) /\ c \in Bytes /\ t \in Seq(Bytes)
        /\ v \in Seq(Bytes) /\ all = <<c>> \o t
    <3>1. m \in Seq(Bytes)
        BY LeftType, FlattenMapped DEF OInv, TInv
    <3> QED
        BY <1>5, <3>1, OrderTypes
  <2>2. Decoded(a)' = d \o <<c>> /\ wire'[a] = v /\ RunningLeft(a)' = t
    <3>1. Running(a)' = r /\ r # Null
        BY <1>2, <1>8, ThreadsAssumption
    <3>2. RunningLeft(a)' = Left(r)'
        BY <3>1 DEF RunningLeft
    <3> QED
        BY <1>4, <1>6, <1>7, <3>2
  <2>3. Unread(a)' = t \o m
    <3>1. Lefts' \in [Tasks -> Seq(Bytes)]
      <4>1. (DecodingTypeOK => Lefts \in [Tasks -> Seq(Bytes)])'
          BY LeftType, PTL
      <4> QED
          BY <4>1 DEF TInv
    <3>2. Unread(a)' = FlattenSeq(Mapped(Lefts', <<r>> \o rest))
        BY <1>2, <1>8 DEF Unread, Mapped
    <3>3. FlattenSeq(Mapped(Lefts', <<r>> \o rest)) = Lefts'[r] \o FlattenSeq(Mapped(Lefts', rest))
      <4>1. FlattensCons(Lefts', r, rest)
          BY ONLY <3>1, r \in Tasks, rest \in Seq(Tasks), FlattenMappedCons
      <4> QED
          BY ONLY <4>1 DEF FlattensCons
    <3>4. Mapped(Lefts', rest) = Mapped(Lefts, rest)
        BY <1>2, <1>6, LeftsSame
    <3>5. Lefts'[r] = t
        BY <1>6 DEF Lefts
    <3> QED
        BY <3>2, <3>3, <3>4, <3>5
  <2>4. Unread(a) = all \o m /\ RunningLeft(a) = all
      BY <1>2, <1>3
  <2> HIDE DEF all, d, m, c, t, v
  <2>5. (d \o <<c>>) \o t = d \o all /\ (d \o <<c>>) \o (t \o m) = d \o (all \o m)
    <3> DEFINE x == <<c>>
    <3>1. x \in Seq(Bytes) /\ all = x \o t
        BY <2>1
    <3> HIDE DEF x
    <3>2. Associates(d, x, t) /\ MovesDown(d, x, t, m)
        BY ONLY <2>1, <3>1, Concatenation
    <3> QED
        BY ONLY <3>1, <3>2 DEF x, Associates, MovesDown
  <2>7. CASE isShutdown
      BY <1>8, <1>10, <2>2, <2>4, <2>5, <2>7 DEF OrderOf, d
  <2>8. CASE ~isShutdown
      BY <1>8, <1>10, <2>2, <2>3, <2>4, <2>5, <2>8 DEF OrderOf, d, v
  <2> QED
      BY <2>7, <2>8
<1> QED
    BY <1>4, <1>9, <1>10 DEF InOrder, OInv

\* The end of a run: what the runnable had left, if anything, is lost to its own act.
LEMMA releaseBufferOrder ==
    ASSUME OInv, NEW w \in Workers, processThrows(w) \/ EndRun(w)
    PROVE  InOrder'
<1>1. At(w, "run") /\ Runs(w)
    BY DEF processThrows, EndRun, Runs
<1>2a. PICK a \in Acts, r \in Tasks, rest \in Seq(Tasks) : RunnerHas(w, a, r, rest)
    BY <1>1, RunnerLeft, Zenon
<1>2. /\ a = thread[w].act /\ r = thread[w].task
      /\ Running(a) = r /\ Line(a) = <<r>> \o rest
      /\ Unread(a) = Left(r) \o FlattenSeq(Mapped(Lefts, rest))
      /\ RunningLeft(a) = Left(r)
      /\ \A i \in DOMAIN rest : rest[i] # r
      /\ \A b \in Acts \ {a} : /\ Running(b) # r
                               /\ \A i \in DOMAIN Line(b) : Line(b)[i] # r
    BY <1>2a, Zenon DEF RunnerHas
<1>3. /\ buf' = [buf EXCEPT ![r] = Null] /\ UNCHANGED <<vars, wire, content>>
    BY <1>2 DEF processThrows, EndRun, releaseBuffer
<1>4. buf \in [Tasks -> Buffers \cup {Null}]
    BY DEF OInv, TInv, DecodingTypeOK
<1>5. \A s \in Tasks \ {r} : Left(s)' = Left(s)
    BY <1>3, <1>4 DEF Left
<1>6. /\ isShutdown' = isShutdown
      /\ \A b \in Acts : Line(b)' = Line(b) /\ Running(b)' = Running(b)
    BY <1>3 DEF vars, Line, RunPart, Running, Waiting, InExecutor, Queued, SubmitPart, At
<1>7. ASSUME NEW b \in Acts, OrderOf(b), processed'[b] = processed[b], bytes'[b] = bytes[b],
             b # a \/ Left(r)' = Left(r)
      PROVE  OrderOf(b)'
  <2>1. \A s \in Tasks : \/ Left(s)' = Left(s)
                         \/ Running(b) # s /\ \A i \in DOMAIN Line(b) : Line(b)[i] # s
      BY <1>2, <1>5, <1>7
  <2>2. wire'[b] = wire[b]
      BY <1>3
  <2> QED
      BY <1>6, <1>7, <2>1, <2>2, OrderElsewhere
<1>8. CASE processThrows(w)
  <2>1. /\ threw' = threw \cup {a}
        /\ \A b \in Acts \ {a} : processed'[b] = processed[b] /\ bytes'[b] = bytes[b]
      BY <1>2, <1>8 DEF processThrows, OInv, TInv, DecodingTypeOK
  <2> QED
      BY <1>7, <2>1 DEF InOrder, OInv
<1>9. CASE EndRun(w)
  <2>1. UNCHANGED <<bytes, processed, threw>>
      BY <1>9 DEF EndRun
  <2>2. Left(r) = <<>> /\ Left(r)' = <<>>
      BY <1>2, <1>3, <1>4, <1>9 DEF EndRun, Runs, Remaining, Left
  <2> QED
      BY <1>7, <2>1, <2>2 DEF InOrder, OInv
<1> QED
    BY <1>8, <1>9

\* A runnable leaves its act's line when it has nothing left.
LEMMA CompleteOrder ==
    ASSUME OInv, NEW w \in Workers, Complete(w)
    PROVE  InOrder'
<1>1. OInv /\ IInv /\ RunnersHaveTasks /\ UNCHANGED decoding
    BY DEF OInv, LInv, Complete
<1>2. CASE CompleteRest(w) \/ CompleteNext(w)
  <2>1. isShutdown' = isShutdown
      BY <1>2 DEF CompleteRest, CompleteNext
  <2>2. \A a \in Acts : Running(a)' = Running(a)
      BY <1>1, <1>2, CompleteRestEffect, CompleteNextEffect
  <2>3. \A a \in Acts : Line(a)' = Line(a) \/ isShutdown
      BY <1>1, <1>2, CompleteLine
  <2> QED
      BY <1>1, <2>1, <2>2, <2>3, PoolOrder
<1>3. CASE CompleteLook(w)
  <2>1. At(w, "run") /\ buf[thread[w].task] = Null /\ isShutdown' = isShutdown
      BY <1>3 DEF Complete, CompleteLook
  <2>2a. PICK a \in Acts, r \in Tasks, rest \in Seq(Tasks) : RunnerHas(w, a, r, rest)
      BY <2>1, RunnerLeft, Zenon
  <2>2. /\ a = thread[w].act /\ r = thread[w].task
        /\ Running(a) = r /\ Line(a) = <<r>> \o rest
        /\ Unread(a) = Left(r) \o FlattenSeq(Mapped(Lefts, rest))
        /\ RunningLeft(a) = Left(r)
      BY <2>2a, Zenon DEF RunnerHas
  <2>3. /\ Running(a)' = Null /\ \A b \in Acts \ {a} : Running(b)' = Running(b)
      BY <1>1, <1>3, <2>2, CompleteLookEffect
  <2>4. PICK b \in Acts :
            /\ Line(b)' \in Seq(Tasks) /\ Line(b) = <<r>> \o Line(b)'
            /\ \A c \in Acts \ {b} : Line(c)' = Line(c)
      BY <1>1, <1>3, <2>2, CompleteLookLine
  <2>5. b = a /\ Line(a)' = rest
    <3>1. 1 \in DOMAIN Line(b) /\ Line(b)[1] = r
      <4> DEFINE l == Line(b)'
      <4>1. l \in Seq(Tasks) /\ Line(b) = <<r>> \o l
          BY <2>4
      <4> HIDE DEF l
      <4> QED
          BY <4>1
    <3>2. 1 \in DOMAIN Line(a) /\ Line(a)[1] = r
        BY <2>2
    <3>3. b = a
        BY <3>1, <3>2 DEF OInv, LInv, EachOnce
    <3>4. <<r>> \o rest = <<r>> \o Line(a)' /\ Line(a)' \in Seq(Tasks)
        BY <2>2, <2>4, <3>3
    <3>5. \A l \in Seq(Tasks) : Tail(<<r>> \o l) = l
        OBVIOUS
    <3> QED
        BY <3>3, <3>4, <3>5
  <2>6. \A s \in Tasks : Left(s)' = Left(s)
      BY <1>1 DEF Left, decoding
  <2>7. /\ processed' = processed /\ bytes' = bytes /\ wire' = wire /\ threw' = threw
      BY <1>1 DEF decoding
  <2>8. ASSUME NEW c \in Acts \ {a}, OrderOf(c) PROVE OrderOf(c)'
      BY <2>1, <2>3, <2>4, <2>5, <2>6, <2>7, <2>8, OrderElsewhere
  <2>9. ASSUME OrderOf(a) PROVE OrderOf(a)'
    <3>1. Left(r) = <<>>
        BY <2>1, <2>2 DEF Left
    <3>2. RunningLeft(a) = <<>> /\ RunningLeft(a)' = <<>>
        BY <2>2, <2>3, <3>1 DEF RunningLeft
    <3>3. Unread(a)' = Unread(a)
      <4>1. Lefts' = Lefts
          BY <2>6 DEF Lefts
      <4>2. FlattenSeq(Mapped(Lefts, rest)) \in Seq(Bytes)
          BY LeftType, FlattenMapped DEF OInv, TInv
      <4>3. Unread(a) = FlattenSeq(Mapped(Lefts, rest))
          BY <2>2, <3>1, <4>2
      <4>4. Unread(a)' = FlattenSeq(Mapped(Lefts', Line(a)'))
          BY DEF Unread, Mapped
      <4> QED
          BY <2>5, <4>1, <4>3, <4>4
    <3> QED
        BY <2>1, <2>7, <2>9, <3>2, <3>3, SameOrder
  <2> QED
      BY <2>7, <2>8, <2>9 DEF InOrder, OInv
<1> QED
    BY <1>2, <1>3 DEF Complete

\* What is decoded, and being decoded, when the pool is shut down began the stream.
LEMMA StopOrder ==
    ASSUME OInv, NEW t \in Clients, Stop(t)
    PROVE  InOrder'
<1>1. ~isShutdown /\ isShutdown' = TRUE /\ UNCHANGED decoding /\ shutdown /\ IInv
    BY DEF Stop, shutdown, OInv, LInv
<1>2. UNCHANGED <<processed, bytes, threw, buf, content>>
    BY <1>1 DEF decoding
<1>3. ASSUME NEW a \in Acts, OrderOf(a) PROVE OrderOf(a)'
  <2>1. Running(a)' = Running(a)
      BY <1>1, ShutdownEffect
  <2>2. Running(a) \in Tasks \cup {Null}
      BY OrderTypes
  <2>3. \A r \in Tasks : Left(r)' = Left(r)
      BY <1>2 DEF Left
  <2>4. RunningLeft(a)' = RunningLeft(a) /\ Decoded(a)' = Decoded(a)
      BY <1>2, <2>1, <2>2, <2>3, SameRunningLeft DEF Decoded
  <2>5. PICK m \in Seq(Bytes) : Unread(a) = RunningLeft(a) \o m
    <3>1. CASE Running(a) = Null
      <4>1. RunningLeft(a) = <<>> /\ Unread(a) \in Seq(Bytes)
          BY <3>1, OrderTypes DEF RunningLeft
      <4> QED
          BY <4>1
    <3>2. CASE Running(a) # Null
      <4>1. PICK rest \in Seq(Tasks) : Line(a) = <<Running(a)>> \o rest /\ Running(a) \in Tasks
          BY <3>2, RunnerFirst
      <4>2. Lefts \in [Tasks -> Seq(Bytes)]
          BY LeftType DEF OInv, TInv
      <4>3. FlattenSeq(Mapped(Lefts, <<Running(a)>> \o rest))
                = Lefts[Running(a)] \o FlattenSeq(Mapped(Lefts, rest))
        <5>1. FlattensCons(Lefts, Running(a), rest)
            BY ONLY <4>1, <4>2, rest \in Seq(Tasks), FlattenMappedCons
        <5> QED
            BY ONLY <5>1 DEF FlattensCons
      <4>4. FlattenSeq(Mapped(Lefts, rest)) \in Seq(Bytes)
          BY <4>2, FlattenMapped
      <4>5. RunningLeft(a) = Lefts[Running(a)]
          BY <3>2, <4>1 DEF RunningLeft, Lefts
      <4> QED
          BY <4>1, <4>3, <4>4, <4>5 DEF Unread
    <3> QED
        BY <3>1, <3>2
  <2> DEFINE d == Decoded(a)
             l == RunningLeft(a)
             v == wire[a]
  <2>6. (d \o (l \o m)) \o v = Stream[a]
      BY <1>1, <1>3, <2>5 DEF OrderOf
  <2>7. d \in Seq(Bytes) /\ l \in Seq(Bytes) /\ v \in Seq(Bytes) /\ Stream[a] \in Seq(Bytes)
      BY OrderTypes
  <2> HIDE DEF d, l, v
  <2>8. (d \o l) \o (m \o v) = Stream[a]
    <3>1. d \o (l \o m) = (d \o l) \o m
        BY <2>7
    <3>2. ((d \o l) \o m) \o v = (d \o l) \o (m \o v)
        BY <2>7
    <3> QED
        BY <2>6, <3>1, <3>2
  <2>9. d \o l \in Seq(Bytes) /\ m \o v \in Seq(Bytes)
      BY <2>7
  <2>10. IsPrefix(d \o l, Stream[a])
      BY <2>7, <2>8, <2>9, PrefixIs
  <2> QED
      BY <1>1, <2>4, <2>10 DEF OrderOf, d, l
<1> QED
    BY <1>2, <1>3 DEF InOrder, OInv

LEMMA OrderNext == OInv /\ [DecodingNext]_decodingVars => OInv'
<1> SUFFICES ASSUME OInv, [DecodingNext]_decodingVars PROVE OInv'
    OBVIOUS
<1>1. LInv' /\ TInv'
    BY DecodingStep, LineInv, DecodingTypeInv DEF OInv, LInv, IInv
<1>2. CASE UNCHANGED <<vars, wire, buf, content, bytes, processed, threw>>
  <2>1. /\ UNCHANGED <<wire, buf, content, bytes, processed, threw, isShutdown>>
        /\ \A a \in Acts : Line(a)' = Line(a) /\ Running(a)' = Running(a)
      BY <1>2 DEF vars, Line, RunPart, Running, Waiting, InExecutor, Queued, SubmitPart, At
  <2>2. \A r \in Tasks : Left(r)' = Left(r)
      BY <2>1 DEF Left
  <2>3. \A a \in Acts : OrderOf(a) => OrderOf(a)'
      BY <2>1, <2>2, OrderElsewhere
  <2> QED
      BY <1>1, <2>1, <2>3 DEF InOrder, OInv
<1>3. ASSUME NEW t \in Clients, NEW a \in Acts, continueRead(t, a) PROVE InOrder'
    BY <1>1, <1>3, continueReadOrder
<1>4. ASSUME NEW t \in Clients, NEW a \in Acts, continueReadEnds(t, a)
      PROVE  UNCHANGED <<vars, wire, buf, content, bytes, processed, threw>>
    BY <1>4 DEF continueReadEnds
<1>5. ASSUME NEW t \in Clients, Submitting(t) PROVE InOrder'
  <2>1. UNCHANGED <<isShutdown, decoding>> /\ (SubmitExecute(t) \/ SubmitPend(t))
      BY <1>5 DEF Submitting, SubmitExecute, SubmitPend
  <2>2. \A a \in Acts : Running(a)' = Running(a)
      BY <2>1, SubmitExecuteEffect, SubmitPendEffect DEF OInv, LInv
  <2>3. ~isShutdown => \A a \in Acts : Line(a)' = Line(a)
      BY <2>1, SubmitLine DEF OInv, LInv
  <2> QED
      BY <2>1, <2>2, <2>3, PoolOrder DEF decoding
<1>6. ASSUME NEW t \in Clients, Stop(t) PROVE InOrder'
    BY <1>6, StopOrder
<1>7. ASSUME NEW w \in Workers, Take(w) /\ UNCHANGED decoding PROVE InOrder'
  <2>1. ~isShutdown /\ isShutdown' = isShutdown
      BY <1>7 DEF Take, OInv, LInv, ClosedIsEmpty
  <2>2. \A a \in Acts : Line(a)' = Line(a)
      BY <1>7, TakeLine DEF OInv, LInv
  <2>3. \A r \in Tasks : Left(r)' = Left(r)
      BY <1>7 DEF Left, decoding
  <2>4. processed' = processed /\ bytes' = bytes /\ wire' = wire /\ threw' = threw
      BY <1>7 DEF decoding
  <2>5. ASSUME NEW a \in Acts, OrderOf(a) PROVE OrderOf(a)'
    <3>1. Unread(a)' = Unread(a)
        BY <2>2, <2>3, OrderTypes, SameUnread
    <3> QED
        BY <2>1, <2>4, <2>5, <3>1, SameOrder
  <2> QED
      BY <2>4, <2>5 DEF InOrder, OInv
<1>8. ASSUME NEW w \in Workers, decodeNextByte(w) PROVE InOrder'
    BY <1>1, <1>8, decodeNextByteOrder
<1>9. ASSUME NEW w \in Workers, processThrows(w) \/ EndRun(w) PROVE InOrder'
    BY <1>9, releaseBufferOrder
<1>10. ASSUME NEW w \in Workers, Complete(w) PROVE InOrder'
    BY <1>10, CompleteOrder
<1>11. CASE UNCHANGED decodingVars
    BY <1>2, <1>11 DEF decodingVars, decoding
<1> QED
    BY <1>1, <1>2, <1>3, <1>4, <1>5, <1>6, <1>7, <1>8, <1>9, <1>10, <1>11
       DEF DecodingNext, RunnableStep, OInv

LEMMA OrderInit == DecodingInit => OInv
<1> SUFFICES ASSUME DecodingInit PROVE OInv
    OBVIOUS
<1>1. LInv /\ TInv
    BY LineInit, InitInv, DecodingInitInv, DecodingInitTypes
       DEF DecodingInit, LInv, TInv, DInv
<1>2. FlattenSeq(<<>>) = <<>>
    BY DEF FlattenSeq
<1>3. ASSUME NEW a \in Acts PROVE OrderOf(a)
  <2>1. ~isShutdown /\ wire[a] = Stream[a] /\ processed[a] = <<>> /\ bytes[a] = <<>>
      BY DEF DecodingInit, Init
  <2>2. Unread(a) = <<>>
    <3>1. Line(a) = <<>>
        BY LinesAtFirst DEF DecodingInit
    <3>2. Mapped(Lefts, <<>>) = <<>>
        BY DEF Mapped
    <3> QED
        BY <1>2, <3>1, <3>2 DEF Unread
  <2>3. Decoded(a) = <<>> \o <<>>
    <3>1. [i \in DOMAIN <<>> |-> encode(<<>>[i])] = <<>>
        OBVIOUS
    <3> QED
        BY <1>2, <2>1, <3>1 DEF Decoded
  <2>4. ((<<>> \o <<>>) \o <<>>) \o Stream[a] = Stream[a]
    <3>1. Stream[a] \in Seq(Bytes)
        BY DecodingAssumption
    <3> QED
        BY <3>1
  <2> QED
      BY <2>1, <2>2, <2>3, <2>4 DEF OrderOf
<1> QED
    BY <1>1, <1>3 DEF InOrder, OInv

\* However reads cut up what the clients send, and however the pool's threads interleave the
\* runnables that decode it, the frames given to process() are those sent, in their order.
THEOREM FramesAreThoseSent == DecodingSpec => []DecodesWhatWasSent
<1>1. OInv => DecodesWhatWasSent
  <2> SUFFICES ASSUME OInv, NEW a \in Acts \ threw PROVE IsPrefix(Decoded(a), Stream[a])
      BY DEF DecodesWhatWasSent
  <2>1. /\ Decoded(a) \in Seq(Bytes) /\ Unread(a) \in Seq(Bytes) /\ wire[a] \in Seq(Bytes)
        /\ RunningLeft(a) \in Seq(Bytes) /\ Stream[a] \in Seq(Bytes)
      BY OrderTypes
  <2>2. ASSUME NEW d \in Seq(Bytes), NEW u \in Seq(Bytes), NEW v \in Seq(Bytes),
               (d \o u) \o v = Stream[a]
        PROVE  IsPrefix(d, Stream[a])
    <3>1. u \o v \in Seq(Bytes) /\ d \o (u \o v) = Stream[a]
      <4>1. u \o v \in Seq(Bytes) /\ (d \o u) \o v = d \o (u \o v)
          OBVIOUS
      <4> QED
          BY <2>2, <4>1
    <3> QED
        BY <2>1, <3>1, PrefixIs
  <2>3. CASE isShutdown
    <3>1. IsPrefix(Decoded(a) \o RunningLeft(a), Stream[a])
        BY <2>3 DEF OInv, InOrder, OrderOf
    <3>2. PICK so \in Seq(Bytes) : so = Decoded(a) \o RunningLeft(a)
      <4>1. \A d, u \in Seq(Bytes) : d \o u \in Seq(Bytes)
          OBVIOUS
      <4> QED
          BY <2>1, <4>1
    <3>3. \E rest \in Seq(Bytes) : so \o rest = Stream[a]
      <4>1. IsPrefix(so, Stream[a])
          BY <3>1, <3>2, Zenon
      <4> QED
          BY <2>1, <4>1, PrefixIs, Zenon
    <3> QED
        BY <2>1, <2>2, <3>2, <3>3, Zenon
  <2>4. CASE ~isShutdown
      BY <2>1, <2>2, <2>4 DEF OInv, InOrder, OrderOf
  <2> QED
      BY <2>3, <2>4
<1> QED
    BY <1>1, OrderInit, OrderNext, PTL DEF DecodingSpec

=============================================================================
