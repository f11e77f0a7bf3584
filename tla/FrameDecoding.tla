---------------------------- MODULE FrameDecoding ----------------------------
(***************************************************************************)
(* How the bytes of a connection become the frames that its protocol is    *)
(* given, in the reactor server: the selector thread reads some of what is *)
(* on the wire into a buffer of the shared BUFFER_POOL, and submits a      *)
(* runnable for the connection's handler to the ActorThreadPool; whichever *)
(* thread runs it feeds the handler's decoder byte by byte, calls          *)
(* process() at each end of a frame, and releases the buffer.              *)
(*                                                                         *)
(* An act is a handler.  The selector thread is the pool's only client,    *)
(* and nothing is submitted once it has shut the pool down.  What          *)
(* process() does is Reactor's and StompBroker's; here it returns or       *)
(* throws.  Characters are not told from bytes.                            *)
(***************************************************************************)
EXTENDS ActorThreadPool, SequencesExt

CONSTANTS Bytes,
          End,      \* the byte \u0000
          Stream,   \* act -> all the bytes its client sends
          Buffers   \* more than there can be runnables

VARIABLES
    wire,           \* act -> bytes not read yet
    open,           \* acts whose channel is open
    BUFFER_POOL,
    buf,            \* runnable -> its buffer, until it has released it
    content,        \* buffer -> bytes that remain in it
    bytes,          \* act -> what its decoder has collected
    processed,      \* act -> the frames process() was given
    threw           \* acts that lost bytes to an exception of process()

decoding == <<wire, open, BUFFER_POOL, buf, content, bytes, processed, threw>>
decodingVars == <<vars, decoding>>

ASSUME DecodingAssumption ==
    /\ End \in Bytes /\ Stream \in [Acts -> Seq(Bytes)]
    /\ Null \notin Buffers

\* A new buffer can be allocated whatever buffers the runnables hold.
ASSUME AllocationAssumption ==
    \A held \in [Tasks -> Buffers \cup {Null}] :
        \E b \in Buffers : \A r \in Tasks : held[r] # b

-----------------------------------------------------------------------------
(* The codec *)

encode(message) == Append(message, End)

\* Mutant: the decoder waits for something else.
ends_Never(byte) == FALSE

ends(byte) == byte = End

\* Mutant: popString() leaves len as it is.
popString_KeepsLen(collected) == collected

\* What popString() leaves in the decoder.
popString(collected) == <<>>

-----------------------------------------------------------------------------
(* Buffers *)

Allocated == ToSet(BUFFER_POOL) \cup {buf[r] : r \in Tasks}

\* poll(), or a new one.
leaseBuffer == IF BUFFER_POOL # <<>> THEN Head(BUFFER_POOL)
               ELSE CHOOSE b \in Buffers : b \notin Allocated
Unleased == IF BUFFER_POOL # <<>> THEN Tail(BUFFER_POOL) ELSE <<>>

\* Mutant: continueRead() releases the buffer on its way out, whatever it has read.
Kept_Released(b) == Append(Unleased, b)

\* The pool when continueRead() has filled a buffer.
Kept(b) == Unleased

releaseBuffer(r) ==
    /\ BUFFER_POOL' = Append(BUFFER_POOL, buf[r])
    /\ buf' = [buf EXCEPT ![r] = Null]

-----------------------------------------------------------------------------
(* The selector thread *)

\* continueRead(), and submit() begins; runnables are alike.
continueRead(t, a) ==
    /\ a \in open /\ wire[a] # <<>>
    /\ ~isShutdown /\ fresh # {}
    /\ \E r \in {CHOOSE r \in fresh : TRUE}, b \in {leaseBuffer} :
          /\ SubmitLook(t, a, r)
          /\ buf' = [buf EXCEPT ![r] = b]
          /\ BUFFER_POOL' = Kept(b)
          /\ \E n \in 1..Len(wire[a]) :
                /\ content' = [content EXCEPT ![b] = SubSeq(wire[a], 1, n)]
                /\ wire' = [wire EXCEPT ![a] = SubSeq(@, n + 1, Len(@))]
    /\ UNCHANGED <<open, bytes, processed, threw>>

\* The stream has ended, or broken.
continueReadEnds(t, a) ==
    /\ At(t, "idle") /\ a \in open /\ ~isShutdown
    /\ open' = open \ {a}
    /\ BUFFER_POOL' = Append(Unleased, leaseBuffer)
    /\ UNCHANGED <<vars, wire, buf, content, bytes, processed, threw>>

\* The end of serve().
Stop(t) == At(t, "idle") /\ shutdown /\ UNCHANGED decoding

-----------------------------------------------------------------------------
(* A runnable *)

Remaining(w) == content[buf[thread[w].task]]
Runs(w) == At(w, "run") /\ buf[thread[w].task] # Null

\* decodeNextByte(), and process() if there is a frame.
decodeNextByte(w) ==
    LET a == thread[w].act
    IN  /\ Runs(w) /\ Remaining(w) # <<>>
        /\ content' = [content EXCEPT ![buf[thread[w].task]] = Tail(@)]
        /\ IF ends(Head(Remaining(w)))
           THEN /\ processed' = [processed EXCEPT ![a] = Append(@, bytes[a])]
                /\ bytes' = [bytes EXCEPT ![a] = popString(@)]
           ELSE /\ bytes' = [bytes EXCEPT ![a] = Append(@, Head(Remaining(w)))]
                /\ UNCHANGED processed
        /\ UNCHANGED <<vars, wire, open, BUFFER_POOL, buf, threw>>

\* process() throws, and what is behind the frame in the buffer is lost.
processThrows(w) ==
    LET a == thread[w].act
    IN  /\ Runs(w) /\ Len(Remaining(w)) > 1 /\ ends(Head(Remaining(w)))
        /\ processed' = [processed EXCEPT ![a] = Append(@, bytes[a])]
        /\ bytes' = [bytes EXCEPT ![a] = popString(@)]
        /\ threw' = threw \cup {a}
        /\ releaseBuffer(thread[w].task)
        /\ UNCHANGED <<vars, wire, open, content>>

EndRun(w) ==
    /\ Runs(w) /\ Remaining(w) = <<>>
    /\ releaseBuffer(thread[w].task)
    /\ UNCHANGED <<vars, wire, open, content, bytes, processed, threw>>

Complete(w) ==
    /\ At(w, "run") => buf[thread[w].task] = Null
    /\ CompleteLook(w) \/ CompleteRest(w) \/ CompleteNext(w)
    /\ UNCHANGED decoding

-----------------------------------------------------------------------------

DecodingInit ==
    /\ Init
    /\ wire = Stream
    /\ open = Acts
    /\ BUFFER_POOL = <<>>
    /\ buf = [r \in Tasks |-> Null]
    /\ content = [b \in Buffers |-> <<>>]
    /\ bytes = [a \in Acts |-> <<>>]
    /\ processed = [a \in Acts |-> <<>>]
    /\ threw = {}

Submitting(t) == (SubmitExecute(t) \/ SubmitPend(t)) /\ UNCHANGED decoding

RunnableStep(w) ==
    \/ Take(w) /\ UNCHANGED decoding
    \/ decodeNextByte(w) \/ processThrows(w) \/ EndRun(w)
    \/ Complete(w)

DecodingNext ==
    \/ \E t \in Clients, a \in Acts : continueRead(t, a) \/ continueReadEnds(t, a)
    \/ \E t \in Clients : Submitting(t) \/ Stop(t)
    \/ \E w \in Workers : RunnableStep(w)

\* The selector thread reads what is on the wire of any connection, submits what it
\* has read, and the pool's threads run.
DecodingFairness ==
    /\ \A a \in Acts : SF_decodingVars(\E t \in Clients : continueRead(t, a))
    /\ \A t \in Clients : WF_decodingVars(Submitting(t))
    /\ \A w \in Workers : WF_decodingVars(RunnableStep(w))

DecodingSpec == DecodingInit /\ [][DecodingNext]_decodingVars /\ DecodingFairness

-----------------------------------------------------------------------------

DecodingTypeOK ==
    /\ wire \in [Acts -> Seq(Bytes)]
    /\ open \in SUBSET Acts /\ threw \in SUBSET Acts
    /\ BUFFER_POOL \in Seq(Buffers)
    /\ buf \in [Tasks -> Buffers \cup {Null}]
    /\ content \in [Buffers -> Seq(Bytes)]
    /\ bytes \in [Acts -> Seq(Bytes \ {End})]
    /\ processed \in [Acts -> Seq(Seq(Bytes \ {End}))]

\* What a connection's decoder has been through: the frames it has given to process(),
\* as a client encodes them, and the beginning of the next one.
Decoded(a) ==
    FlattenSeq([i \in DOMAIN processed[a] |-> encode(processed[a][i])]) \o bytes[a]

\* However reads cut a connection's frames up, and whichever threads run its
\* runnables beside those of other connections, the frames given to process() are
\* those the client sent, in order, and what is left in the decoder is the beginning of
\* the next one, unless process() has thrown.
DecodesWhatWasSent ==
    \A a \in Acts \ threw : IsPrefix(Decoded(a), Stream[a])

\* A buffer has one owner: it is once in BUFFER_POOL, or one runnable has still to read it.
OneOwner ==
    /\ IsInjective(BUFFER_POOL)
    /\ \A r \in Tasks : buf[r] # Null =>
          /\ buf[r] \notin ToSet(BUFFER_POOL)
          /\ \A s \in Tasks \ {r} : buf[s] # buf[r]

\* In the end all that was read of a connection has been decoded, and all of it has
\* been read while its channel is open, unless the pool is shut down or process() throws.
EverythingIsDecoded ==
    \A a \in Acts :
        <>[](\/ isShutdown \/ a \in threw
             \/ /\ Decoded(a) \o wire[a] = Stream[a]
                /\ a \in open => wire[a] = <<>>)

=============================================================================
