---------------------------- MODULE ActorMailbox ----------------------------
(***************************************************************************)
(* What a user of ActorThreadPool may rely on, and all that Reactor does    *)
(* rely on: every act has a mailbox of runnables, they run one at a time    *)
(* in the order they were submitted, and each of them does run.  Shutting   *)
(* the pool down may drop runnables that have not started.                  *)
(***************************************************************************)
EXTENDS Naturals, Sequences

CONSTANTS Acts, Tasks, Null   \* Null is no task

VARIABLES mailbox,  \* act -> the runnables submitted and not started
          running,  \* act -> the runnable that runs, or Null
          closed    \* the pool was shut down

mailboxVars == <<mailbox, running, closed>>

Init ==
    /\ mailbox = [a \in Acts |-> <<>>]
    /\ running = [a \in Acts |-> Null]
    /\ closed = FALSE

Submit(a, r) ==
    /\ mailbox' = [mailbox EXCEPT ![a] = Append(@, r)]
    /\ UNCHANGED <<running, closed>>

Start(a) ==
    /\ running[a] = Null
    /\ mailbox[a] # <<>>
    /\ running' = [running EXCEPT ![a] = Head(mailbox[a])]
    /\ mailbox' = [mailbox EXCEPT ![a] = Tail(@)]
    /\ UNCHANGED closed

Finish(a) ==
    /\ running[a] # Null
    /\ running' = [running EXCEPT ![a] = Null]
    /\ UNCHANGED <<mailbox, closed>>

\* The pool is shut down, and forgets the next runnables of some of the acts;
\* it may forget more of them later.
Drop ==
    /\ closed' = TRUE
    /\ \E lost \in SUBSET {a \in Acts : mailbox[a] # <<>>} :
          mailbox' = [a \in Acts |-> IF a \in lost THEN Tail(mailbox[a]) ELSE mailbox[a]]
    /\ UNCHANGED running

Next ==
    \/ \E a \in Acts, r \in Tasks : Submit(a, r)
    \/ \E a \in Acts : Start(a) \/ Finish(a)
    \/ Drop

Fairness == \A a \in Acts : /\ WF_mailboxVars(Start(a) /\ ~closed)
                            /\ WF_mailboxVars(Finish(a))

Spec == Init /\ [][Next]_mailboxVars /\ Fairness

=============================================================================
