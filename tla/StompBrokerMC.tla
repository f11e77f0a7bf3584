--------------------------- MODULE StompBrokerMC ---------------------------
(* Small instances of StompBroker. *)
EXTENDS StompBroker, TLC

\* The broker treats all names alike.
Symmetry == Permutations(Conns) \cup Permutations(Users)
                \cup Permutations(Passcodes)
                \cup Permutations(Channels) \cup Permutations(SubIds)

=============================================================================
