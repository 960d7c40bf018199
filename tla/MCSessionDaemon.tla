--------------------------- MODULE MCSessionDaemon ---------------------------
(***************************************************************************)
(* SessionDaemon for TLC.                                                  *)
(***************************************************************************)
EXTENDS SessionDaemonInv, TLC

\* Every client deploys the same database.
MCDb == [c \in Client |-> "x"]

\* Sessions, and the clients the daemon accepts, are interchangeable.
ClientSymmetry == Permutations(Client \ Foreign) \cup Permutations(Sess)

=============================================================================
