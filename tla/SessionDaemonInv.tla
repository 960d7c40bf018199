--------------------------- MODULE SessionDaemonInv ---------------------------
(***************************************************************************)
(* The inductive invariant of SessionDaemon.                               *)
(***************************************************************************)
EXTENDS SessionDaemon

\* What the client's run has come to as far as the daemon can tell: the request
\* it has, or the statement a client that is there will send.
Phase(c) == IF req[c] # "none" THEN req[c] ELSE IF open[c] THEN step[c] ELSE "none"

\* The mutex: who works with the session owns it, and then there is one, except
\* while its owner connects.
GuardInv ==
    /\ \A c \in Client :
          hand[c] \in {"connect", "run", "rollback", "unlock"} => guard = c
    /\ guard # None => /\ hand[guard] \in {"read", "connect", "run", "rollback", "unlock"}
                       /\ (warm = None <=> hand[guard] = "connect")
    /\ ~up => warm = None /\ \A c \in Client : hand[c] = "none"

\* Requests: a client has sent what it waits for, a handler that needs the
\* session has a request, and the first one it gets is the handshake.
ReqInv ==
    \A c \in Client :
        /\ open[c] => step[c] \in Stmts /\ req[c] \in {"none", step[c]}
        /\ hand[c] \in {"wait", "connect", "run"} => req[c] # "none"
        /\ hand[c] # "none" /\ guard # c => Phase(c) \in {"none", "ping"}
        /\ hand[c] = "connect" => Phase(c) = "ping"
        /\ step[c] = "start" => hand[c] = "none" /\ req[c] = "none"

\* Sessions on the server: only the warm one is in use, and a closed one has
\* nothing left.
LinkInv ==
    \A s \in Sess : /\ link[s] \in {"live", "hung"} => s = warm
                    /\ waiting[s] => link[s] = "cut"
                    /\ link[s] = "closed" => ~tx[s] /\ \A d \in Dbs : owner[d] # s

\* Locks on the server.
DepthInv  == \A d \in Dbs : owner[d] # None <=> depth[d] > 0
DirectInv == \A c \in Client : step[c] = "holding" => owner[Db[c]] = c
SessInv   == LinkInv /\ DepthInv /\ DirectInv

\* A session in the mutex is clean; with no USE in scripts its lock goes too.
CleanInv ==
    warm # None /\ guard = None =>
        /\ ~tx[warm] /\ ~waiting[warm]
        /\ ~Switches => \A d \in Dbs : owner[d] # warm

\* What a session that is in use holds, by the phase of its client.
PhaseInv ==
    \A c \in Client : guard = c /\ warm # None /\ link[warm] \in {"live", "hung"} =>
        /\ ~Switches => \A d \in Dbs : owner[d] = warm => d = ctx[warm] /\ depth[d] = 1
        /\ hand[c] \in {"read", "run"} =>
              /\ Phase(c) \in Handshake \cup {"getlock"} /\ ~Switches =>
                    \A d \in Dbs : owner[d] # warm
              /\ Phase(c) = "getlock" => ctx[warm] = Db[c]
              /\ Phase(c) \in Locked => owner[Db[c]] = warm
              /\ Phase(c) \in {"body", "commit"} => tx[warm]
        /\ hand[c] = "unlock" => ~tx[warm]

\* GuardInv to PhaseInv together are inductive: no part is without the others.
DaemonInv == TypeOK /\ GuardInv /\ ReqInv /\ SessInv /\ CleanInv /\ PhaseInv

=============================================================================
