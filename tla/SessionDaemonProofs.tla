------------------------- MODULE SessionDaemonProofs -------------------------
(***************************************************************************)
(* Proofs about the session daemon: DaemonInv is inductive, and type       *)
(* correctness, the one-session guarantee and the clean handover follow.   *)
(***************************************************************************)
EXTENDS SessionDaemonInv, TLAPS

USE ClientAssumption, DbAssumption, SlotAssumption, FaultAssumption

\* An error answer (protocol.rs Response::err, read by ProxyClient::call) ends the
\* handshake or the run, or sends a run that may hold the lock to its rollback or
\* its release; it changes no other client.
LEMMA ErrorAnswer ==
    ASSUME NEW c \in Client, TypeOK, ReqInv, AnswerError(c)
    PROVE  /\ req' = [req EXCEPT ![c] = "none"]
           /\ step' \in [Client -> Steps] /\ open' \in [Client -> BOOLEAN]
           /\ left' \in [Client -> 0 .. MaxUnits]
           /\ \A e \in Client \ {c} : step'[e] = step[e] /\ open'[e] = open[e]
           /\ open'[c] => open[c] /\ step'[c] \in {"rollback", "release"}
                             /\ step[c] \in Locked
           /\ ~open[c] => step'[c] = step[c]
           /\ open[c] => step'[c] \in {"direct", "closed", "rollback", "release"}
<1>1. (step[c] \in Stmts /\ open[c]) \/ ~open[c]
    BY DEF TypeOK, ReqInv
<1>2. CASE ~open[c]
    BY <1>2 DEF AnswerError, Answered, TypeOK
<1>3. CASE open[c] /\ step[c] \in Stmts
    <2>1. /\ AfterError(c) \in {"direct", "closed", "rollback", "release"}
          /\ AfterError(c) \in {"rollback", "release"} => step[c] \in Locked
        BY <1>3 DEF AfterError, Stmts, Handshake, Locked
    <2>2. Answered(c) /\ Advance(c, AfterError(c))
        BY <1>3 DEF AnswerError
    <2> QED
        BY <1>3, <2>1, <2>2
           DEF Answered, Advance, TypeOK, Steps, Stmts, Handshake, Locked
<1> QED
    BY <1>1, <1>2, <1>3

\* A success answer (ProxyClient::exec) moves the client to the next statement of
\* handshake, lock, unit of work and release, or closes it; it changes no other.
LEMMA OkAnswer ==
    ASSUME NEW c \in Client, TypeOK, ReqInv, AnswerOk(c)
    PROVE  /\ req' = [req EXCEPT ![c] = "none"]
           /\ step' \in [Client -> Steps] /\ open' \in [Client -> BOOLEAN]
           /\ left' \in [Client -> 0 .. MaxUnits]
           /\ \A e \in Client \ {c} : step'[e] = step[e] /\ open'[e] = open[e]
           /\ ~open[c] => step'[c] = step[c] /\ ~open'[c]
           /\ open[c] => step'[c] \in Stmts \cup {"closed"}
           /\ open'[c] => \/ step[c] = "ping" /\ step'[c] = "use"
                          \/ step[c] = "use" /\ step'[c] = "getlock"
                          \/ /\ step[c] \in {"getlock", "commit", "rollback"}
                             /\ step'[c] \in {"begin", "release"}
                          \/ step[c] = "begin" /\ step'[c] = "body"
                          \/ step[c] = "body" /\ step'[c] = "commit"
<1>1. (step[c] \in Stmts /\ open[c]) \/ ~open[c]
    BY DEF TypeOK, ReqInv
<1>2. CASE ~open[c]
    BY <1>2 DEF AnswerOk, Answered, TypeOK
<1>3. CASE open[c] /\ step[c] \in Stmts
    <2>1. PICK q \in AfterOk(c) : Advance(c, q)
        BY <1>3 DEF AnswerOk
    <2>2. /\ q \in Stmts \cup {"closed"} /\ (q = "begin" => left[c] # 0)
          /\ q # "closed" => \/ step[c] = "ping" /\ q = "use"
                             \/ step[c] = "use" /\ q = "getlock"
                             \/ /\ step[c] \in {"getlock", "commit", "rollback"}
                                /\ q \in {"begin", "release"}
                             \/ step[c] = "begin" /\ q = "body"
                             \/ step[c] = "body" /\ q = "commit"
        BY <1>3, <2>1 DEF AfterOk, Stmts, Handshake, Locked
    <2>3. Answered(c)
        BY DEF AnswerOk
    <2> QED
        BY <1>3, <2>1, <2>2, <2>3, SMTT(30)
           DEF Answered, Advance, TypeOK, Steps, Stmts, Handshake, Locked
<1> QED
    BY <1>1, <1>2, <1>3

\* daemon_rpc::handle on the warm session: the statement takes effect only for the
\* client that owns the mutex, so its lock and transaction stay on that session.
LEMMA HandleKeeps ==
    ASSUME DaemonInv, NEW c \in Client, Handle(c)
    PROVE  DaemonInv'
<1>1. TypeOK /\ GuardInv /\ ReqInv /\ SessInv /\ CleanInv /\ PhaseInv
    BY DEF DaemonInv
<1>2. /\ warm \in Sess /\ warm # None /\ guard = c /\ hand[c] = "run" /\ link[warm] = "live"
      /\ req[c] \in Stmts /\ (open[c] => step[c] = req[c])
    BY <1>1 DEF Handle, TypeOK, GuardInv, ReqInv
<1>3. /\ hand' = [hand EXCEPT ![c] = IF open[c] THEN "read" ELSE "rollback"]
      /\ UNCHANGED <<up, warm, guard>>
    BY DEF Handle, AfterAnswer, Hand
<1>4. CASE Succeeds(warm, c) /\ AnswerOk(c)
    <2>1. /\ link' = link /\ waiting' = waiting
          /\ tx' \in [Sess -> BOOLEAN] /\ \A s \in Sess \ {warm} : tx'[s] = tx[s]
          /\ req[c] = "begin" => tx'[warm]
          /\ req[c] \notin {"begin", "commit", "rollback"} => tx'[warm] = tx[warm]
        BY <1>1, <1>2, <1>4 DEF Succeeds, TypeOK
    <2>2. /\ ctx' \in [Sess -> Dbs]
          /\ req[c] = "use" => ctx'[warm] = Db[c]
          /\ req[c] # "use" /\ ~Switches => ctx'[warm] = ctx[warm]
        <3>1. CASE req[c] = "use"
            BY <1>1, <1>2, <1>4, <3>1 DEF Succeeds, TypeOK
        <3>2. CASE req[c] = "body"
            BY <1>1, <1>2, <1>4, <3>2 DEF Succeeds, TypeOK
        <3>3. CASE req[c] \notin {"use", "body"}
            BY <1>1, <1>2, <1>4, <3>3 DEF Succeeds, TypeOK
        <3> QED
            BY <3>1, <3>2, <3>3
    <2>3. /\ owner' \in [Dbs -> Sess \cup Client \cup {None}] /\ depth' \in [Dbs -> 0 .. 2]
          /\ \A d \in Dbs : owner'[d] # None <=> depth'[d] > 0
          /\ \A d \in Dbs : owner'[d] \in {owner[d], warm, None}
          /\ \A d \in Dbs : owner[d] # warm => owner'[d] \in {owner[d], warm}
          /\ \A d \in Dbs : owner[d] # warm /\ owner'[d] = warm =>
                req[c] = "getlock" /\ owner[d] = None /\ d = ctx[warm]
          /\ req[c] = "getlock" => owner'[ctx[warm]] = warm
          /\ req[c] = "getlock" /\ owner[ctx[warm]] = None => depth'[ctx[warm]] = 1
          /\ req[c] = "release" => \A d \in Dbs : depth'[d] \in {depth[d], depth[d] - 1}
          /\ req[c] # "release" => \A d \in Dbs : owner[d] = warm => owner'[d] = warm
          /\ req[c] \notin {"getlock", "release"} => depth' = depth
        <3>1. CASE req[c] = "getlock"
            BY <1>1, <1>2, <1>4, <3>1 DEF Succeeds, TakeLock, TypeOK, SessInv, DepthInv
        <3>2. CASE req[c] = "release"
            BY <1>1, <1>2, <1>4, <3>2 DEF Succeeds, DropLock, TypeOK, SessInv, DepthInv
        <3>3. CASE req[c] \notin {"getlock", "release"}
            BY <1>1, <1>2, <1>4, <3>3 DEF Succeeds, TypeOK, SessInv, DepthInv
        <3> QED
            BY <3>1, <3>2, <3>3
    <2>4. TypeOK'
        BY <1>1, <1>2, <1>3, <1>4, <2>1, <2>2, <2>3, OkAnswer
           DEF TypeOK, HandStates, Steps
    <2>5. GuardInv' /\ CleanInv'
        BY <1>1, <1>2, <1>3, <1>4 DEF GuardInv, CleanInv, TypeOK
    <2>6. ReqInv'
        BY <1>1, <1>2, <1>3, <1>4, OkAnswer
           DEF ReqInv, Phase, GuardInv, TypeOK, Stmts, Handshake, Locked
    <2>7. SessInv'
        <3>1. LinkInv'
            <4> SUFFICES ASSUME NEW s \in Sess
                         PROVE  /\ link'[s] \in {"live", "hung"} => s = warm'
                                /\ waiting'[s] => link'[s] = "cut"
                                /\ link'[s] = "closed" =>
                                      ~tx'[s] /\ \A d \in Dbs : owner'[d] # s
                BY DEF LinkInv
            <4>1. CASE s = warm
                BY <1>1, <1>2, <1>3, <2>1, <4>1 DEF SessInv, LinkInv
            <4>2. CASE s # warm
                <5>1. link'[s] = "closed" => \A d \in Dbs : owner'[d] # s
                    BY <1>1, <2>1, <2>3, <4>2, <1>2 DEF SessInv, LinkInv, TypeOK
                <5> QED
                    BY <1>1, <1>3, <2>1, <4>2, <5>1 DEF SessInv, LinkInv
            <4> QED
                BY <4>1, <4>2
        <3>2. \A e \in Client : step'[e] = "holding" => step[e] = "holding"
            BY <1>4, <1>1, OkAnswer DEF Stmts, Handshake, Locked
        <3>3. DirectInv'
            BY <1>1, <1>2, <2>3, <3>2 DEF SessInv, DirectInv, TypeOK
        <3>4. DepthInv'
            BY <2>3 DEF DepthInv
        <3> QED
            BY <3>1, <3>3, <3>4 DEF SessInv
    <2>8. PhaseInv'
        <3>1. Phase(c)' = IF open'[c] THEN step'[c] ELSE "none"
            BY <1>1, <1>4, OkAnswer DEF Phase, TypeOK
        <3>2. ~Switches => \A d \in Dbs : owner'[d] = warm => d = ctx'[warm] /\ depth'[d] = 1
            <4>1. CASE req[c] \in Handshake \cup {"getlock"}
                BY <1>1, <1>2, <2>2, <2>3, <4>1
                   DEF PhaseInv, Phase, Handshake, SessInv, LinkInv, DepthInv,
                       DirectInv, TypeOK
            <4>2. CASE req[c] \in Locked
                BY <1>1, <1>2, <2>2, <2>3, <4>2
                   DEF PhaseInv, Phase, Locked, SessInv, LinkInv, DepthInv,
                       DirectInv, TypeOK
            <4> QED
                BY <1>2, <4>1, <4>2 DEF Stmts
        <3>3. open'[c] => /\ step'[c] \in Handshake \cup {"getlock"} /\ ~Switches =>
                                \A d \in Dbs : owner'[d] # warm
                          /\ step'[c] = "getlock" => ctx'[warm] = Db[c]
            BY <1>1, <1>2, <1>4, <2>2, <2>3, OkAnswer
               DEF PhaseInv, Phase, Handshake, TypeOK
        <3>4. open'[c] => /\ step'[c] \in Locked => owner'[Db[c]] = warm
                          /\ step'[c] \in {"body", "commit"} => tx'[warm]
            BY <1>1, <1>2, <1>4, <2>1, <2>3, OkAnswer
               DEF PhaseInv, Phase, Locked, TypeOK
        <3> QED
            BY <1>2, <1>3, <3>1, <3>2, <3>3, <3>4 DEF PhaseInv, Handshake, Locked
    <2> QED
        BY <2>4, <2>5, <2>6, <2>7, <2>8 DEF DaemonInv
<1>5. CASE Refuses(warm, c) /\ AnswerError(c)
    <2>1. TypeOK'
        <3>1. /\ req' = [req EXCEPT ![c] = "none"] /\ step' \in [Client -> Steps]
              /\ open' \in [Client -> BOOLEAN] /\ left' \in [Client -> 0 .. MaxUnits]
            BY <1>1, <1>5, ErrorAnswer
        <3> QED
            BY <1>1, <1>2, <1>3, <1>5, <3>1 DEF Refuses, TypeOK, HandStates, Stmts
    <2>2. GuardInv' /\ CleanInv'
        BY <1>1, <1>2, <1>3, <1>5 DEF GuardInv, CleanInv, TypeOK
    <2>3. ReqInv'
        BY <1>1, <1>2, <1>3, <1>5, ErrorAnswer
           DEF ReqInv, Phase, GuardInv, TypeOK, Stmts, Handshake, Locked
    <2>4. SessInv'
        BY <1>1, <1>2, <1>3, <1>5, ErrorAnswer
           DEF Refuses, SessInv, LinkInv, DepthInv, DirectInv, TypeOK, Stmts,
               Handshake, Locked
    <2>5. PhaseInv'
        BY <1>1, <1>2, <1>3, <1>5, ErrorAnswer
           DEF Refuses, PhaseInv, Phase, SessInv, LinkInv, DepthInv, DirectInv,
               TypeOK, Stmts, Handshake, Locked
    <2> QED
        BY <2>1, <2>2, <2>3, <2>4, <2>5 DEF DaemonInv
<1> QED
    BY <1>4, <1>5 DEF Handle

\* ProxyClient::connect opens a socket; no handler serves it yet.
LEMMA ConnectKeeps ==
    ASSUME DaemonInv, NEW c \in Client, Connect(c)
    PROVE  DaemonInv'
<1>1. TypeOK /\ GuardInv /\ ReqInv /\ SessInv /\ CleanInv /\ PhaseInv
    BY DEF DaemonInv
<1>2. TypeOK'
    BY <1>1 DEF TypeOK, Connect, server, Stmts, Steps, Handshake, Locked, HandStates
<1>3. GuardInv'
    BY <1>1
       DEF TypeOK, GuardInv, ReqInv, Connect, server, Stmts, Steps, Handshake,
           Locked, HandStates
<1>4. ReqInv'
    BY <1>1
       DEF TypeOK, ReqInv, Phase, Connect, server, Stmts, Steps, Handshake, Locked,
           HandStates
<1>5. SessInv'
    BY <1>1 DEF SessInv, LinkInv, DepthInv, DirectInv, Connect, server
<1>6. CleanInv'
    BY <1>1 DEF CleanInv, Connect, server
<1>7. PhaseInv'
    BY <1>1
       DEF TypeOK, PhaseInv, Phase, Connect, server, Stmts, Steps, Handshake,
           Locked, HandStates
<1> QED
    BY <1>2, <1>3, <1>4, <1>5, <1>6, <1>7 DEF DaemonInv

\* connect_session_or_direct falls back when nobody listens at the socket.
LEMMA ConnectFailsKeeps ==
    ASSUME DaemonInv, NEW c \in Client, ConnectFails(c)
    PROVE  DaemonInv'
<1>1. TypeOK /\ GuardInv /\ ReqInv /\ SessInv /\ CleanInv /\ PhaseInv
    BY DEF DaemonInv
<1>2. TypeOK'
    BY <1>1
       DEF TypeOK, ConnectFails, daemon, server, Stmts, Steps, Handshake, Locked,
           HandStates
<1>3. GuardInv'
    BY <1>1 DEF GuardInv, ConnectFails, daemon, server
<1>4. ReqInv'
    BY <1>1 DEF ReqInv, Phase, ConnectFails, daemon, server, Stmts, Handshake, Locked
<1>5. SessInv'
    BY <1>1 DEF SessInv, LinkInv, DepthInv, DirectInv, ConnectFails, daemon, server
<1>6. CleanInv'
    BY <1>1 DEF CleanInv, ConnectFails, daemon, server
<1>7. PhaseInv'
    BY <1>1 DEF PhaseInv, Phase, ConnectFails, daemon, server, Handshake, Locked
<1> QED
    BY <1>2, <1>3, <1>4, <1>5, <1>6, <1>7 DEF DaemonInv

\* ProxyClient::call writes the next request of the run.
LEMMA SendKeeps ==
    ASSUME DaemonInv, NEW c \in Client, Send(c)
    PROVE  DaemonInv'
<1>1. TypeOK /\ GuardInv /\ ReqInv /\ SessInv /\ CleanInv /\ PhaseInv
    BY DEF DaemonInv
<1>2. TypeOK'
    BY <1>1
       DEF TypeOK, ReqInv, Send, daemon, server, Stmts, Steps, Handshake, Locked,
           HandStates
<1>3. GuardInv'
    BY <1>1 DEF GuardInv, Send, daemon, server
<1>4. ReqInv'
    BY <1>1 DEF ReqInv, Phase, Send, daemon, server, Stmts, Handshake, Locked
<1>5. SessInv'
    BY <1>1 DEF SessInv, LinkInv, DepthInv, DirectInv, Send, daemon, server
<1>6. CleanInv'
    BY <1>1 DEF CleanInv, Send, daemon, server
<1>7. PhaseInv'
    BY <1>1 DEF PhaseInv, Phase, Send, daemon, server, Handshake, Locked
<1> QED
    BY <1>2, <1>3, <1>4, <1>5, <1>6, <1>7 DEF DaemonInv

\* ProxyClient::call reads end of file because its handler has gone.
LEMMA EofKeeps ==
    ASSUME DaemonInv, NEW c \in Client, Eof(c)
    PROVE  DaemonInv'
<1>1. TypeOK /\ GuardInv /\ ReqInv /\ SessInv /\ CleanInv /\ PhaseInv
    BY DEF DaemonInv
<1>2. TypeOK'
    BY <1>1, ErrorAnswer
       DEF TypeOK, Eof, daemon, server, Stmts, Steps, Handshake, Locked, HandStates
<1>3. GuardInv'
    BY <1>1, ErrorAnswer DEF GuardInv, Eof, daemon, server
<1>4. ReqInv'
    BY <1>1, ErrorAnswer
       DEF TypeOK, ReqInv, Phase, Eof, daemon, server, Stmts, Steps, Handshake,
           Locked, HandStates
<1>5. SessInv'
    BY <1>1, ErrorAnswer DEF SessInv, LinkInv, DepthInv, DirectInv, Eof, daemon, server
<1>6. CleanInv'
    BY <1>1, ErrorAnswer DEF CleanInv, Eof, daemon, server
<1>7. PhaseInv'
    BY <1>1, ErrorAnswer
       DEF TypeOK, PhaseInv, Phase, Eof, daemon, server, Stmts, Steps, Handshake,
           Locked, HandStates
<1> QED
    BY <1>2, <1>3, <1>4, <1>5, <1>6, <1>7 DEF DaemonInv

\* TimingConn drops the proxy when its own timeout passes; the request stays where
\* it is.
LEMMA GiveUpKeeps ==
    ASSUME DaemonInv, NEW c \in Client, GiveUp(c)
    PROVE  DaemonInv'
<1>1. TypeOK /\ GuardInv /\ ReqInv /\ SessInv /\ CleanInv /\ PhaseInv
    BY DEF DaemonInv
<1>2. TypeOK'
    BY <1>1
       DEF TypeOK, GiveUp, Advance, daemon, server, Stmts, Steps, Handshake, Locked,
           HandStates
<1>3. GuardInv'
    BY <1>1 DEF GuardInv, GiveUp, Advance, daemon, server, Handshake
<1>4. ReqInv'
    BY <1>1
       DEF TypeOK, ReqInv, Phase, GiveUp, Advance, daemon, server, Stmts, Steps,
           Handshake, Locked, HandStates
<1>5. SessInv'
    BY <1>1
       DEF SessInv, LinkInv, DepthInv, DirectInv, GiveUp, Advance, daemon, server,
           Handshake
<1>6. CleanInv'
    BY <1>1 DEF CleanInv, GiveUp, Advance, daemon, server, Handshake
<1>7. PhaseInv'
    BY <1>1 DEF PhaseInv, Phase, GiveUp, Advance, daemon, server, Handshake, Locked
<1> QED
    BY <1>2, <1>3, <1>4, <1>5, <1>6, <1>7 DEF DaemonInv

\* The client process is killed; a direct session of it frees its lock.
LEMMA DieKeeps ==
    ASSUME DaemonInv, NEW c \in Client, Die(c)
    PROVE  DaemonInv'
<1>1. TypeOK /\ GuardInv /\ ReqInv /\ SessInv /\ CleanInv /\ PhaseInv
    BY DEF DaemonInv
<1>2. TypeOK'
    BY <1>1
       DEF TypeOK, Die, Advance, daemon, Stmts, Steps, Handshake, Locked, HandStates
<1>3. GuardInv'
    BY <1>1 DEF GuardInv, Die, Advance, daemon
<1>4. ReqInv'
    BY <1>1
       DEF TypeOK, ReqInv, Phase, Die, Advance, daemon, Stmts, Steps, Handshake,
           Locked, HandStates
<1>5. SessInv'
    BY <1>1
       DEF TypeOK, SessInv, LinkInv, DepthInv, DirectInv, Die, Advance, daemon,
           Stmts, Steps, Handshake, Locked, HandStates
<1>6. CleanInv'
    BY <1>1 DEF CleanInv, Die, Advance, daemon
<1>7. PhaseInv'
    BY <1>1
       DEF TypeOK, PhaseInv, Phase, Die, Advance, daemon, Stmts, Steps, Handshake,
           Locked, HandStates
<1> QED
    BY <1>2, <1>3, <1>4, <1>5, <1>6, <1>7 DEF DaemonInv

\* A client that fell back takes the lock with a session of its own.
LEMMA DirectLockKeeps ==
    ASSUME DaemonInv, NEW c \in Client, DirectLock(c)
    PROVE  DaemonInv'
<1>1. TypeOK /\ GuardInv /\ ReqInv /\ SessInv /\ CleanInv /\ PhaseInv
    BY DEF DaemonInv
<1>2. TypeOK'
    BY <1>1 DEF TypeOK, DirectLock, daemon, Stmts, Steps, Handshake, Locked, HandStates
<1>3. GuardInv'
    BY <1>1 DEF GuardInv, DirectLock, daemon
<1>4. ReqInv'
    BY <1>1
       DEF TypeOK, ReqInv, Phase, DirectLock, daemon, Stmts, Steps, Handshake,
           Locked, HandStates
<1>5. SessInv'
    BY <1>1
       DEF TypeOK, SessInv, LinkInv, DepthInv, DirectInv, DirectLock, daemon, Stmts,
           Steps, Handshake, Locked, HandStates
<1>6. CleanInv'
    BY <1>1
       DEF TypeOK, CleanInv, DirectLock, daemon, Stmts, Steps, Handshake, Locked,
           HandStates
<1>7. PhaseInv'
    BY <1>1
       DEF TypeOK, PhaseInv, Phase, DirectLock, daemon, Stmts, Steps, Handshake,
           Locked, HandStates
<1> QED
    BY <1>2, <1>3, <1>4, <1>5, <1>6, <1>7 DEF DaemonInv

\* release_after_body on a direct session.
LEMMA DirectEndsKeeps ==
    ASSUME DaemonInv, NEW c \in Client, DirectEnds(c)
    PROVE  DaemonInv'
<1>1. TypeOK /\ GuardInv /\ ReqInv /\ SessInv /\ CleanInv /\ PhaseInv
    BY DEF DaemonInv
<1>2. TypeOK'
    BY <1>1 DEF TypeOK, DirectEnds, daemon, Stmts, Steps, Handshake, Locked, HandStates
<1>3. GuardInv'
    BY <1>1 DEF GuardInv, DirectEnds, daemon
<1>4. ReqInv'
    BY <1>1 DEF ReqInv, Phase, DirectEnds, daemon, Stmts, Handshake, Locked
<1>5. SessInv'
    BY <1>1
       DEF TypeOK, SessInv, LinkInv, DepthInv, DirectInv, DirectEnds, daemon, Stmts,
           Steps, Handshake, Locked, HandStates
<1>6. CleanInv'
    BY <1>1 DEF CleanInv, DirectEnds, daemon
<1>7. PhaseInv'
    BY <1>1
       DEF TypeOK, PhaseInv, GuardInv, SessInv, LinkInv, DepthInv, DirectInv,
           ReqInv, CleanInv, Phase, DirectEnds, daemon, server, client,
           Stmts, Steps, Handshake, Locked, HandStates
<1> QED
    BY <1>2, <1>3, <1>4, <1>5, <1>6, <1>7 DEF DaemonInv

\* The same client runs another command.
LEMMA AgainKeeps ==
    ASSUME DaemonInv, NEW c \in Client, Again(c)
    PROVE  DaemonInv'
<1>1. TypeOK /\ GuardInv /\ ReqInv /\ SessInv /\ CleanInv /\ PhaseInv
    BY DEF DaemonInv
<1>2. TypeOK'
    BY <1>1
       DEF TypeOK, Again, Answered, daemon, server, Stmts, Steps, Handshake, Locked,
           HandStates
<1>3. GuardInv'
    BY <1>1 DEF GuardInv, Again, Answered, daemon, server
<1>4. ReqInv'
    BY <1>1
       DEF TypeOK, ReqInv, Phase, Again, Answered, daemon, server, Stmts, Steps,
           Handshake, Locked, HandStates
<1>5. SessInv'
    BY <1>1 DEF SessInv, LinkInv, DepthInv, DirectInv, Again, Answered, daemon, server
<1>6. CleanInv'
    BY <1>1 DEF CleanInv, Again, Answered, daemon, server
<1>7. PhaseInv'
    BY <1>1 DEF PhaseInv, Phase, Again, Answered, daemon, server, Handshake, Locked
<1> QED
    BY <1>2, <1>3, <1>4, <1>5, <1>6, <1>7 DEF DaemonInv

\* run_daemon accepts a socket when a handler slot is free.
LEMMA AcceptKeeps ==
    ASSUME DaemonInv, NEW c \in Client, Accept(c)
    PROVE  DaemonInv'
<1>1. TypeOK /\ GuardInv /\ ReqInv /\ SessInv /\ CleanInv /\ PhaseInv
    BY DEF DaemonInv
<1>2. TypeOK'
    BY <1>1
       DEF TypeOK, Accept, Hand, Served, server, client, Stmts, Steps, Handshake,
           Locked, HandStates
<1>3. GuardInv'
    BY <1>1 DEF GuardInv, Accept, Hand, Served, server, client, HandStates
<1>4. ReqInv'
    BY <1>1
       DEF ReqInv, Phase, Accept, Hand, Served, server, client, Stmts, Handshake,
           Locked, HandStates
<1>5. SessInv'
    BY <1>1
       DEF SessInv, LinkInv, DepthInv, DirectInv, Accept, Hand, Served, server,
           client, HandStates
<1>6. CleanInv'
    BY <1>1 DEF CleanInv, Accept, Hand, Served, server, client, HandStates
<1>7. PhaseInv'
    BY <1>1
       DEF TypeOK, PhaseInv, GuardInv, Phase, Accept, Hand, Served, server, client,
           Stmts, Steps, Handshake, Locked, HandStates
<1> QED
    BY <1>2, <1>3, <1>4, <1>5, <1>6, <1>7 DEF DaemonInv

\* serve_loop ends at end of file or at the idle timeout.
LEMMA IdleKeeps ==
    ASSUME DaemonInv, NEW c \in Client, Idle(c)
    PROVE  DaemonInv'
<1>1. TypeOK /\ GuardInv /\ ReqInv /\ SessInv /\ CleanInv /\ PhaseInv
    BY DEF DaemonInv
<1>2. TypeOK'
    BY <1>1
       DEF TypeOK, Idle, Leave, Hand, server, client, Stmts, Steps, Handshake,
           Locked, HandStates
<1>3. GuardInv'
    BY <1>1 DEF GuardInv, Idle, Leave, Hand, server, client
<1>4. ReqInv'
    BY <1>1
       DEF ReqInv, Phase, Idle, Leave, Hand, server, client, Stmts, Handshake,
           Locked
<1>5. SessInv'
    BY <1>1 DEF SessInv, LinkInv, DepthInv, DirectInv, Idle, Leave, Hand, server, client
<1>6. CleanInv'
    BY <1>1 DEF CleanInv, Idle, Leave, Hand, server, client
<1>7. PhaseInv'
    BY <1>1 DEF PhaseInv, Phase, Idle, Leave, Hand, server, client, Handshake, Locked
<1> QED
    BY <1>2, <1>3, <1>4, <1>5, <1>6, <1>7 DEF DaemonInv

\* serve_loop refuses a failed auth or another endpoint before it asks for the
\* session, so nothing of the session changes.
LEMMA RefusalKeeps ==
    ASSUME DaemonInv, NEW c \in Client, Refusal(c)
    PROVE  DaemonInv'
<1>1. TypeOK /\ GuardInv /\ ReqInv /\ SessInv /\ CleanInv /\ PhaseInv
    BY DEF DaemonInv
<1>2. TypeOK'
    BY <1>1, ErrorAnswer
       DEF TypeOK, Refusal, Leave, Hand, server, Stmts, Steps, Handshake, Locked,
           HandStates
<1>3. GuardInv'
    BY <1>1, ErrorAnswer DEF GuardInv, Refusal, Leave, Hand, server
<1>4. ReqInv'
    BY <1>1, ErrorAnswer
       DEF TypeOK, ReqInv, Phase, Refusal, Leave, Hand, server, Stmts, Steps,
           Handshake, Locked, HandStates
<1>5. SessInv'
    BY <1>1, ErrorAnswer
       DEF SessInv, LinkInv, DepthInv, DirectInv, Refusal, Leave, Hand, server
<1>6. CleanInv'
    BY <1>1, ErrorAnswer DEF CleanInv, Refusal, Leave, Hand, server
<1>7. PhaseInv'
    BY <1>1, ErrorAnswer
       DEF TypeOK, PhaseInv, Phase, Refusal, Leave, Hand, server, Stmts, Steps,
           Handshake, Locked, HandStates
<1> QED
    BY <1>2, <1>3, <1>4, <1>5, <1>6, <1>7 DEF DaemonInv

\* serve_loop passes a request on: to the session it owns, or to the mutex.
LEMMA RequestKeeps ==
    ASSUME DaemonInv, NEW c \in Client, Request(c)
    PROVE  DaemonInv'
<1>1. TypeOK /\ GuardInv /\ ReqInv /\ SessInv /\ CleanInv /\ PhaseInv
    BY DEF DaemonInv
<1>2. TypeOK'
    BY <1>1
       DEF TypeOK, Request, Hand, server, client, Stmts, Steps, Handshake, Locked,
           HandStates
<1>3. GuardInv'
    BY <1>1 DEF GuardInv, Request, Hand, server, client
<1>4. ReqInv'
    BY <1>1 DEF ReqInv, Phase, Request, Hand, server, client, Stmts, Handshake, Locked
<1>5. SessInv'
    BY <1>1 DEF SessInv, LinkInv, DepthInv, DirectInv, Request, Hand, server, client
<1>6. CleanInv'
    BY <1>1 DEF CleanInv, Request, Hand, server, client
<1>7. PhaseInv'
    BY <1>1 DEF PhaseInv, Phase, Request, Hand, server, client, Handshake, Locked
<1> QED
    BY <1>2, <1>3, <1>4, <1>5, <1>6, <1>7 DEF DaemonInv

\* acquire_session locks the mutex: the warm session it finds is a clean one.
LEMMA TakeGuardKeeps ==
    ASSUME DaemonInv, NEW c \in Client, TakeGuard(c)
    PROVE  DaemonInv'
<1>1. TypeOK /\ GuardInv /\ ReqInv /\ SessInv /\ CleanInv /\ PhaseInv
    BY DEF DaemonInv
<1>2. TypeOK'
    BY <1>1
       DEF TypeOK, TakeGuard, Hand, server, client, Stmts, Steps, Handshake, Locked,
           HandStates
<1>3. GuardInv'
    BY <1>1
       DEF TypeOK, GuardInv, TakeGuard, Hand, server, client, Stmts, Steps,
           Handshake, Locked, HandStates
<1>4. ReqInv'
    BY <1>1 DEF ReqInv, Phase, TakeGuard, Hand, server, client, Stmts, Handshake, Locked
<1>5. SessInv'
    BY <1>1 DEF SessInv, LinkInv, DepthInv, DirectInv, TakeGuard, Hand, server, client
<1>6. CleanInv'
    BY <1>1 DEF CleanInv, TakeGuard, Hand, server, client
<1>7. PhaseInv'
    BY <1>1
       DEF TypeOK, PhaseInv, GuardInv, SessInv, LinkInv, DepthInv, DirectInv,
           ReqInv, CleanInv, Phase, TakeGuard, Hand, daemon, server, client,
           Stmts, Steps, Handshake, Locked, HandStates
<1> QED
    BY <1>2, <1>3, <1>4, <1>5, <1>6, <1>7 DEF DaemonInv

\* acquire_session opens a fresh session where there is none.
LEMMA ReconnectKeeps ==
    ASSUME DaemonInv, NEW c \in Client, Reconnect(c)
    PROVE  DaemonInv'
<1>1. TypeOK /\ GuardInv /\ ReqInv /\ SessInv /\ CleanInv /\ PhaseInv
    BY DEF DaemonInv
<1>2. TypeOK'
    BY <1>1
       DEF TypeOK, Reconnect, OpenSession, Hand, client, Stmts, Steps, Handshake,
           Locked, HandStates
<1>3. GuardInv'
    BY <1>1
       DEF TypeOK, GuardInv, Reconnect, OpenSession, Hand, client, Stmts, Steps,
           Handshake, Locked, HandStates
<1>4. ReqInv'
    BY <1>1
       DEF ReqInv, Phase, Reconnect, OpenSession, Hand, client, Stmts, Handshake,
           Locked
<1>5. SessInv'
    BY <1>1
       DEF TypeOK, SessInv, LinkInv, DepthInv, DirectInv, GuardInv, Reconnect,
           OpenSession, Hand, client, Stmts, Steps, Handshake, Locked,
           HandStates
<1>6. CleanInv'
    BY <1>1
       DEF TypeOK, CleanInv, GuardInv, Reconnect, OpenSession, Hand, client, Stmts,
           Steps, Handshake, Locked, HandStates
<1>7. PhaseInv'
    BY <1>1
       DEF TypeOK, PhaseInv, GuardInv, SessInv, LinkInv, DepthInv, DirectInv,
           ReqInv, CleanInv, Phase, Reconnect, OpenSession, Hand, daemon,
           server, client, Stmts, Steps, Handshake, Locked, HandStates
<1> QED
    BY <1>2, <1>3, <1>4, <1>5, <1>6, <1>7 DEF DaemonInv

\* A failing reconnect answers with an error and gives the mutex back.
LEMMA ReconnectFailsKeeps ==
    ASSUME DaemonInv, NEW c \in Client, ReconnectFails(c)
    PROVE  DaemonInv'
<1>1. TypeOK /\ GuardInv /\ ReqInv /\ SessInv /\ CleanInv /\ PhaseInv
    BY DEF DaemonInv
<1>2. TypeOK'
    BY <1>1, ErrorAnswer
       DEF TypeOK, ReconnectFails, Hand, server, Stmts, Steps, Handshake, Locked,
           HandStates
<1>3. GuardInv'
    BY <1>1, ErrorAnswer
       DEF TypeOK, GuardInv, ReconnectFails, Hand, server, Stmts, Steps, Handshake,
           Locked, HandStates
<1>4. ReqInv'
    BY <1>1, ErrorAnswer
       DEF TypeOK, ReqInv, Phase, GuardInv, ReconnectFails, Hand, server, Stmts,
           Steps, Handshake, Locked, HandStates
<1>5. SessInv'
    BY <1>1, ErrorAnswer
       DEF SessInv, LinkInv, DepthInv, DirectInv, ReconnectFails, Hand, server
<1>6. CleanInv'
    BY <1>1, ErrorAnswer
       DEF TypeOK, CleanInv, GuardInv, ReconnectFails, Hand, server, Stmts, Steps,
           Handshake, Locked, HandStates
<1>7. PhaseInv'
    BY <1>1, ErrorAnswer
       DEF PhaseInv, Phase, ReconnectFails, Hand, server, Handshake, Locked
<1> QED
    BY <1>2, <1>3, <1>4, <1>5, <1>6, <1>7 DEF DaemonInv

\* A statement fails with a broken connection: the session is discarded and the
\* handler ends.
LEMMA HandleBrokenKeeps ==
    ASSUME DaemonInv, NEW c \in Client, HandleBroken(c)
    PROVE  DaemonInv'
<1>1. TypeOK /\ GuardInv /\ ReqInv /\ SessInv /\ CleanInv /\ PhaseInv
    BY DEF DaemonInv
<1>2. TypeOK'
    BY <1>1, ErrorAnswer
       DEF TypeOK, HandleBroken, AfterAnswer, Hand, server, Stmts, Steps, Handshake,
           Locked, HandStates
<1>3. GuardInv'
    BY <1>1, ErrorAnswer DEF GuardInv, HandleBroken, AfterAnswer, Hand, server
<1>4. ReqInv'
    BY <1>1, ErrorAnswer
       DEF TypeOK, ReqInv, Phase, HandleBroken, AfterAnswer, Hand, server, Stmts,
           Steps, Handshake, Locked, HandStates
<1>5. SessInv'
    BY <1>1, ErrorAnswer
       DEF SessInv, LinkInv, DepthInv, DirectInv, HandleBroken, AfterAnswer, Hand,
           server
<1>6. CleanInv'
    BY <1>1, ErrorAnswer DEF CleanInv, HandleBroken, AfterAnswer, Hand, server
<1>7. PhaseInv'
    BY <1>1, ErrorAnswer
       DEF PhaseInv, Phase, HandleBroken, AfterAnswer, Hand, server, Handshake,
           Locked
<1> QED
    BY <1>2, <1>3, <1>4, <1>5, <1>6, <1>7 DEF DaemonInv

\* dispatch times a statement out: the session is discarded, and so is everything
\* the client could still ask of it.
LEMMA TimeoutKeeps ==
    ASSUME DaemonInv, NEW c \in Client, Timeout(c)
    PROVE  DaemonInv'
<1>1. TypeOK /\ GuardInv /\ ReqInv /\ SessInv /\ CleanInv /\ PhaseInv
    BY DEF DaemonInv
<1>2. TypeOK'
    BY <1>1, ErrorAnswer
       DEF TypeOK, GuardInv, Timeout, Cut, Hand, Stmts, Steps, Handshake, Locked,
           HandStates
<1>3. GuardInv'
    BY <1>1, ErrorAnswer
       DEF TypeOK, GuardInv, Timeout, Cut, Hand, Stmts, Steps, Handshake, Locked,
           HandStates
<1>4. ReqInv'
    BY <1>1, ErrorAnswer
       DEF TypeOK, ReqInv, Phase, GuardInv, Timeout, Cut, Hand, Stmts, Steps,
           Handshake, Locked, HandStates
<1>5. SessInv'
    BY <1>1, ErrorAnswer
       DEF TypeOK, SessInv, LinkInv, DepthInv, DirectInv, Timeout, Cut, Hand, Stmts,
           Steps, Handshake, Locked, HandStates
<1>6. CleanInv'
    BY <1>1, ErrorAnswer DEF CleanInv, Timeout, Cut, Hand
<1>7. PhaseInv'
    BY <1>1, ErrorAnswer DEF PhaseInv, Phase, Timeout, Cut, Hand, Handshake, Locked
<1> QED
    BY <1>2, <1>3, <1>4, <1>5, <1>6, <1>7 DEF DaemonInv

\* cleanup_session rolls back what the client left open.
LEMMA CleanRollbackKeeps ==
    ASSUME DaemonInv, NEW c \in Client, CleanRollback(c)
    PROVE  DaemonInv'
<1>1. TypeOK /\ GuardInv /\ ReqInv /\ SessInv /\ CleanInv /\ PhaseInv
    BY DEF DaemonInv
<1>2. TypeOK'
    BY <1>1
       DEF TypeOK, CleanRollback, Hand, client, Stmts, Steps, Handshake, Locked,
           HandStates
<1>3. GuardInv'
    BY <1>1 DEF GuardInv, CleanRollback, Hand, client
<1>4. ReqInv'
    BY <1>1 DEF ReqInv, Phase, CleanRollback, Hand, client, Stmts, Handshake, Locked
<1>5. SessInv'
    BY <1>1 DEF SessInv, LinkInv, DepthInv, DirectInv, CleanRollback, Hand, client
<1>6. CleanInv'
    BY <1>1 DEF CleanInv, CleanRollback, Hand, client
<1>7. PhaseInv'
    BY <1>1
       DEF TypeOK, PhaseInv, GuardInv, Phase, CleanRollback, Hand, client, Stmts,
           Steps, Handshake, Locked, HandStates
<1> QED
    BY <1>2, <1>3, <1>4, <1>5, <1>6, <1>7 DEF DaemonInv

\* cleanup_session releases a lock the client left; only then is the mutex free.
LEMMA CleanUnlockKeeps ==
    ASSUME DaemonInv, NEW c \in Client, CleanUnlock(c)
    PROVE  DaemonInv'
<1>1. TypeOK /\ GuardInv /\ ReqInv /\ SessInv /\ CleanInv /\ PhaseInv
    BY DEF DaemonInv
<1>2. TypeOK'
    BY <1>1
       DEF TypeOK, GuardInv, SessInv, LinkInv, DepthInv, DirectInv, CleanUnlock,
           DropLock, Hand, daemon, server, client, Stmts, Steps, Handshake,
           Locked, HandStates
<1>3. GuardInv'
    BY <1>1
       DEF TypeOK, GuardInv, CleanUnlock, DropLock, Hand, client, Stmts, Steps,
           Handshake, Locked, HandStates
<1>4. ReqInv'
    BY <1>1
       DEF TypeOK, ReqInv, Phase, GuardInv, CleanUnlock, DropLock, Hand, client,
           Stmts, Steps, Handshake, Locked, HandStates
<1>5. SessInv'
    BY <1>1
       DEF TypeOK, SessInv, LinkInv, DepthInv, DirectInv, CleanUnlock, DropLock,
           Hand, client, Stmts, Steps, Handshake, Locked, HandStates
<1>6. CleanInv'
    BY <1>1
       DEF TypeOK, CleanInv, GuardInv, SessInv, LinkInv, DepthInv, DirectInv,
           PhaseInv, Phase, CleanUnlock, DropLock, Hand, daemon, server,
           client, Stmts, Steps, Handshake, Locked, HandStates
<1>7. PhaseInv'
    BY <1>1 DEF PhaseInv, Phase, CleanUnlock, DropLock, Hand, client, Handshake, Locked
<1> QED
    BY <1>2, <1>3, <1>4, <1>5, <1>6, <1>7 DEF DaemonInv

\* serve discards the session when the cleanup fails.
LEMMA CleanFailsKeeps ==
    ASSUME DaemonInv, NEW c \in Client, CleanFails(c)
    PROVE  DaemonInv'
<1>1. TypeOK /\ GuardInv /\ ReqInv /\ SessInv /\ CleanInv /\ PhaseInv
    BY DEF DaemonInv
<1>2. TypeOK'
    BY <1>1
       DEF TypeOK, CleanFails, Cut, Hand, client, Stmts, Steps, Handshake, Locked,
           HandStates
<1>3. GuardInv'
    BY <1>1
       DEF TypeOK, GuardInv, CleanFails, Cut, Hand, client, Stmts, Steps, Handshake,
           Locked, HandStates
<1>4. ReqInv'
    BY <1>1
       DEF TypeOK, ReqInv, Phase, GuardInv, CleanFails, Cut, Hand, client, Stmts,
           Steps, Handshake, Locked, HandStates
<1>5. SessInv'
    BY <1>1
       DEF TypeOK, SessInv, LinkInv, DepthInv, DirectInv, CleanFails, Cut, Hand,
           client, Stmts, Steps, Handshake, Locked, HandStates
<1>6. CleanInv'
    BY <1>1 DEF CleanInv, CleanFails, Cut, Hand, client
<1>7. PhaseInv'
    BY <1>1 DEF PhaseInv, Phase, CleanFails, Cut, Hand, client, Handshake, Locked
<1> QED
    BY <1>2, <1>3, <1>4, <1>5, <1>6, <1>7 DEF DaemonInv

\* run_daemon starts with a fresh session.
LEMMA DaemonStartKeeps ==
    ASSUME DaemonInv, DaemonStart
    PROVE  DaemonInv'
<1>1. TypeOK /\ GuardInv /\ ReqInv /\ SessInv /\ CleanInv /\ PhaseInv
    BY DEF DaemonInv
<1>2. TypeOK'
    BY <1>1
       DEF TypeOK, DaemonStart, OpenSession, client, Stmts, Steps, Handshake,
           Locked, HandStates
<1>3. GuardInv'
    BY <1>1
       DEF TypeOK, GuardInv, DaemonStart, OpenSession, client, Stmts, Steps,
           Handshake, Locked, HandStates
<1>4. ReqInv'
    BY <1>1
       DEF ReqInv, Phase, DaemonStart, OpenSession, client, Stmts, Handshake, Locked
<1>5. SessInv'
    BY <1>1
       DEF TypeOK, SessInv, LinkInv, DepthInv, DirectInv, GuardInv, DaemonStart,
           OpenSession, client, Stmts, Steps, Handshake, Locked, HandStates
<1>6. CleanInv'
    BY <1>1
       DEF TypeOK, CleanInv, GuardInv, SessInv, LinkInv, DepthInv, DirectInv,
           PhaseInv, Phase, DaemonStart, OpenSession, daemon, server, client,
           Stmts, Steps, Handshake, Locked, HandStates
<1>7. PhaseInv'
    BY <1>1
       DEF TypeOK, PhaseInv, GuardInv, Phase, DaemonStart, OpenSession, client,
           Stmts, Steps, Handshake, Locked, HandStates
<1> QED
    BY <1>2, <1>3, <1>4, <1>5, <1>6, <1>7 DEF DaemonInv

\* rmigd stops: handlers and warm session are gone, the server may not know yet.
LEMMA DaemonStopKeeps ==
    ASSUME DaemonInv, DaemonStop
    PROVE  DaemonInv'
<1>1. TypeOK /\ GuardInv /\ ReqInv /\ SessInv /\ CleanInv /\ PhaseInv
    BY DEF DaemonInv
<1>2. TypeOK'
    BY <1>1
       DEF TypeOK, DaemonStop, Cut, daemon, client, Stmts, Steps, Handshake, Locked,
           HandStates
<1>3. GuardInv'
    BY <1>1 DEF GuardInv, DaemonStop, Cut, daemon, client
<1>4. ReqInv'
    BY <1>1 DEF ReqInv, Phase, DaemonStop, Cut, daemon, client, Stmts, Handshake, Locked
<1>5. SessInv'
    BY <1>1
       DEF TypeOK, SessInv, LinkInv, DepthInv, DirectInv, DaemonStop, Cut, daemon,
           client, Stmts, Steps, Handshake, Locked, HandStates
<1>6. CleanInv'
    BY <1>1 DEF CleanInv, DaemonStop, Cut, daemon, client
<1>7. PhaseInv'
    BY <1>1 DEF PhaseInv, Phase, DaemonStop, Cut, daemon, client, Handshake, Locked
<1> QED
    BY <1>2, <1>3, <1>4, <1>5, <1>6, <1>7 DEF DaemonInv

\* The connection of the warm session breaks or hangs.
LEMMA SessionFailsKeeps ==
    ASSUME DaemonInv, SessionFails
    PROVE  DaemonInv'
<1>1. TypeOK /\ GuardInv /\ ReqInv /\ SessInv /\ CleanInv /\ PhaseInv
    BY DEF DaemonInv
<1>2. TypeOK'
    BY <1>1
       DEF TypeOK, SessionFails, Cut, daemon, client, Stmts, Steps, Handshake,
           Locked, HandStates
<1>3. GuardInv'
    BY <1>1 DEF GuardInv, SessionFails, Cut, daemon, client
<1>4. ReqInv'
    BY <1>1
       DEF ReqInv, Phase, SessionFails, Cut, daemon, client, Stmts, Handshake,
           Locked
<1>5. SessInv'
    BY <1>1
       DEF TypeOK, SessInv, LinkInv, DepthInv, DirectInv, SessionFails, Cut, daemon,
           client, Stmts, Steps, Handshake, Locked, HandStates
<1>6. CleanInv'
    BY <1>1
       DEF TypeOK, CleanInv, SessionFails, Cut, daemon, client, Stmts, Steps,
           Handshake, Locked, HandStates
<1>7. PhaseInv'
    BY <1>1 DEF PhaseInv, Phase, SessionFails, Cut, daemon, client, Handshake, Locked
<1> QED
    BY <1>2, <1>3, <1>4, <1>5, <1>6, <1>7 DEF DaemonInv

\* The server grants the lock to a session nobody reads from any more.
LEMMA LateGrantKeeps ==
    ASSUME DaemonInv, NEW s \in Sess, LateGrant(s)
    PROVE  DaemonInv'
<1>1. TypeOK /\ GuardInv /\ ReqInv /\ SessInv /\ CleanInv /\ PhaseInv
    BY DEF DaemonInv
<1>2. TypeOK'
    BY <1>1
       DEF TypeOK, LateGrant, TakeLock, daemon, client, Stmts, Steps, Handshake,
           Locked, HandStates
<1>3. GuardInv'
    BY <1>1 DEF GuardInv, LateGrant, TakeLock, daemon, client
<1>4. ReqInv'
    BY <1>1
       DEF ReqInv, Phase, LateGrant, TakeLock, daemon, client, Stmts, Handshake,
           Locked
<1>5. SessInv'
    BY <1>1
       DEF TypeOK, SessInv, LinkInv, DepthInv, DirectInv, LateGrant, TakeLock,
           daemon, client, Stmts, Steps, Handshake, Locked, HandStates
<1>6. CleanInv'
    BY <1>1 DEF CleanInv, LateGrant, TakeLock, daemon, client
<1>7. PhaseInv'
    BY <1>1
       DEF TypeOK, PhaseInv, GuardInv, SessInv, LinkInv, DepthInv, DirectInv,
           ReqInv, CleanInv, Phase, LateGrant, TakeLock, daemon, server,
           client, Stmts, Steps, Handshake, Locked, HandStates
<1> QED
    BY <1>2, <1>3, <1>4, <1>5, <1>6, <1>7 DEF DaemonInv

\* The server ends a session whose client is gone and frees what it held.
LEMMA ServerEndsKeeps ==
    ASSUME DaemonInv, NEW s \in Sess, ServerEnds(s)
    PROVE  DaemonInv'
<1>1. TypeOK /\ GuardInv /\ ReqInv /\ SessInv /\ CleanInv /\ PhaseInv
    BY DEF DaemonInv
<1>2. TypeOK'
    BY <1>1
       DEF TypeOK, ServerEnds, daemon, client, Stmts, Steps, Handshake, Locked,
           HandStates
<1>3. GuardInv'
    BY <1>1 DEF GuardInv, ServerEnds, daemon, client
<1>4. ReqInv'
    BY <1>1 DEF ReqInv, Phase, ServerEnds, daemon, client, Stmts, Handshake, Locked
<1>5. SessInv'
    BY <1>1
       DEF TypeOK, SessInv, LinkInv, DepthInv, DirectInv, ServerEnds, daemon,
           client, Stmts, Steps, Handshake, Locked, HandStates
<1>6. CleanInv'
    BY <1>1 DEF CleanInv, ServerEnds, daemon, client
<1>7. PhaseInv'
    BY <1>1 DEF PhaseInv, Phase, ServerEnds, daemon, client, Handshake, Locked
<1> QED
    BY <1>2, <1>3, <1>4, <1>5, <1>6, <1>7 DEF DaemonInv

\* The daemon has not started and no client has connected: the invariant holds.
LEMMA InitInv == Init => DaemonInv
<1> SUFFICES ASSUME Init PROVE DaemonInv
    OBVIOUS
<1>1. TypeOK
    <2>1. /\ up \in BOOLEAN /\ warm \in Sess \cup {None} /\ guard \in Client \cup {None}
          /\ hand \in [Client -> HandStates] /\ link \in [Sess -> {"closed", "live", "hung", "cut"}]
          /\ tx \in [Sess -> BOOLEAN] /\ ctx \in [Sess -> Dbs] /\ waiting \in [Sess -> BOOLEAN]
        BY DEF Init, HandStates
    <2>2. /\ owner \in [Dbs -> Sess \cup Client \cup {None}] /\ depth \in [Dbs -> 0 .. 2]
          /\ step \in [Client -> Steps] /\ open \in [Client -> BOOLEAN]
        BY DEF Init, Steps
    <2>3. req \in [Client -> Stmts \cup {"none"}] /\ left \in [Client -> 0 .. MaxUnits]
        BY DEF Init
    <2> QED
        BY <2>1, <2>2, <2>3 DEF TypeOK
<1>2. GuardInv /\ ReqInv
    BY DEF Init, GuardInv, ReqInv, Phase
<1>3. SessInv /\ CleanInv /\ PhaseInv
    BY DEF Init, SessInv, LinkInv, DepthInv, DirectInv, CleanInv, PhaseInv
<1> QED
    BY <1>1, <1>2, <1>3 DEF DaemonInv

\* Every step of clients, handlers, daemon and server preserves the invariant; the
\* lemmas above take one action each.
LEMMA StepInv == DaemonInv /\ [Next]_vars => DaemonInv'
<1> SUFFICES ASSUME DaemonInv, [Next]_vars PROVE DaemonInv'
    OBVIOUS
<1>1. CASE UNCHANGED vars
    BY <1>1
       DEF DaemonInv, TypeOK, GuardInv, ReqInv, SessInv, LinkInv, DepthInv,
           DirectInv, CleanInv, PhaseInv, Phase, vars, daemon, server, client
<1>2. ASSUME NEW c \in Client,
             \/ Connect(c) \/ ConnectFails(c) \/ Runs(c) \/ GiveUp(c) \/ Die(c) \/ Again(c)
      PROVE  DaemonInv'
    BY <1>2, ConnectKeeps, ConnectFailsKeeps, SendKeeps, EofKeeps, DirectLockKeeps,
       DirectEndsKeeps, GiveUpKeeps, DieKeeps, AgainKeeps
       DEF Runs
<1>3. ASSUME NEW c \in Client, Accept(c) \/ TakeGuard(c) \/ Serves(c)
      PROVE  DaemonInv'
    BY <1>3, AcceptKeeps, TakeGuardKeeps, IdleKeeps, RefusalKeeps, RequestKeeps,
       ReconnectKeeps, ReconnectFailsKeeps, HandleKeeps, HandleBrokenKeeps,
       TimeoutKeeps, CleanRollbackKeeps, CleanUnlockKeeps, CleanFailsKeeps
       DEF Serves
<1>4. CASE DaemonStart \/ DaemonStop \/ SessionFails
    BY <1>4, DaemonStartKeeps, DaemonStopKeeps, SessionFailsKeeps
<1>5. ASSUME NEW s \in Sess, LateGrant(s) \/ ServerEnds(s)
      PROVE  DaemonInv'
    BY <1>5, LateGrantKeeps, ServerEndsKeeps
<1> QED
    BY <1>1, <1>2, <1>3, <1>4, <1>5 DEF Next

\* DaemonInv holds in every reachable state, for any number of clients, sessions,
\* databases and handler slots, with every fault (serve.rs, serve_loop.rs).
THEOREM Invariance == Spec => []DaemonInv
BY InitInv, StepInv, PTL DEF Spec

\* Type correctness of the daemon, its handlers, the sessions and the clients
\* (run_daemon, serve, ProxyClient).
THEOREM DaemonTypeCorrect == Spec => []TypeOK
<1>1. DaemonInv => TypeOK
    BY DEF DaemonInv
<1> QED
    BY <1>1, Invariance, PTL

\* A client that was granted the lock has its later statements executed by the
\* session that holds it and, inside a unit of work, in the open transaction:
\* acquire_session and dispatch never give it another session in the middle.
THEOREM OneSessionSafe == Spec => []OneSession
<1>1. DaemonInv => OneSession
    BY DEF DaemonInv, TypeOK, GuardInv, ReqInv, PhaseInv, Phase, OneSession, Locked
<1> QED
    BY <1>1, Invariance, PTL

\* When no script body changes the current database, a warm session that no handler
\* owns has neither a transaction nor a lock: what serve and cleanup_session leave
\* to the next client.
THEOREM CleanHandoverSafe == ~Switches => (Spec => []CleanHandover)
<1> SUFFICES ASSUME ~Switches PROVE Spec => []CleanHandover
    OBVIOUS
<1>1. DaemonInv => CleanHandover
    BY DEF DaemonInv, CleanInv, CleanHandover
<1> QED
    BY <1>1, Invariance, PTL

=============================================================================
