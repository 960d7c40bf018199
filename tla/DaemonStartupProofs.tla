------------------------- MODULE DaemonStartupProofs -------------------------
(***************************************************************************)
(* Proofs about DaemonStartup for any sets of daemons, clients and         *)
(* configurations, and any number of starts.                               *)
(***************************************************************************)
EXTENDS DaemonStartup, TLAPS

Steps == {"off", "serving"} \cup Starting

ClientSteps == {"idle", "direct", "session", "ran", "failed"} \cup Handshake

PeerType == /\ pc \in [Daemon -> Steps] /\ conf \in [Daemon -> Settings \cup {None}]
            /\ file \in [Sockets -> Daemon \cup {None}]
            /\ step \in [Client -> ClientSteps] /\ peer \in [Client -> Daemon \cup {None}]
            /\ busy \in [Daemon -> Client \cup {None}]

\* A socket is connected to a daemon that listens: it was never started again since.
PeerAlive == \A c \in Client : peer[c] # None => pc[peer[c]] \in Listening

\* The inductive invariant of RightServer.
PeerInv == PeerType /\ PeerAlive /\ RightServer

\* The end of a process closes the sockets of its clients.
LEMMA ExitKeepsPeers ==
    ASSUME PeerInv, NEW d \in Daemon, Exit(d), file' \in [Sockets -> Daemon \cup {None}]
    PROVE  PeerInv'
<1>1. /\ \A c \in Client : peer'[c] = IF peer[c] = d THEN None ELSE peer[c]
      /\ \A e \in Daemon : e # d => pc'[e] = pc[e] /\ conf'[e] = conf[e] /\ busy'[e] = busy[e]
      /\ UNCHANGED step
    BY DEF PeerInv, PeerType, Exit, Go
<1>2. PeerType'
    BY DEF PeerInv, PeerType, Exit, Go, Steps
<1>3. \A c \in Client : peer'[c] # None => peer[c] \in Daemon /\ peer[c] # d /\ peer'[c] = peer[c]
    BY <1>1 DEF PeerInv, PeerType
<1>4. PeerAlive'
    BY <1>1, <1>3 DEF PeerInv, PeerAlive
<1>5. RightServer'
    BY <1>1, <1>3 DEF PeerInv, RightServer
<1> QED
    BY <1>2, <1>4, <1>5 DEF PeerInv

\* A step of a daemon that goes on leaves its clients, if it has any, their session.
LEMMA GoKeepsPeers ==
    ASSUME PeerInv, NEW d \in Daemon, NEW l \in Steps, Go(d, l),
           pc[d] \in Listening => l \in Listening,
           \A e \in Daemon : pc[e] \in Listening => conf'[e] = conf[e],
           conf' \in [Daemon -> Settings \cup {None}],
           file' \in [Sockets -> Daemon \cup {None}], UNCHANGED <<busy, clients>>
    PROVE  PeerInv'
<1>1. /\ \A e \in Daemon : pc'[e] = IF e = d THEN l ELSE pc[e]
      /\ pc' \in [Daemon -> Steps]
    BY DEF PeerInv, PeerType, Go
<1>2. PeerType'
    BY <1>1 DEF PeerInv, PeerType, clients
<1>3. \A c \in Client : peer[c] # None => peer[c] \in Daemon /\ pc[peer[c]] \in Listening
    BY DEF PeerInv, PeerType, PeerAlive
<1>4. PeerAlive'
    BY <1>1, <1>3 DEF PeerAlive, clients
<1>5. RightServer'
    BY <1>3 DEF PeerInv, RightServer, clients
<1> QED
    BY <1>2, <1>4, <1>5 DEF PeerInv

LEMMA DaemonKeepsPeers ==
    ASSUME PeerInv, NEW d \in Daemon, Serve(d)
    PROVE  PeerInv'
<1> USE DEF Listening, Starting, Steps
<1>0. PeerType
    BY DEF PeerInv
<1>1. CASE Begin(d)
    <2>1. UNCHANGED <<file, busy, clients>> /\ pc[d] = "off"
        BY <1>1 DEF Begin
    <2>2. CASE UNCHANGED <<pc, conf>>
        BY <2>1, <2>2 DEF PeerInv, PeerType, PeerAlive, RightServer, clients
    <2>3. CASE \E s \in Settings : Go(d, "dial") /\ conf' = [conf EXCEPT ![d] = s]
        <3>1. /\ conf' \in [Daemon -> Settings \cup {None}]
              /\ \A e \in Daemon : pc[e] \in Listening => conf'[e] = conf[e]
            BY <1>0, <2>1, <2>3 DEF PeerType
        <3>2. file' \in [Sockets -> Daemon \cup {None}]
            BY <1>0, <2>1 DEF PeerType
        <3> QED
            BY <2>1, <2>3, <3>1, <3>2, GoKeepsPeers
    <2> QED
        BY <1>1, <2>2, <2>3 DEF Begin
<1>2. CASE file' \in [Sockets -> Daemon \cup {None}] /\ Exit(d)
    BY <1>2, ExitKeepsPeers
<1>3. ASSUME NEW l \in Steps, Go(d, l), pc[d] = "chmod" => l = "serving", pc[d] # "serving",
             UNCHANGED <<conf, busy, clients>>, file' \in [Sockets -> Daemon \cup {None}]
      PROVE  PeerInv'
    BY <1>0, <1>3, GoKeepsPeers DEF PeerType
<1>4. UNCHANGED file => file' \in [Sockets -> Daemon \cup {None}]
    BY <1>0 DEF PeerType
<1>5. \A x \in Daemon \cup {None} :
         file' = [file EXCEPT ![Path(d)] = x] => file' \in [Sockets -> Daemon \cup {None}]
    BY <1>0 DEF PeerType
<1>6. CASE Dial(d)
    BY <1>6, <1>2, <1>3, <1>4 DEF Dial, sockets
<1>7. CASE LookUp(d)
    BY <1>7, <1>3, <1>4 DEF LookUp, sockets
<1>8. CASE Probe(d)
    BY <1>8, <1>2, <1>3, <1>4 DEF Probe, sockets
<1>9. CASE Unlink(d)
    BY <1>9, <1>2, <1>3, <1>4, <1>5 DEF Unlink
<1>10. CASE Bind(d)
    BY <1>10, <1>2, <1>3, <1>4, <1>5 DEF Bind, sockets
<1>11. CASE Chmod(d)
    BY <1>11, <1>2, <1>3, <1>4 DEF Chmod, sockets
<1>12. CASE Signal(d)
    BY <1>12, <1>2, <1>5 DEF Signal
<1>13. CASE Crash(d)
    BY <1>13, <1>2, <1>4 DEF Crash, sockets
<1> QED
    BY <1>1, <1>6, <1>7, <1>8, <1>9, <1>10, <1>11, <1>12, <1>13 DEF Serve

\* A client that leaves frees no session but its own.
LEMMA LeaveKeepsPeers ==
    ASSUME PeerInv, NEW c \in Client, NEW l \in {"idle", "direct"}, Leave(c, l),
           UNCHANGED <<file, pc, conf>>
    PROVE  PeerInv'
<1>1. /\ peer'[c] = None /\ \A e \in Client : e # c => peer'[e] = peer[e] /\ step'[e] = step[e]
      /\ \A d \in Daemon : busy'[d] = IF busy[d] = c THEN None ELSE busy[d]
    BY DEF PeerInv, PeerType, Leave
<1>2. PeerType'
    BY DEF PeerInv, PeerType, Leave, ClientSteps
<1>3. PeerAlive'
    BY <1>1 DEF PeerInv, PeerAlive
<1>4. RightServer'
    BY <1>1 DEF PeerInv, PeerType, RightServer
<1> QED
    BY <1>2, <1>3, <1>4 DEF PeerInv

\* A client whose step changes to one without a session.
LEMMA StepKeepsPeers ==
    ASSUME PeerInv, NEW c \in Client, NEW l \in ClientSteps \ {"use", "session"},
           step' = [step EXCEPT ![c] = l], UNCHANGED <<file, pc, conf, busy, peer>>
    PROVE  PeerInv'
<1>1. step'[c] = l /\ \A e \in Client : e # c => step'[e] = step[e]
    BY DEF PeerInv, PeerType
<1>2. PeerType' /\ PeerAlive'
    BY DEF PeerInv, PeerType, PeerAlive
<1>3. RightServer'
    BY <1>1 DEF PeerInv, RightServer
<1> QED
    BY <1>2, <1>3 DEF PeerInv

LEMMA ClientKeepsPeers ==
    ASSUME PeerInv, NEW c \in Client, Call(c) \/ Attempt(c) \/ Finish(c)
    PROVE  PeerInv'
<1> USE DEF ClientSteps, Handshake, sockets, daemons
<1>0. PeerType /\ PeerAlive /\ RightServer
    BY DEF PeerInv
<1>1. CASE Call(c)
    <2>1. CASE Config(c).socket /\ Answers("configured")
        <3>1. /\ UNCHANGED <<file, pc, conf, busy>> /\ file["configured"] \in Daemon
              /\ pc[file["configured"]] \in Listening
              /\ peer' = [peer EXCEPT ![c] = file["configured"]]
              /\ step' = [step EXCEPT ![c] = "auth"]
            BY <1>0, <1>1, <2>1 DEF Call, Answers, PeerType, Sockets
        <3>2. /\ peer'[c] = file["configured"] /\ step'[c] = "auth"
              /\ \A e \in Client : e # c => peer'[e] = peer[e] /\ step'[e] = step[e]
            BY <1>0, <3>1 DEF PeerType
        <3>3. PeerType'
            BY <1>0, <3>1 DEF PeerType
        <3>4. PeerAlive' /\ RightServer'
            BY <1>0, <3>1, <3>2 DEF PeerAlive, RightServer
        <3> QED
            BY <3>3, <3>4 DEF PeerInv
    <2>2. CASE ~(Config(c).socket /\ Answers("configured"))
        BY <1>1, <2>2, StepKeepsPeers DEF Call
    <2> QED
        BY <2>1, <2>2
<1>2. CASE Auth(c)
    <2>1. CASE conf[peer[c]].token = Profile[c].token
        BY <1>2, <2>1, StepKeepsPeers DEF Auth
    <2>2. CASE conf[peer[c]].token # Profile[c].token
        BY <1>2, <2>2, LeaveKeepsPeers DEF Auth
    <2> QED
        BY <2>1, <2>2
<1>3. CASE Ping(c)
    <2>1. CASE Leave(c, "direct")
        BY <1>3, <2>1, LeaveKeepsPeers DEF Ping
    <2>2. CASE ~Leave(c, "direct")
        <3>0. ~EndpointMismatch(peer[c], c)
            BY <1>3, <2>2 DEF Ping
        <3>6. /\ conf[peer[c]].login = Profile[c].login
              /\ Endpoint(conf[peer[c]]).port = Config(c).port \/ Config(c).port = Blank
            <4>1. conf[peer[c]].login = Profile[c].login
                BY <3>0 DEF EndpointMismatch, Declared, Endpoint
            <4>2. CASE Config(c).port # Blank
                BY <3>0, <4>2 DEF EndpointMismatch, Declared, Endpoint, Config
            <4> QED
                BY <4>1, <4>2
        <3>1. /\ peer[c] \in Daemon /\ busy[peer[c]] = None
              /\ busy' = [busy EXCEPT ![peer[c]] = c]
              /\ step' = [step EXCEPT ![c] = "use"] /\ UNCHANGED <<file, pc, conf, peer>>
            BY <1>0, <1>3, <2>2 DEF Ping, PeerType
        <3>2. /\ busy'[peer[c]] = c /\ \A d \in Daemon : d # peer[c] => busy'[d] = busy[d]
              /\ \A e \in Client : e # c => step'[e] = step[e]
            BY <1>0, <3>1 DEF PeerType
        <3>3. PeerType' /\ PeerAlive'
            BY <1>0, <3>1 DEF PeerType, PeerAlive
        <3>4. \A e \in Client : e # c /\ step[e] \in {"use", "session"} => peer[e] # peer[c]
            BY <1>0, <3>1, StartupAssumption DEF RightServer
        <3>5. RightServer'
            BY <1>0, <3>1, <3>2, <3>4, <3>6 DEF RightServer, PeerType
        <3> QED
            BY <3>3, <3>5 DEF PeerInv
    <2> QED
        BY <2>1, <2>2
<1>4. CASE Use(c)
    <2>1. CASE Leave(c, "direct")
        BY <1>4, <2>1, LeaveKeepsPeers DEF Use
    <2>2. CASE ~Leave(c, "direct")
        <3>1. /\ step[c] = "use" /\ step' = [step EXCEPT ![c] = "session"]
              /\ UNCHANGED <<file, pc, conf, peer, busy>>
            BY <1>4, <2>2 DEF Use
        <3>2. PeerType' /\ PeerAlive'
            BY <1>0, <3>1 DEF PeerType, PeerAlive
        <3>3. \A e \in Client : step'[e] \in {"use", "session"} => step[e] \in {"use", "session"}
            BY <1>0, <3>1 DEF PeerType
        <3>4. RightServer'
            BY <1>0, <3>1, <3>3 DEF RightServer
        <3> QED
            BY <3>2, <3>4 DEF PeerInv
    <2> QED
        BY <2>1, <2>2
<1>5. CASE Lost(c)
    <2>1. CASE step[c] = "session"
        BY <1>5, <2>1, StepKeepsPeers DEF Lost
    <2>2. CASE step[c] # "session"
        BY <1>5, <2>2, StepKeepsPeers DEF Lost
    <2> QED
        BY <2>1, <2>2
<1>6. CASE GiveUp(c)
    BY <1>6, LeaveKeepsPeers DEF GiveUp
<1>7. CASE Direct(c)
    BY <1>7, StepKeepsPeers DEF Direct
<1>8. CASE Finish(c)
    BY <1>8, LeaveKeepsPeers DEF Finish
<1> QED
    BY <1>1, <1>2, <1>3, <1>4, <1>5, <1>6, <1>7, <1>8 DEF Attempt

\* A client has a session only with a daemon of its own endpoint and never shares it,
\* however starts, crashes and stops of daemons overlap (refusal_for,
\* acquire_session).
THEOREM RightServerSafe == Spec => []RightServer
<1>1. Init => PeerInv
    BY StartupAssumption
    DEF Init, PeerInv, PeerType, PeerAlive, RightServer, Steps, ClientSteps
<1>2. PeerInv /\ [Next]_vars => PeerInv'
    <2> SUFFICES ASSUME PeerInv, [Next]_vars PROVE PeerInv'
        OBVIOUS
    <2>1. CASE Next
        BY <2>1, DaemonKeepsPeers, ClientKeepsPeers DEF Next
    <2>2. CASE UNCHANGED vars
        BY <2>2 DEF PeerInv, PeerType, PeerAlive, RightServer, vars, sockets, daemons, clients
    <2> QED
        BY <2>1, <2>2
<1>3. PeerInv => RightServer
    BY DEF PeerInv
<1> QED
    BY <1>1, <1>2, <1>3, PTL DEF Spec

=============================================================================
