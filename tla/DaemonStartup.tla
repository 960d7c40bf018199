---------------------------- MODULE DaemonStartup ----------------------------
(***************************************************************************)
(* The socket file of rmigd: daemons that start, refuse to start, crash    *)
(* and are stopped, and clients that look for a daemon there and connect   *)
(* directly when they cannot use it. SessionDaemon models what a daemon    *)
(* does with its warm session; here it is only free or taken.              *)
(***************************************************************************)
EXTENDS RunConfig

CONSTANTS
    Daemon,      \* rmigd processes, each started several times
    Client,      \* rmig processes
    None,        \* "no file", "no daemon", "no client"
    Settings,    \* configurations a daemon may be started with
    Profile,     \* configuration of each client
    Faults,      \* which faults happen: "sql", "crash"
    MaxStarts    \* bound: starts of a daemon

ASSUME StartupAssumption == /\ None \notin Daemon \cup Client
                            /\ None \notin Settings /\ MaxStarts \in Nat

\* RMIG_SESSION, and the path of resolve_socket_path.
Sockets == {"configured", "resolved"}

VARIABLES
    file,        \* socket file: the daemon that bound it, or None
    dir,         \* its parent directory: "absent", "private" or "shared"
    pc,          \* daemon: the step of its start, "serving" or "off"
    conf,        \* daemon: the configuration it runs with, or None
    starts,      \* daemon: how often it was started
    busy,        \* daemon: the client that has its warm session, or None
    step,        \* client: where its connection attempt stands
    peer         \* client: the daemon its socket is connected to, or None

sockets == <<file, dir>>
daemons == <<pc, conf, starts, busy>>
clients == <<step, peer>>
vars    == <<sockets, daemons, clients>>

Starting  == {"dial", "exists", "try", "unlink", "bind", "chmod"}
Listening == {"chmod", "serving"}
Handshake == {"auth", "ping", "use"}

Init ==
    /\ file = [p \in Sockets |-> None]
    /\ dir \in [Sockets -> {"absent", "private", "shared"}]
    /\ pc = [d \in Daemon |-> "off"] /\ conf = [d \in Daemon |-> None]
    /\ starts = [d \in Daemon |-> 0] /\ busy = [d \in Daemon |-> None]
    /\ step = [c \in Client |-> "idle"] /\ peer = [c \in Client |-> None]

-----------------------------------------------------------------------------
(* The daemon.                                                             *)

\* run_daemon prefers the configured path over the resolved one.
SocketOf(s) == IF BuildConfig(s.env, s.file).socket THEN "configured" ELSE "resolved"
Path(d)     == SocketOf(conf[d])

\* Endpoint: the server, the login and the two flags of TLS, and the port as it was
\* configured, which may be empty.
Endpoint(s) == [login |-> s.login, port |-> BuildConfig(s.env, s.file).port]

\* UnixStream::connect succeeds.
Answers(p) == file[p] # None /\ pc[file[p]] \in Listening /\ Path(file[p]) = p

\* ensure_private_parent: a missing directory is made, a shared one refused.
ParentOk(p) == dir[p] # "shared"
MakeParent(p) == dir' = [dir EXCEPT ![p] = IF @ = "absent" THEN "private" ELSE @]

Go(d, l) == pc' = [pc EXCEPT ![d] = l]

\* The process ends: its listener, its sockets and its warm session are closed.
Exit(d) ==
    /\ Go(d, "off") /\ conf' = [conf EXCEPT ![d] = None] /\ busy' = [busy EXCEPT ![d] = None]
    /\ peer' = [c \in Client |-> IF peer[c] = d THEN None ELSE peer[c]]
    /\ UNCHANGED <<starts, step>>

\* run: the configuration is loaded and validated, the socket path resolved.
Begin(d) ==
    /\ pc[d] = "off" /\ starts[d] < MaxStarts
    /\ starts' = [starts EXCEPT ![d] = @ + 1]
    /\ \E s \in Settings :
          IF /\ ~LoadFails(s.file, s.named)
             /\ ValidateDaemonConfig(s.env, BuildConfig(s.env, s.file))
             /\ ParentOk("resolved")
          THEN Go(d, "dial") /\ conf' = [conf EXCEPT ![d] = s] /\ MakeParent("resolved")
          ELSE UNCHANGED <<pc, conf, dir>>
    /\ UNCHANGED <<file, busy, clients>>

\* connect_once: "server:port" is no address without a port.
Dialable(s) == Endpoint(s).port # Blank

\* run_daemon: connect
Dial(d) ==
    /\ pc[d] = "dial"
    /\ \/ Dialable(conf[d]) /\ Go(d, "exists") /\ UNCHANGED <<conf, starts, busy, clients>>
       \/ ("sql" \in Faults \/ ~Dialable(conf[d])) /\ Exit(d)
    /\ UNCHANGED sockets

\* run_daemon: socket.exists
LookUp(d) ==
    /\ pc[d] = "exists"
    /\ Go(d, IF file[Path(d)] = None THEN "bind" ELSE "try")
    /\ UNCHANGED <<sockets, conf, starts, busy, clients>>

\* run_daemon: a daemon that answers on the socket ends the start.
Probe(d) ==
    /\ pc[d] = "try"
    /\ IF Answers(Path(d)) THEN Exit(d)
       ELSE Go(d, "unlink") /\ UNCHANGED <<conf, starts, busy, clients>>
    /\ UNCHANGED sockets

\* run_daemon: remove_file, which fails when the file is gone.
Unlink(d) ==
    /\ pc[d] = "unlink"
    /\ IF file[Path(d)] = None THEN Exit(d) /\ UNCHANGED file
       ELSE /\ file' = [file EXCEPT ![Path(d)] = None]
            /\ Go(d, "bind") /\ UNCHANGED <<conf, starts, busy, clients>>
    /\ UNCHANGED dir

\* run_daemon: ensure_private_parent, UnixListener::bind
Bind(d) ==
    /\ pc[d] = "bind"
    /\ IF ParentOk(Path(d)) /\ file[Path(d)] = None
       THEN /\ file' = [file EXCEPT ![Path(d)] = d] /\ MakeParent(Path(d))
            /\ Go(d, "chmod") /\ UNCHANGED <<conf, starts, busy, clients>>
       ELSE Exit(d) /\ UNCHANGED sockets

\* run_daemon: restrict_socket_mode; then the accept loop.
Chmod(d) ==
    /\ pc[d] = "chmod"
    /\ IF file[Path(d)] = None THEN Exit(d)
       ELSE Go(d, "serving") /\ UNCHANGED <<conf, starts, busy, clients>>
    /\ UNCHANGED sockets

\* run: a signal drops run_daemon wherever it is and removes the socket file, whoever
\* bound it.
Signal(d) ==
    /\ pc[d] \in Starting \cup Listening
    /\ file' = [file EXCEPT ![Path(d)] = None]
    /\ Exit(d) /\ UNCHANGED dir

\* The process is killed: the socket file stays.
Crash(d) == "crash" \in Faults /\ pc[d] # "off" /\ Exit(d) /\ UNCHANGED sockets

-----------------------------------------------------------------------------
(* The client: connect_session_or_direct.                                  *)

Config(c) == BuildConfig(Profile[c].env, Profile[c].file)

\* The client closes its socket and the daemon gets its session back.
Leave(c, l) ==
    /\ step' = [step EXCEPT ![c] = l] /\ peer' = [peer EXCEPT ![c] = None]
    /\ busy' = [d \in Daemon |-> IF busy[d] = c THEN None ELSE busy[d]]

\* connect_session_or_direct, ProxyClient::connect_inner: UnixStream::connect
Call(c) ==
    /\ step[c] = "idle"
    /\ IF Config(c).socket /\ Answers("configured")
       THEN /\ peer' = [peer EXCEPT ![c] = file["configured"]]
            /\ step' = [step EXCEPT ![c] = "auth"]
       ELSE step' = [step EXCEPT ![c] = "direct"] /\ UNCHANGED peer
    /\ UNCHANGED <<sockets, daemons>>

\* connect_inner: Auth. verify_token compares with the token of the daemon.
Auth(c) ==
    /\ step[c] = "auth" /\ peer[c] # None
    /\ IF conf[peer[c]].token = Profile[c].token
       THEN step' = [step EXCEPT ![c] = "ping"] /\ UNCHANGED <<peer, busy>>
       ELSE Leave(c, "direct")
    /\ UNCHANGED <<sockets, pc, conf, starts>>

\* Request::ping: what a client declares of its endpoint, an empty port excepted.
Declared(c) == {"login"} \cup (IF Config(c).port = Blank THEN {} ELSE {"port"})

\* Mutant of EndpointMismatch: the port is not compared.
EndpointMismatchLogin(d, c) == Endpoint(conf[d]).login # Endpoint(Profile[c]).login

\* endpoint_mismatch: a field the client left empty is not compared.
EndpointMismatch(d, c) ==
    \E f \in Declared(c) : Endpoint(conf[d])[f] # Endpoint(Profile[c])[f]

\* connect_inner: Ping. The handler compares the endpoints, then waits for the warm
\* session and reconnects it when it was discarded, which may fail.
Ping(c) ==
    /\ step[c] = "ping" /\ peer[c] # None
    /\ IF EndpointMismatch(peer[c], c) THEN Leave(c, "direct")
       ELSE /\ busy[peer[c]] = None
            /\ \/ /\ busy' = [busy EXCEPT ![peer[c]] = c]
                  /\ step' = [step EXCEPT ![c] = "use"] /\ UNCHANGED peer
               \/ "sql" \in Faults /\ Leave(c, "direct")
    /\ UNCHANGED <<sockets, pc, conf, starts>>

\* connect_daemon: USE in the database of the client.
Use(c) ==
    /\ step[c] = "use" /\ peer[c] # None
    /\ \/ step' = [step EXCEPT ![c] = "session"] /\ UNCHANGED <<peer, busy>>
       \/ "sql" \in Faults /\ Leave(c, "direct")
    /\ UNCHANGED <<sockets, pc, conf, starts>>

\* The daemon is gone: connect_direct_after_daemon_error, or the run fails.
Lost(c) ==
    /\ step[c] \in Handshake \cup {"session"} /\ peer[c] = None
    /\ step' = [step EXCEPT ![c] = IF step[c] = "session" THEN "failed" ELSE "direct"]
    /\ UNCHANGED <<sockets, daemons, peer>>

\* Mutant of GiveUp: the timeout ends with the authentication.
GiveUpAuthOnly(c) ==
    /\ step[c] = "auth" /\ Config(c).command > 0
    /\ Leave(c, "direct") /\ UNCHANGED <<sockets, pc, conf, starts>>

\* ProxyClient::connect, connect_daemon: the command timeout, unless it is zero,
\* bounds the handshake.
GiveUp(c) ==
    /\ step[c] \in Handshake /\ Config(c).command > 0
    /\ Leave(c, "direct") /\ UNCHANGED <<sockets, pc, conf, starts>>

\* connect
Direct(c) ==
    /\ step[c] = "direct"
    /\ \/ Dialable(Profile[c]) /\ step' = [step EXCEPT ![c] = "ran"]
       \/ ("sql" \in Faults \/ ~Dialable(Profile[c])) /\ step' = [step EXCEPT ![c] = "failed"]
    /\ UNCHANGED <<sockets, daemons, peer>>

\* The run ends, and another may begin.
Finish(c) ==
    /\ step[c] \in {"session", "ran", "failed"}
    /\ Leave(c, "idle") /\ UNCHANGED <<sockets, pc, conf, starts>>

-----------------------------------------------------------------------------
Serve(d) == \/ Begin(d) \/ Dial(d) \/ LookUp(d) \/ Probe(d) \/ Unlink(d) \/ Bind(d)
            \/ Chmod(d) \/ Signal(d) \/ Crash(d)

\* What a client does on its own once it has called.
Attempt(c) == Auth(c) \/ Ping(c) \/ Use(c) \/ Lost(c) \/ GiveUp(c) \/ Direct(c)

Next == \/ \E d \in Daemon : Serve(d)
        \/ \E c \in Client : Call(c) \/ Attempt(c) \/ Finish(c)

Spec == Init /\ [][Next]_vars

\* The timer of a client fires and its answers arrive; nothing makes the client that
\* has the session end its run, and nothing makes a daemon start.
FairSpec == Spec /\ \A c \in Client : WF_vars(Attempt(c))

-----------------------------------------------------------------------------
(* Properties.                                                             *)

\* A daemon that listens is the one its socket path leads to: no start and no refused
\* start takes the file of a live daemon away. session/daemon/mod.rs says of a start
\* that finds one: "refuse to start rather than silently removing its socket and
\* orphaning it (with its warm TDS session and any held advisory lock)"; main.rs says
\* of a signal that it "unlinks the socket the daemon actually bound".
Reachable == \A d \in Daemon : pc[d] \in Listening => file[Path(d)] = d

\* A client runs on the warm session of a daemon only when that daemon, whenever and
\* with whatever configuration it was started, logs in with the login of the client
\* and to its port, unless the client has an empty port and could not connect itself,
\* and no other client has the session meanwhile (connect_inner, refusal_for,
\* acquire_session, connect_once).
RightServer ==
    \A c \in Client : step[c] \in {"use", "session"} /\ peer[c] # None =>
        /\ conf[peer[c]].login = Profile[c].login
        /\ \/ Endpoint(conf[peer[c]]).port = Config(c).port
           \/ Config(c).port = Blank
        /\ busy[peer[c]] = c

\* A client with a command timeout that has called always ends up with a session, a
\* direct connection or an error, although the daemon may be wedged behind another
\* client, or die (ProxyClient::connect, connect_daemon).
ClientSettles ==
    \A c \in Client : Config(c).command > 0 =>
        (step[c] \in Handshake \cup {"direct"} ~> step[c] \in {"session", "ran", "failed"})

=============================================================================
