---------------------------- MODULE SessionDaemon ----------------------------
(***************************************************************************)
(* rmigd: rmig clients that share one warm SQL session through a daemon.   *)
(* A handler takes the session with its client's first request and keeps   *)
(* it, behind a mutex, until the client is gone; then it rolls back and    *)
(* releases the advisory lock before the next handler may have the session.*)
(* A client that cannot use the daemon connects directly.                  *)
(***************************************************************************)
EXTENDS Naturals, FiniteSets

CONSTANTS
    Client,      \* rmig processes, each with at most one socket at a time
    Foreign,     \* clients with another endpoint or token than the daemon's
    Sess,        \* SQL Server sessions the daemon may open (ids are reused)
    Dbs,         \* databases of the server
    Home,        \* database of the daemon's configuration
    Db,          \* database a client deploys
    None,        \* "no session", "no handler", "nobody"
    Slots,       \* MAX_DAEMON_CLIENTS
    Switches,    \* script bodies may contain USE
    Faults,      \* which faults happen: "stmt", "conn", "hang", "crash", "daemon"
    MaxUnits     \* bound: scripts of a run

ASSUME ClientAssumption == /\ None \notin Client \cup Sess
                           /\ Client \cap Sess = {}
                           /\ Foreign \subseteq Client
ASSUME DbAssumption == Home \in Dbs /\ Db \in [Client -> Dbs]
ASSUME SlotAssumption == Slots \in Nat \ {0} /\ MaxUnits \in Nat \ {0}
ASSUME FaultAssumption == /\ Switches \in BOOLEAN
                          /\ Faults \subseteq {"stmt", "conn", "hang", "crash", "daemon"}

VARIABLES
    up,          \* the daemon listens
    warm,        \* the shared Option<RawClient>: a session, or None
    guard,       \* handler that owns the mutex, or None
    hand,        \* what the handler of a client's socket does
    link,        \* server session: "closed", "live", "hung" or "cut"
    tx,          \* server session: a transaction is open
    ctx,         \* server session: current database
    waiting,     \* server session: a cut session still waits for the lock
    owner,       \* applock of each database: session or direct client, or None
    depth,       \* how often the owner has taken it
    step,        \* client: the statement it sends next, or has sent
    open,        \* client: its socket is open
    req,         \* socket: the request written and not answered yet, or "none"
    left         \* client: scripts it has left

daemon == <<up, warm, guard, hand>>
server == <<link, tx, ctx, waiting, owner, depth>>
client == <<step, open, req, left>>
vars   == <<daemon, server, client>>

-----------------------------------------------------------------------------
\* The statements of a run, in their order.
Handshake == {"ping", "use"}
Locked    == {"begin", "body", "commit", "rollback", "release"}
Stmts     == Handshake \cup {"getlock"} \cup Locked
Steps     == Stmts \cup {"start", "direct", "holding", "closed"}
HandStates == {"none", "backlog", "read", "wait", "connect", "run", "rollback", "unlock"}
Served     == HandStates \ {"none", "backlog"}

TypeOK ==
    /\ up \in BOOLEAN /\ warm \in Sess \cup {None} /\ guard \in Client \cup {None}
    /\ hand \in [Client -> HandStates]
    /\ link \in [Sess -> {"closed", "live", "hung", "cut"}]
    /\ tx \in [Sess -> BOOLEAN] /\ ctx \in [Sess -> Dbs] /\ waiting \in [Sess -> BOOLEAN]
    /\ owner \in [Dbs -> Sess \cup Client \cup {None}] /\ depth \in [Dbs -> 0 .. 2]
    /\ step \in [Client -> Steps] /\ open \in [Client -> BOOLEAN]
    /\ req \in [Client -> Stmts \cup {"none"}] /\ left \in [Client -> 0 .. MaxUnits]

Init ==
    /\ up = FALSE /\ warm = None /\ guard = None /\ hand = [c \in Client |-> "none"]
    /\ link = [s \in Sess |-> "closed"] /\ tx = [s \in Sess |-> FALSE]
    /\ ctx = [s \in Sess |-> Home] /\ waiting = [s \in Sess |-> FALSE]
    /\ owner = [d \in Dbs |-> None] /\ depth = [d \in Dbs |-> 0]
    /\ step = [c \in Client |-> "start"] /\ open = [c \in Client |-> FALSE]
    /\ req = [c \in Client |-> "none"] /\ left = [c \in Client |-> MaxUnits]

-----------------------------------------------------------------------------
(* What the server does for a session. *)

\* connect: a session that is fresh on the server, in the daemon's database.
OpenSession(s) ==
    /\ link[s] = "closed" /\ warm' = s
    /\ link' = [link EXCEPT ![s] = "live"] /\ ctx' = [ctx EXCEPT ![s] = Home]
    /\ UNCHANGED <<tx, waiting, owner, depth>>

\* The link of the warm session is closed or breaks; the server has not noticed.
Cut(s, stmt) ==
    /\ link' = [link EXCEPT ![s] = "cut"]
    /\ waiting' = [waiting EXCEPT ![s] = @ \/ stmt = "getlock"]

TakeLock(s, d) ==
    /\ owner[d] \in {None, s}
    /\ owner' = [owner EXCEPT ![d] = s]
    /\ depth' = [depth EXCEPT ![d] = IF @ = 2 THEN 2 ELSE @ + 1]

\* sp_releaseapplock in the current database.
DropLock(d) ==
    /\ depth' = [depth EXCEPT ![d] = @ - 1]
    /\ owner' = IF depth[d] = 1 THEN [owner EXCEPT ![d] = None] ELSE owner

\* The request of client c succeeds on session s.
Succeeds(s, c) ==
    LET q == req[c] IN
    /\ tx' = [tx EXCEPT ![s] = IF q = "begin" THEN TRUE
                               ELSE IF q \in {"commit", "rollback"} THEN FALSE ELSE @]
    /\ CASE q = "use"  -> ctx' = [ctx EXCEPT ![s] = Db[c]]
         [] q = "body" -> \E d \in (IF Switches THEN Dbs ELSE {ctx[s]}) :
                              ctx' = [ctx EXCEPT ![s] = d]
         [] OTHER      -> UNCHANGED ctx
    /\ CASE q = "getlock" -> TakeLock(s, ctx[s])
         [] q = "release" -> owner[ctx[s]] = s /\ DropLock(ctx[s])
         [] OTHER         -> UNCHANGED <<owner, depth>>
    /\ UNCHANGED <<link, waiting>>

\* The server refuses it: the lock is taken, or not held here, or the statement
\* is wrong.  XACT_ABORT ends the transaction of a refused body or commit.
Refuses(s, c) ==
    /\ \/ req[c] = "getlock" /\ owner[ctx[s]] \notin {None, s}
       \/ req[c] = "release" /\ owner[ctx[s]] # s
       \/ "stmt" \in Faults
    /\ tx' = [tx EXCEPT ![s] = IF req[c] \in {"body", "commit"} THEN FALSE ELSE @]
    /\ UNCHANGED <<link, ctx, waiting, owner, depth>>

-----------------------------------------------------------------------------
(* What the answer to a statement does to the client. *)

\* Commands that only plan never ask for the lock; the executor goes on to its
\* next script or ends.
AfterOk(c) ==
    CASE step[c] = "ping"     -> {"use"}
      [] step[c] = "use"      -> {"getlock", "closed"}
      [] step[c] = "begin"    -> {"body"}
      [] step[c] = "body"     -> {"commit"}
      [] step[c] \in {"getlock", "commit", "rollback"} ->
             IF left[c] = 0 THEN {"release"} ELSE {"begin", "release"}
      [] step[c] = "release"  -> {"closed"}

\* connect_session_or_direct falls back; apply_in_tx rolls back; a failed
\* rollback ends the run; a failed release is only logged.
AfterError(c) ==
    CASE step[c] \in Handshake -> "direct"
      [] step[c] = "getlock"   -> "closed"
      [] step[c] \in {"begin", "body", "commit"} -> "rollback"
      [] step[c] = "rollback"  -> "release"
      [] step[c] = "release"   -> "closed"

\* The client's next state is q; leaving for a direct connection, and ending the
\* run, drop the socket.
Advance(c, q) ==
    /\ step' = [step EXCEPT ![c] = q]
    /\ open' = [open EXCEPT ![c] = IF q \in {"direct", "closed"} THEN FALSE ELSE @]
    /\ left' = [left EXCEPT ![c] = IF q = "begin" THEN @ - 1 ELSE @]

\* An answer is written, to a client that may have gone.
Answered(c)    == req' = [req EXCEPT ![c] = "none"]
AnswerOk(c)    == /\ Answered(c)
                  /\ IF open[c] THEN \E q \in AfterOk(c) : Advance(c, q)
                     ELSE UNCHANGED <<step, open, left>>
AnswerError(c) == /\ Answered(c)
                  /\ IF open[c] THEN Advance(c, AfterError(c))
                     ELSE UNCHANGED <<step, open, left>>

-----------------------------------------------------------------------------
(* Clients. *)

\* ProxyClient::connect opens the socket; auth and ping come first.
Connect(c) ==
    /\ step[c] = "start" /\ up
    /\ step' = [step EXCEPT ![c] = "ping"] /\ open' = [open EXCEPT ![c] = TRUE]
    /\ hand' = [hand EXCEPT ![c] = "backlog"]
    /\ UNCHANGED <<up, warm, guard, server, req, left>>

\* There is nobody at the socket.
ConnectFails(c) ==
    /\ step[c] = "start" /\ ~up /\ step' = [step EXCEPT ![c] = "direct"]
    /\ UNCHANGED <<daemon, server, open, req, left>>

\* ProxyClient::call writes one request and waits for its answer.
Send(c) ==
    /\ open[c] /\ req[c] = "none" /\ req' = [req EXCEPT ![c] = step[c]]
    /\ UNCHANGED <<daemon, server, step, open, left>>

\* The handler has gone: end of file instead of an answer.
Eof(c) ==
    /\ open[c] /\ req[c] # "none" /\ hand[c] = "none" /\ AnswerError(c)
    /\ UNCHANGED <<daemon, server>>

\* The client's own timeout: the handshake falls back, TimingConn drops the
\* proxy and every later statement of the run fails without being sent.
GiveUp(c) ==
    /\ open[c] /\ req[c] # "none"
    /\ Advance(c, IF step[c] \in Handshake THEN "direct" ELSE "closed")
    /\ UNCHANGED <<daemon, server, req>>

\* The process is killed or interrupted; a direct session ends with it.
Die(c) ==
    /\ "crash" \in Faults /\ step[c] \notin {"start", "closed"} /\ Advance(c, "closed")
    /\ owner' = [d \in Dbs |-> IF owner[d] = c THEN None ELSE owner[d]]
    /\ depth' = [d \in Dbs |-> IF owner[d] = c THEN 0 ELSE depth[d]]
    /\ UNCHANGED <<daemon, link, tx, ctx, waiting, req>>

\* A run on a connection of its own: take the lock of its database, or give up.
DirectLock(c) ==
    /\ step[c] = "direct"
    /\ \/ /\ owner[Db[c]] = None /\ step' = [step EXCEPT ![c] = "holding"]
          /\ owner' = [owner EXCEPT ![Db[c]] = c] /\ depth' = [depth EXCEPT ![Db[c]] = 1]
       \/ step' = [step EXCEPT ![c] = "closed"] /\ UNCHANGED <<owner, depth>>
    /\ UNCHANGED <<daemon, link, tx, ctx, waiting, open, req, left>>

DirectEnds(c) ==
    /\ step[c] = "holding" /\ step' = [step EXCEPT ![c] = "closed"]
    /\ owner' = [owner EXCEPT ![Db[c]] = None] /\ depth' = [depth EXCEPT ![Db[c]] = 0]
    /\ UNCHANGED <<daemon, link, tx, ctx, waiting, open, req, left>>

\* The next rmig invocation, with a socket of its own.
Again(c) ==
    /\ step[c] = "closed" /\ hand[c] = "none"
    /\ step' = [step EXCEPT ![c] = "start"] /\ left' = [left EXCEPT ![c] = MaxUnits]
    /\ Answered(c) /\ UNCHANGED <<daemon, server, open>>

-----------------------------------------------------------------------------
(* Handlers. *)

Hand(c, h) == hand' = [hand EXCEPT ![c] = h]

\* run_daemon: the accepted socket waits for one of the handler slots.
Accept(c) ==
    /\ up /\ hand[c] = "backlog" /\ Cardinality({d \in Client : hand[d] \in Served}) < Slots
    /\ Hand(c, "read") /\ UNCHANGED <<up, warm, guard, server, client>>

\* The serve loop ends: serve cleans up if the handler has the session.
Leave(c) == Hand(c, IF guard = c THEN "rollback" ELSE "none")

\* End of file, or 60 seconds without a request.
Idle(c) ==
    /\ hand[c] = "read" /\ req[c] = "none" /\ Leave(c)
    /\ UNCHANGED <<up, warm, guard, server, client>>

\* A request that fails auth or declares another endpoint.
Refusal(c) ==
    /\ hand[c] = "read" /\ req[c] = "ping" /\ c \in Foreign
    /\ AnswerError(c) /\ Leave(c) /\ UNCHANGED <<up, warm, guard, server>>

\* Any other request goes to the session; the first one waits for the mutex.
Request(c) ==
    /\ hand[c] = "read" /\ req[c] # "none" /\ ~(c \in Foreign /\ req[c] = "ping")
    /\ Hand(c, IF guard = c THEN "run" ELSE "wait")
    /\ UNCHANGED <<up, warm, guard, server, client>>

\* acquire_session: lock_owned.
TakeGuard(c) ==
    /\ hand[c] = "wait" /\ guard = None /\ guard' = c
    /\ Hand(c, IF warm = None THEN "connect" ELSE "run")
    /\ UNCHANGED <<up, warm, server, client>>

\* reconnect.
Reconnect(c) ==
    /\ hand[c] = "connect" /\ \E s \in Sess : OpenSession(s)
    /\ Hand(c, "run") /\ UNCHANGED <<up, guard, client>>

\* reconnect fails: an error is written, the mutex is released, nothing to clean.
ReconnectFails(c) ==
    /\ hand[c] = "connect" /\ guard' = None /\ Hand(c, "none") /\ AnswerError(c)
    /\ UNCHANGED <<up, warm, server>>

\* Back to the next request, unless the answer cannot be written.
AfterAnswer(c) == Hand(c, IF open[c] THEN "read" ELSE "rollback")

\* daemon_rpc::handle on the warm session.
Handle(c) ==
    /\ hand[c] = "run" /\ link[warm] = "live"
    /\ \/ Succeeds(warm, c) /\ AnswerOk(c)
       \/ Refuses(warm, c) /\ AnswerError(c)
    /\ AfterAnswer(c) /\ UNCHANGED <<up, warm, guard>>

\* The link is dead: an error answer; the session is kept for the moment.
HandleBroken(c) ==
    /\ hand[c] = "run" /\ link[warm] \in {"cut", "closed"} /\ AnswerError(c)
    /\ AfterAnswer(c) /\ UNCHANGED <<up, warm, guard, server>>

\* Mutant: the handler goes on after a timeout and reconnects with the next request.
TimeoutContinues(c) ==
    /\ hand[c] = "run" /\ link[warm] \in {"live", "hung"}
    /\ Cut(warm, req[c]) /\ warm' = None /\ AnswerError(c) /\ guard' = None
    /\ Hand(c, IF open[c] THEN "read" ELSE "none")
    /\ UNCHANGED <<up, tx, ctx, owner, depth>>

\* dispatch times out: the session is taken out of the mutex and closed, the
\* client gets an error and the handler ends with nothing to clean.
Timeout(c) ==
    /\ hand[c] = "run" /\ link[warm] \in {"live", "hung"}
    /\ Cut(warm, req[c]) /\ warm' = None /\ AnswerError(c)
    /\ guard' = None /\ Hand(c, "none") /\ UNCHANGED <<up, tx, ctx, owner, depth>>

\* cleanup_session, first statement: roll back if a transaction is open.
CleanRollback(c) ==
    /\ hand[c] = "rollback" /\ link[warm] = "live"
    /\ tx' = [tx EXCEPT ![warm] = FALSE] /\ Hand(c, "unlock")
    /\ UNCHANGED <<up, warm, guard, link, ctx, waiting, owner, depth, client>>

\* Mutant: the lock is left to the next client.
CleanUnlockSkipped(c) ==
    /\ hand[c] = "unlock" /\ link[warm] = "live" /\ guard' = None /\ Hand(c, "none")
    /\ UNCHANGED <<up, warm, server, client>>

\* Mutant: the release does not ask whether the lock is held.
CleanUnlockAlways(c) ==
    /\ hand[c] = "unlock" /\ link[warm] = "live" /\ guard' = None /\ Hand(c, "none")
    /\ DropLock(ctx[warm]) /\ UNCHANGED <<up, warm, link, tx, ctx, waiting, client>>

\* Second statement: release the lock if this session holds it in its current
\* database.  The session goes back to the mutex.
CleanUnlock(c) ==
    /\ hand[c] = "unlock" /\ link[warm] = "live" /\ guard' = None /\ Hand(c, "none")
    /\ IF owner[ctx[warm]] = warm THEN DropLock(ctx[warm]) ELSE UNCHANGED <<owner, depth>>
    /\ UNCHANGED <<up, warm, link, tx, ctx, waiting, client>>

\* Mutant: the cleanup of a dead session waits for an answer.
CleanFailsOnline(c) ==
    /\ hand[c] \in {"rollback", "unlock"} /\ link[warm] = "live" /\ "stmt" \in Faults
    /\ Cut(warm, "none") /\ warm' = None /\ guard' = None /\ Hand(c, "none")
    /\ UNCHANGED <<up, tx, ctx, owner, depth, client>>

\* Either statement fails: the session is discarded.
CleanFails(c) ==
    /\ hand[c] \in {"rollback", "unlock"}
    /\ \/ link[warm] \in {"cut", "closed"} /\ UNCHANGED <<link, waiting>>
       \/ link[warm] = "live" /\ "stmt" \in Faults /\ Cut(warm, "none")
    /\ warm' = None /\ guard' = None /\ Hand(c, "none")
    /\ UNCHANGED <<up, tx, ctx, owner, depth, client>>

-----------------------------------------------------------------------------
(* The daemon process and the server. *)

\* run_daemon connects before it binds the socket.
DaemonStart ==
    /\ ~up /\ up' = TRUE /\ \E s \in Sess : OpenSession(s)
    /\ UNCHANGED <<guard, hand, client>>

\* SIGTERM, or a crash: every handler goes, the listener and the session close.
DaemonStop ==
    /\ up /\ "daemon" \in Faults /\ up' = FALSE /\ warm' = None /\ guard' = None
    /\ hand' = [c \in Client |-> "none"]
    /\ IF warm # None /\ link[warm] \in {"live", "hung"}
       THEN Cut(warm, IF guard # None /\ hand[guard] = "run" THEN req[guard] ELSE "none")
       ELSE UNCHANGED <<link, waiting>>
    /\ UNCHANGED <<tx, ctx, owner, depth, client>>

\* The link of the warm session breaks, or the server stops answering on it.
SessionFails ==
    /\ warm # None /\ link[warm] = "live"
    /\ \/ "conn" \in Faults
             /\ Cut(warm, IF guard # None /\ hand[guard] = "run" THEN req[guard] ELSE "none")
       \/ "hang" \in Faults /\ link' = [link EXCEPT ![warm] = "hung"] /\ UNCHANGED waiting
    /\ UNCHANGED <<daemon, tx, ctx, owner, depth, client>>

\* The server grants a lock to a session whose client has gone.
LateGrant(s) ==
    /\ waiting[s] /\ TakeLock(s, ctx[s]) /\ waiting' = [waiting EXCEPT ![s] = FALSE]
    /\ UNCHANGED <<daemon, link, tx, ctx, client>>

\* The server ends a session that was cut, with its transaction and its locks.
ServerEnds(s) ==
    /\ link[s] = "cut" /\ link' = [link EXCEPT ![s] = "closed"]
    /\ tx' = [tx EXCEPT ![s] = FALSE] /\ waiting' = [waiting EXCEPT ![s] = FALSE]
    /\ owner' = [d \in Dbs |-> IF owner[d] = s THEN None ELSE owner[d]]
    /\ depth' = [d \in Dbs |-> IF owner[d] = s THEN 0 ELSE depth[d]]
    /\ UNCHANGED <<daemon, ctx, client>>

-----------------------------------------------------------------------------
Runs(c) == Send(c) \/ Eof(c) \/ DirectLock(c) \/ DirectEnds(c)

\* The handler's next step, whatever its outcome.
Serves(c) ==
    \/ Idle(c) \/ Refusal(c) \/ Request(c) \/ Reconnect(c) \/ ReconnectFails(c)
    \/ Handle(c) \/ HandleBroken(c) \/ Timeout(c)
    \/ CleanRollback(c) \/ CleanUnlock(c) \/ CleanFails(c)

Next ==
    \/ \E c \in Client : \/ Connect(c) \/ ConnectFails(c) \/ Runs(c) \/ GiveUp(c)
                         \/ Die(c) \/ Again(c)
                         \/ Accept(c) \/ TakeGuard(c) \/ Serves(c)
    \/ DaemonStart \/ DaemonStop \/ SessionFails
    \/ \E s \in Sess : LateGrant(s) \/ ServerEnds(s)

Spec == Init /\ [][Next]_vars

\* Clients go on with their runs and handlers with their clients; the slots and
\* the mutex are handed out in the order of the requests (tokio's are fair), so
\* nobody is passed over for ever; the server ends the sessions that were cut.
Fairness ==
    /\ \A c \in Client : /\ WF_vars(Runs(c)) /\ WF_vars(Serves(c))
                         /\ SF_vars(Accept(c)) /\ SF_vars(TakeGuard(c))
    /\ \A s \in Sess : WF_vars(ServerEnds(s))
FairSpec == Spec /\ Fairness

-----------------------------------------------------------------------------
(* Properties. *)

\* "Transactions and the applock cannot be interleaved by another client"
\* (ADR-0008): a warm session that no handler has is free of both.
CleanHandover ==
    warm # None /\ guard = None =>
        ~tx[warm] /\ \A d \in Dbs : owner[d] # warm

\* One session per run: while a client that was granted the lock has its next
\* statement executed, the session it runs on is the one that holds the lock,
\* and what follows BEGIN is inside the transaction.
OneSession ==
    \A c \in Client : hand[c] = "run" /\ link[warm] = "live" =>
        /\ req[c] \in Locked => owner[Db[c]] = warm
        /\ req[c] \in {"body", "commit"} => tx[warm]

\* A socket that was accepted is served to its end, so the slots never run out.
HandlerEnds == \A c \in Client : hand[c] # "none" ~> hand[c] = "none"

=============================================================================
