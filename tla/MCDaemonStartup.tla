--------------------------- MODULE MCDaemonStartup ---------------------------
(* DaemonStartup for TLC.                                                  *)
EXTENDS DaemonStartup

Words(socket, token, port, command) ==
    [server |-> "set", root |-> "set", socket |-> socket, report |-> "unset",
     secrets |-> "set", token |-> token, adopt |-> "unset", port |-> port,
     lock |-> Unset, command |-> command]
Toml(socket) == [server |-> "unset", root |-> "unset", socket |-> socket, report |-> "unset",
                 adopt |-> "unset", port |-> Unset, lock |-> Unset, command |-> Unset,
                 missing |-> FALSE, secret |-> FALSE, malformed |-> FALSE]

Setting(env, login, token) ==
    [env |-> env, file |-> Toml("set"), named |-> FALSE, login |-> login, token |-> token]

\* The clients have the socket of config.toml; one has an empty port and waits
\* without a limit.
Same  == Setting(Words("unset", "set", Unset, Unset), "s", "k")
Loose == Setting(Words("unset", "set", Blank, 0), "s", "k")

\* The configuration of a client, another port, no port, another token, an environment
\* that hides the socket of the file, and one without a token.
MCSettings ==
    {Same,
     Setting(Words("unset", "set", 1434, Unset), "s", "k"),
     Setting(Words("unset", "set", Blank, Unset), "s", "k"),
     Setting(Words("unset", "set", Unset, Unset), "s", "other"),
     Setting(Words("empty", "set", Unset, Unset), "s", "k"),
     Setting(Words("unset", "unset", Unset, Unset), "s", "k")}
MCProfile == [c \in Client |-> IF c = "a" THEN Same ELSE Loose]

=============================================================================
