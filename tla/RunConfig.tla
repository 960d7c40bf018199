------------------------------ MODULE RunConfig ------------------------------
(***************************************************************************)
(* The configuration of rmig and rmigd as pure operators (config/): the    *)
(* environment overrides config.toml, which overrides the defaults, and a  *)
(* configuration is validated before anything runs. A text is "unset",     *)
(* "empty" or "set"; a switch is a word; a number is itself. The switches  *)
(* of the code are all read like allow_adopt.                              *)
(***************************************************************************)
EXTENDS Integers

Unset == -1  \* the variable or the key is not there
Junk  == -2  \* it is there and is not a number
Blank == -3  \* it is there and is empty

Texts    == {"unset", "empty", "set"}
Switches == {"unset", "yes", "no", "junk"}

\* Defaults, in seconds.
DefaultCommandTimeout == 30
DefaultLockTimeout    == 60
DefaultPort           == 1433

\* Mutant of Get: the file wins.
GetFile(env, key) == IF key # "unset" THEN key ELSE env

\* build_config, get: an environment variable hides the key, even when empty.
Get(env, key) == IF env # "unset" THEN env ELSE key
GetNumber(env, key) == IF env # Unset THEN env ELSE key

\* set_timeout, parse_duration: what is not a duration leaves the default.
SetTimeout(raw, default) == IF raw >= 0 THEN raw ELSE default

\* build_config, apply_tls; parse_bool takes every other word for no. The secrets
\* have no key.
BuildConfig(e, f) ==
    [server  |-> Get(e.server, f.server) = "set",
     root    |-> Get(e.root, f.root) = "set",
     socket  |-> Get(e.socket, f.socket) = "set",
     report  |-> Get(e.report, f.report) = "set",
     secrets |-> e.secrets = "set",
     token   |-> e.token = "set",
     adopt   |-> Get(e.adopt, f.adopt) = "yes",
     port    |-> IF GetNumber(e.port, f.port) = Unset THEN DefaultPort
                 ELSE GetNumber(e.port, f.port),
     lock    |-> SetTimeout(GetNumber(e.lock, f.lock), DefaultLockTimeout),
     command |-> SetTimeout(GetNumber(e.command, f.command), DefaultCommandTimeout)]

\* load_toml_config, load_toml_config_required, reject_secrets: a file that was
\* named must be there, and no file may hold a secret.
LoadFails(f, required) == (f.missing /\ required) \/ f.secret \/ f.malformed

\* validate_config, validate_boolean_envs. An empty port is accepted.
ValidateConfig(e, c) ==
    /\ e.adopt # "junk"
    /\ c.secrets /\ (c.socket => c.token) /\ c.server /\ c.root
    /\ c.port = Blank \/ c.port \in 1 .. 65535

\* validate_daemon_config
ValidateDaemonConfig(e, c) == ValidateConfig(e, c) /\ c.token

=============================================================================
