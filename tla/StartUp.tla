------------------------------ MODULE StartUp ------------------------------
(***************************************************************************)
(* How node processes on one machine start: .env and the environment       *)
(* (config.go), the private key that is a node's identity (identity.go),   *)
(* the options of the libp2p host and its static peers (nat.go), the DHT's *)
(* mode (dht.go), and the order of it all (run.go).  Processes may start   *)
(* at the same time, and by default share one key file; they are stopped   *)
(* and crash at any moment and start again.                                *)
(***************************************************************************)
EXTENDS Naturals, Sequences, FiniteSets, SequencesExt

CONSTANTS
  Process,    \* the node processes
  Config,     \* Config[p]: what may be set for p: [shell |-> .., lines |-> ..]
  PeersIn,    \* PeersIn[v]: the peers a list v names; other lists are malformed
  MaxStarts,  \* bound: starts of one process
  MaxFaults,  \* bound: how many things go wrong
  None,       \* no file, no key
  Cut         \* what is not a key: an empty or shortened file

\* An environment gives some names a value.  A line of .env has a key and a
\* value; one without a key cannot be read.
Line == [key : STRING, value : STRING]

ASSUME StartUpAssumption ==
  /\ \A p \in Process : \A c \in Config[p] :
       /\ DOMAIN c = {"shell", "lines"} /\ c.lines \in Seq(Line)
       /\ DOMAIN c.shell \subseteq STRING /\ c.shell \in [DOMAIN c.shell -> STRING]
  /\ \A v \in DOMAIN PeersIn : PeersIn[v] \in Seq([id : STRING, addr : STRING])

\* No list names no peers.
ASSUME UnsetAssumption == "" \in DOMAIN PeersIn /\ PeersIn[""] = <<>>

ASSUME BoundAssumption == MaxStarts \in Nat /\ MaxFaults \in Nat

VARIABLES
  config,     \* config[p]: one of Config[p], for good
  at,         \* at[p]: how far p has come
  env,        \* env[p]: its environment
  starts,     \* starts[p]: how often it was started
  identity,   \* identity[p]: the key it has, or makes
  file,       \* file[path]: what a key file holds
  dialled,    \* dialled[p]: the static peers it has dialled, in order
  connected,  \* connected[p]: those it has reached
  faults,     \* how many things have gone wrong
  used,       \* history: used[path]: the keys nodes had from this file
  raced       \* history: files two processes were creating at once

vars == <<config, at, env, starts, identity, file, dialled, connected, faults, used, raced>>

-----------------------------------------------------------------------------
(* Settings. *)

Nameless(line) == line.key = ""

\* A slip: a later line replaces an earlier one, and the shell's.
LastLineWins(sofar, line) ==
  IF ~sofar.ok \/ Nameless(line) THEN [sofar EXCEPT !.ok = FALSE]
  ELSE [sofar EXCEPT !.env =
          [k \in DOMAIN @ \cup {line.key} |-> IF k = line.key THEN line.value ELSE @[k]]]

\* One line of .env: it sets what is not set yet, be it to nothing.
LoadLine(sofar, line) ==
  IF ~sofar.ok \/ Nameless(line) THEN [sofar EXCEPT !.ok = FALSE]
  ELSE IF line.key \in DOMAIN sofar.env THEN sofar
  ELSE [sofar EXCEPT !.env =
          [k \in DOMAIN @ \cup {line.key} |-> IF k = line.key THEN line.value ELSE @[k]]]

LoadDotEnv(c) == FoldLeft(LoadLine, [ok |-> TRUE, env |-> c.shell], c.lines)

\* Empty is as good as not set.
Getenv(e, key, default) ==
  IF key \in DOMAIN e /\ e[key] # "" THEN e[key] ELSE default

\* strconv.ParseBool, or the default.
GetenvBool(e, key, default) ==
  LET value == Getenv(e, key, "") IN
  IF value \in {"1", "t", "T", "true", "TRUE", "True"} THEN TRUE
  ELSE IF value \in {"0", "f", "F", "false", "FALSE", "False"} THEN FALSE
  ELSE default

KeyPath(e) == Getenv(e, "P2PTEST_KEY_PATH", "/tmp/p2ptest.key")
WebPort(e) == Getenv(e, "APP_WEB_PORT", "3300")

RelayService(e) == GetenvBool(e, "APP_RELAY_SERVICE", FALSE)
\* libp2pOptions needs both lists to be well-formed; other addresses that
\* cannot be parsed are among the faults of ListenFails.
StaticRelays(e) == Getenv(e, "APP_STATIC_RELAYS", "")
BootstrapPeers(e) == Getenv(e, "APP_BOOTSTRAP_PEERS", "")
OptionsOK(e) == StaticRelays(e) \in DOMAIN PeersIn /\ BootstrapPeers(e) \in DOMAIN PeersIn
StaticPeers(e) == PeersIn[StaticRelays(e)] \o PeersIn[BootstrapPeers(e)]

DhtEnabled(e) == GetenvBool(e, "APP_DHT_ENABLED", TRUE)
\* In lower case, as dhtMode compares it.
DhtMode(e) == Getenv(e, "APP_DHT_MODE", IF RelayService(e) THEN "server" ELSE "auto-server")
DhtModeOK(e) == DhtMode(e) \in {"auto", "auto-server", "autoserver", "server", "client"}

-----------------------------------------------------------------------------
(* Starting. *)

Paths == {KeyPath(LoadDotEnv(c).env) : c \in UNION {Config[p] : p \in Process}}
Path(p) == KeyPath(env[p])

\* p has found no key file and is making one.
Creating(p) == at[p] \in {"opening", "writing"}

Keys == Process \X (1 .. MaxStarts)

ASSUME KeyAssumption == None \notin Keys /\ Cut \notin Keys /\ None # Cut

Stages == {"down", "reading", "opening", "writing", "options", "listening",
           "connecting", "dht", "serving", "up", "failed"}

\* A process has a key from the moment it can go on, and never a shortened
\* one; whoever runs without having raced for its file has the file's key.
TypeOK ==
  /\ \A p \in Process : config[p] \in Config[p]
  /\ at \in [Process -> Stages]
  /\ starts \in [Process -> 0 .. MaxStarts]
  /\ identity \in [Process -> Keys \cup {None}]
  /\ file \in [Paths -> Keys \cup {None, Cut}]
  /\ \A p \in Process :
       at[p] \in Stages \ {"down", "reading", "opening", "writing", "failed"} =>
         identity[p] # None /\ (Path(p) \notin raced => file[Path(p)] = identity[p])
  /\ \A p \in Process : Range(connected[p]) \subseteq Range(dialled[p])
  /\ used \in [Paths -> SUBSET Keys] /\ raced \subseteq Paths
  /\ faults \in 0 .. MaxFaults

Init ==
  /\ config \in {c \in [Process -> UNION {Config[p] : p \in Process}] :
                   \A p \in Process : c[p] \in Config[p]}
  /\ at = [p \in Process |-> "down"]
  /\ env = [p \in Process |-> config[p].shell]
  /\ starts = [p \in Process |-> 0]
  /\ identity = [p \in Process |-> None]
  /\ file = [path \in Paths |-> None]
  /\ dialled = [p \in Process |-> <<>>]
  /\ connected = [p \in Process |-> <<>>]
  /\ faults = 0
  /\ used = [path \in Paths |-> {}]
  /\ raced = {}

Fault == faults < MaxFaults /\ faults' = faults + 1

Goto(p, from, to) == at[p] = from /\ at' = [at EXCEPT ![p] = to]

hostVars == <<dialled, connected>>
keyVars == <<identity, file, used, raced>>

\* Run begins: .env is read, and a line that cannot be read ends it.
Start(p) ==
  LET loaded == LoadDotEnv(config[p]) IN
  /\ starts[p] < MaxStarts
  /\ at[p] \in {"down", "failed"}
  /\ at' = [at EXCEPT ![p] = IF loaded.ok THEN "reading" ELSE "failed"]
  /\ env' = [env EXCEPT ![p] = loaded.env]
  /\ starts' = [starts EXCEPT ![p] = @ + 1]
  /\ identity' = [identity EXCEPT ![p] = None]
  /\ dialled' = [dialled EXCEPT ![p] = <<>>]
  /\ connected' = [connected EXCEPT ![p] = <<>>]
  /\ UNCHANGED <<config, file, faults, used, raced>>

\* p goes on with this key.
Take(p, key) ==
  /\ identity' = [identity EXCEPT ![p] = key]
  /\ used' = [used EXCEPT ![Path(p)] = @ \cup {key}]

\* A slip: the file is there, but nobody reads what it holds.
NewKeyAnyway(p) ==
  /\ file[Path(p)] \notin {None, Cut}
  /\ Goto(p, "reading", "options")
  /\ Take(p, <<p, starts[p]>>)
  /\ UNCHANGED <<config, env, starts, file, hostVars, faults, raced>>

LoadKey(p) ==
  /\ file[Path(p)] \notin {None, Cut}
  /\ Goto(p, "reading", "options")
  /\ Take(p, file[Path(p)])
  /\ UNCHANGED <<config, env, starts, file, hostVars, faults, raced>>

\* What the file holds is no key: so it will be at the next start.
LoadFails(p) ==
  /\ file[Path(p)] = Cut
  /\ Goto(p, "reading", "failed")
  /\ UNCHANGED <<config, env, starts, keyVars, hostVars, faults>>

\* A slip: any key file that cannot be used is made anew.
NoKeyThere(p) == TRUE

\* os.ErrNotExist
KeyMissing(p) == file[Path(p)] = None

\* A key is generated.
NoKeyYet(p) ==
  /\ KeyMissing(p)
  /\ Goto(p, "reading", "opening")
  /\ raced' = IF \E q \in Process \ {p} : Creating(q) /\ Path(q) = Path(p)
              THEN raced \cup {Path(p)} ELSE raced
  /\ UNCHANGED <<config, env, starts, identity, file, hostVars, faults, used>>

\* os.WriteFile creates the file, or empties one that has come up since.
OpenKey(p) ==
  /\ Goto(p, "opening", "writing")
  /\ file' = [file EXCEPT ![Path(p)] = Cut]
  /\ UNCHANGED <<config, env, starts, identity, hostVars, faults, used, raced>>

\* A slip: the key is not written whole.
NotWhole(p) == Cut

Written(p) == <<p, starts[p]>>

WriteKey(p) ==
  /\ Goto(p, "writing", "options")
  /\ file' = [file EXCEPT ![Path(p)] = Written(p)]
  /\ Take(p, <<p, starts[p]>>)
  /\ UNCHANGED <<config, env, starts, hostVars, faults, raced>>

\* A slip: what was written is taken away again.
KeyRemoved(p) == file' = [file EXCEPT ![Path(p)] = None]

\* A file is left behind as it is.
KeyLeft(p) == UNCHANGED file

\* The file cannot be read, created or written whole.
KeyFails(p) ==
  /\ at[p] = "reading" \/ Creating(p)
  /\ at' = [at EXCEPT ![p] = "failed"]
  /\ KeyLeft(p)
  /\ Fault
  /\ UNCHANGED <<config, env, starts, identity, used, raced, hostVars>>

\* The host listens, and then the handlers are registered.
Listen(p) ==
  /\ OptionsOK(env[p])
  /\ Goto(p, "options", "listening")
  /\ UNCHANGED <<config, env, starts, keyVars, hostVars, faults>>

ListenFails(p) ==
  /\ Goto(p, "options", "failed")
  /\ \/ ~OptionsOK(env[p]) /\ UNCHANGED faults
     \/ Fault
  /\ UNCHANGED <<config, env, starts, keyVars, hostVars>>

SetHandlers(p) ==
  /\ Goto(p, "listening", "connecting")
  /\ UNCHANGED <<config, env, starts, keyVars, hostVars, faults>>

\* A slip: nobody keeps in mind who was dialled already.
NotDialled(p) == {i \in DOMAIN StaticPeers(env[p]) : i > Len(dialled[p])}

\* Where the static peers are listed whose id has not been seen yet.
Unseen(p) ==
  {i \in DOMAIN StaticPeers(env[p]) :
     \A j \in DOMAIN dialled[p] : dialled[p][j].id # StaticPeers(env[p])[i].id}

\* connectToStaticPeers: one after the other, whether it can be reached or not.
ConnectNext(p) ==
  /\ at[p] = "connecting"
  /\ \E i \in Unseen(p) :
       LET peer == StaticPeers(env[p])[i] IN
       /\ \A j \in Unseen(p) : i <= j
       /\ dialled' = [dialled EXCEPT ![p] = Append(@, peer)]
       /\ connected' \in {connected, [connected EXCEPT ![p] = Append(@, peer)]}
  /\ UNCHANGED <<config, at, env, starts, keyVars, faults>>

ConnectEnds(p) ==
  /\ Goto(p, "connecting", "dht")
  /\ Unseen(p) = {}
  /\ UNCHANGED <<config, env, starts, keyVars, hostVars, faults>>

\* A mode that does not exist ends a node that is serving already.
SetupDHT(p) ==
  /\ DhtEnabled(env[p]) => DhtModeOK(env[p])
  /\ Goto(p, "dht", "serving")
  /\ UNCHANGED <<config, env, starts, keyVars, hostVars, faults>>

SetupDHTFails(p) ==
  /\ DhtEnabled(env[p])
  /\ Goto(p, "dht", "failed")
  /\ \/ ~DhtModeOK(env[p]) /\ UNCHANGED faults
     \/ Fault
  /\ UNCHANGED <<config, env, starts, keyVars, hostVars>>

PortTaken(p) == \E q \in Process \ {p} : at[q] = "up" /\ WebPort(env[q]) = WebPort(env[p])

\* Discovery runs by now; log.Fatal if the port of the web server is taken.
Serve(p) ==
  /\ Goto(p, "serving", IF PortTaken(p) THEN "failed" ELSE "up")
  /\ UNCHANGED <<config, env, starts, keyVars, hostVars, faults>>

Stop(p) ==
  /\ Goto(p, "up", "down")
  /\ UNCHANGED <<config, env, starts, keyVars, hostVars, faults>>

Crash(p) ==
  /\ at[p] \notin {"down", "failed"}
  /\ at' = [at EXCEPT ![p] = "down"]
  /\ Fault
  /\ UNCHANGED <<config, env, starts, keyVars, hostVars>>

Next ==
  \E p \in Process :
    \/ Start(p) \/ LoadKey(p) \/ LoadFails(p) \/ NoKeyYet(p)
    \/ OpenKey(p) \/ WriteKey(p) \/ KeyFails(p)
    \/ Listen(p) \/ ListenFails(p) \/ SetHandlers(p)
    \/ ConnectNext(p) \/ ConnectEnds(p) \/ SetupDHT(p) \/ SetupDHTFails(p)
    \/ Serve(p) \/ Stop(p) \/ Crash(p)

Spec == Init /\ [][Next]_vars

-----------------------------------------------------------------------------
(* Properties. *)

\* Where .env gives k a value, and what value the shell does not override.
FirstLine(c, k) ==
  c.lines[CHOOSE i \in DOMAIN c.lines :
            c.lines[i].key = k /\ \A j \in 1 .. i - 1 : c.lines[j].key # k].value

\* A name has the value the shell gives it, even if that is empty, or else
\* that of its first line in .env, whatever comes how often: the shell's
\* environment prevails, as README.md:58 says (loadDotEnv).
ShellPrevails ==
  \A p \in Process : at[p] \notin {"down", "failed"} =>
    LET c == config[p]
        named == {c.lines[i].key : i \in DOMAIN c.lines}
    IN /\ DOMAIN env[p] = DOMAIN c.shell \cup named
       /\ \A k \in DOMAIN env[p] :
            env[p][k] = IF k \in DOMAIN c.shell THEN c.shell[k] ELSE FirstLine(c, k)

\* Nodes that take their identity from one file, at the same time or one
\* after the other, all have the same one, unless two of them found no file
\* and created it at once (loadOrCreatePrivateKey looks first and writes
\* later, and writes what it found missing over what has come up since).  And
\* even then a process makes a key for a file but once, however often it is
\* started again: a file has no more identities than it had creators.
OneIdentityPerFile ==
  /\ \A path \in Paths \ raced : Cardinality(used[path]) <= 1
  /\ \A path \in Paths : \A mine, other \in used[path] : mine[1] = other[1] => mine = other

\* Unless somebody is creating it, a key file that exists stays as it is: a
\* key is never replaced, and a cut one never repaired.
KeyFilesStay ==
  [][\A path \in Paths :
       file[path] # None /\ (\A p \in Process : Creating(p) => Path(p) # path) =>
         file'[path] = file[path]]_vars

\* Of a key file that cannot be read, there is always one to blame who does
\* not run with a key of its own: a process that is writing it, or one that
\* was started for it and, since something has gone wrong, is down, has
\* failed, or is about to find that it cannot read the file.
CutExplained ==
  \A path \in Paths :
    file[path] = Cut =>
      \E p \in Process :
        /\ Path(p) = path
        /\ \/ at[p] = "writing"
           \/ at[p] \in {"down", "reading", "failed"} /\ starts[p] > 0 /\ faults > 0

\* Before discovery starts, every static relay and bootstrap peer has been
\* dialled, once: at the first of its addresses (connectToStaticPeers passes
\* over the others, reachable or not).
PeersDialledOnce ==
  \A p \in Process : at[p] \in {"dht", "serving", "up"} =>
    LET peers == StaticPeers(env[p])
        firsts == {i \in DOMAIN peers : \A j \in 1 .. i - 1 : peers[j].id # peers[i].id}
    IN /\ Range(dialled[p]) = {peers[i] : i \in firsts}
       /\ Len(dialled[p]) = Cardinality(firsts)
=============================================================================
