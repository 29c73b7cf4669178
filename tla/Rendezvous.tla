----------------------------- MODULE Rendezvous -----------------------------
(***************************************************************************)
(* How TUIs and daemons find each other through the path /tmp/bozod.sock:  *)
(* run_server takes the path and main gives it back (bozod), and           *)
(* IpcClient::connect looks for a daemon behind it, spawns one and waits   *)
(* (bozo).  Several daemons may run at once, none knows of another.        *)
(***************************************************************************)
EXTENDS Scanner

CONSTANTS
    Daemons,       \* daemon processes that may be started
    Clients,       \* TUIs
    NoFile, Stale, \* the path does not exist; it is left over from a crash
    NoDaemon,
    Surroundings   \* what a scan can hear: sequences of peripherals

ASSUME RendezvousAssumption == NoFile \notin Daemons /\ Stale \notin Daemons /\ NoFile # Stale

VARIABLES
    file,    \* whose socket the path leads to
    main,    \* main of a daemon process
    server,  \* its run_server task
    met,     \* history: the daemons that have not been alone all their life
    client,  \* IpcClient::connect
    peer,    \* the daemon a client's stream is connected to
    child    \* the daemon a client has spawned

daemonVars == <<main, server, met>>
clientVars == <<client, peer, child>>
vars == <<file, daemonVars, clientVars>>

Alive(d) == main[d] \in {"starting", "scanning", "running", "stopping"}

Init ==
    /\ file \in {NoFile, Stale}
    /\ main = [d \in Daemons |-> "off"]
    /\ server = [d \in Daemons |-> "off"]
    /\ met = {}
    /\ client = [c \in Clients |-> "idle"]
    /\ peer = [c \in Clients |-> NoDaemon]
    /\ child = [c \in Clients |-> NoDaemon]

-----------------------------------------------------------------------------
(* bozod: main.                                                            *)

Start(d) ==
    /\ main[d] = "off"
    /\ main' = [main EXCEPT ![d] = "starting"]
    /\ LET others == {e \in Daemons : Alive(e)}
       IN  met' = IF others = {} THEN met ELSE met \cup others \cup {d}
    /\ UNCHANGED <<file, server>>

\* By hand, not by a TUI.
StartByHand(d) == Start(d) /\ UNCHANGED clientVars

\* There is an adapter; the server task is spawned and the scan begins.
SpawnServer(d) ==
    /\ main[d] = "starting"
    /\ main' = [main EXCEPT ![d] = "scanning"]
    /\ server' = [server EXCEPT ![d] = "checking"]
    /\ UNCHANGED <<file, met, clientVars>>

\* The process ends here and now, its tasks with it, and the path stays as it is:
\* a failed `?`, the end of --scan-only, or a signal outside the select!.
Die(d) ==
    /\ main' = [main EXCEPT ![d] = "dead"]
    /\ server' = [server EXCEPT ![d] = "off"]
    /\ UNCHANGED <<file, met, clientVars>>

StartFails(d) == main[d] = "starting" /\ Die(d)
Killed(d) == Alive(d) /\ Die(d)

CanConnect(peripherals) ==
    LET found == FindBoseDevice(peripherals)
    IN  found # << >> /\ FindBmapCharacteristic(found[1]) # << >>

ScanFails(d, peripherals) == main[d] = "scanning" /\ ~CanConnect(peripherals) /\ Die(d)

ScanSucceeds(d, peripherals) ==
    /\ main[d] = "scanning" /\ CanConnect(peripherals)
    /\ main' = [main EXCEPT ![d] = "running"]
    /\ UNCHANGED <<file, server, met, clientVars>>

\* The select! has ended; the path is removed, whoever's it is.
ShutDown(d) ==
    /\ main[d] = "running"
    /\ main' = [main EXCEPT ![d] = "stopping"]
    /\ file' = NoFile
    /\ UNCHANGED <<server, met, clientVars>>

Exit(d) == main[d] = "stopping" /\ Die(d)

-----------------------------------------------------------------------------
(* bozod: run_server, a task of its own as long as the process lives.      *)

ServerStep(d, from, to) ==
    /\ Alive(d) /\ server[d] = from
    /\ server' = [server EXCEPT ![d] = to]
    /\ UNCHANGED <<main, met, clientVars>>

CheckPath(d) ==
    /\ ServerStep(d, "checking", IF file = NoFile THEN "binding" ELSE "removing")
    /\ UNCHANGED file

\* Mutant: the path is not removed before it is bound.
RemovePathNot(d) ==
    /\ ServerStep(d, "removing", "binding")
    /\ UNCHANGED file

RemovePath(d) ==
    \/ /\ file # NoFile
       /\ ServerStep(d, "removing", "binding")
       /\ file' = NoFile
    \/ /\ file = NoFile
       /\ ServerStep(d, "removing", "failed")
       /\ UNCHANGED file

Bind(d) ==
    \/ /\ file = NoFile
       /\ ServerStep(d, "binding", "listening")
       /\ file' = d
    \/ /\ file # NoFile
       /\ ServerStep(d, "binding", "failed")
       /\ UNCHANGED file

-----------------------------------------------------------------------------
(* bozo: IpcClient::connect.                                               *)

\* Mutant: a path that exists is taken for a daemon that listens.
ListeningIfFile(d) == d # NoFile

Listening(d) == d \in Daemons /\ Alive(d) /\ server[d] = "listening"

\* A connect to the path succeeds if a daemon listens on it.
Connected(c) ==
    /\ Listening(file)
    /\ client' = [client EXCEPT ![c] = "greeting"]
    /\ peer' = [peer EXCEPT ![c] = file]
    /\ UNCHANGED <<file, daemonVars, child>>

GoTo(c, step) ==
    /\ client' = [client EXCEPT ![c] = step]
    /\ UNCHANGED <<file, daemonVars, peer, child>>

TryExisting(c) ==
    /\ client[c] = "idle"
    /\ Connected(c) \/ (~Listening(file) /\ GoTo(c, "spawning"))

SpawnDaemon(c) ==
    /\ client[c] = "spawning"
    /\ \E d \in Daemons : Start(d) /\ child' = [child EXCEPT ![c] = d]
    /\ client' = [client EXCEPT ![c] = "waiting"]
    /\ UNCHANGED peer

\* There is no bozod binary.
SpawnFails(c) == client[c] = "spawning" /\ GoTo(c, "failed")

WaitForSocket(c) == client[c] = "waiting" /\ Connected(c)

\* Still to take its first steps: to find an adapter, to bind.
StartingUp(d) ==
    Alive(d) /\ (main[d] = "starting" \/ server[d] \in {"checking", "removing", "binding"})

\* Mutant: the client gives up when its first attempt fails.
GiveUpAtOnce(c) ==
    /\ client[c] = "waiting" /\ ~Listening(file)
    /\ GoTo(c, "gave up")

\* The deadline: DAEMON_STARTUP_TIMEOUT is long enough for the child to start up.
GiveUp(c) ==
    /\ client[c] = "waiting" /\ ~Listening(file)
    /\ ~StartingUp(child[c])
    /\ GoTo(c, "gave up")

\* The write of GetState fails if the daemon has ended meanwhile.
Greet(c) ==
    /\ client[c] = "greeting"
    /\ GoTo(c, IF Alive(peer[c]) THEN "connected" ELSE "failed")

\* The child is not killed with the TUI.
Quit(c) == client[c] = "connected" /\ GoTo(c, "quit")

DaemonStep(d) ==
    \/ SpawnServer(d) \/ CheckPath(d) \/ RemovePath(d) \/ Bind(d)

ClientStep(c) ==
    \/ TryExisting(c) \/ SpawnDaemon(c) \/ SpawnFails(c)
    \/ WaitForSocket(c) \/ GiveUp(c) \/ Greet(c)

Next ==
    \/ \E d \in Daemons :
        \/ StartByHand(d) \/ DaemonStep(d)
        \/ StartFails(d) \/ Killed(d) \/ ShutDown(d) \/ Exit(d)
        \/ \E peripherals \in Surroundings :
            ScanFails(d, peripherals) \/ ScanSucceeds(d, peripherals)
    \/ \E c \in Clients : ClientStep(c) \/ Quit(c)

\* Processes that have been started run; a client goes on polling.
Fairness ==
    /\ \A d \in Daemons : WF_vars(DaemonStep(d))
    /\ \A c \in Clients : WF_vars(ClientStep(c))

Spec == Init /\ [][Next]_vars /\ Fairness

-----------------------------------------------------------------------------
TypeOK ==
    /\ file \in Daemons \cup {NoFile, Stale}
    /\ main \in [Daemons -> {"off", "starting", "scanning", "running", "stopping", "dead"}]
    /\ server \in [Daemons -> {"off", "checking", "removing", "binding", "listening", "failed"}]
    /\ met \subseteq Daemons
    /\ client \in [Clients -> {"idle", "spawning", "waiting", "greeting", "connected",
                               "failed", "gave up", "quit"}]
    /\ peer \in [Clients -> Daemons \cup {NoDaemon}]
    /\ child \in [Clients -> Daemons \cup {NoDaemon}]

\* A daemon that is not about to exit, and that no other one has run beside.
Alone(d) == d \in Daemons /\ main[d] \in {"starting", "scanning", "running"} /\ d \notin met

(***************************************************************************)
(* Whatever crashed, stopped or was killed before it, a daemon that runs   *)
(* alone gets the path: its server does not fail, and once it listens the  *)
(* path leads to it until it shuts down.                                   *)
(***************************************************************************)
LoneDaemonReachable ==
    \A d \in Daemons : Alone(d) =>
        /\ server[d] # "failed"
        /\ server[d] = "listening" => file = d

(***************************************************************************)
(* A client gives up only if the daemon it has spawned has ended, or has   *)
(* run beside another one.                                                 *)
(***************************************************************************)
GaveUpHasCause ==
    \A c \in Clients : client[c] = "gave up" => ~Alone(child[c])

(***************************************************************************)
(* A client that waits gets through: to any daemon, unless its own child   *)
(* ends or runs beside another one.                                        *)
(***************************************************************************)
SpawnedIsReached ==
    \A c \in Clients :
        client[c] = "waiting" ~> \/ client[c] \in {"connected", "greeting"}
                                 \/ ~Alone(child[c])

(***************************************************************************)
(* server.rs, before remove_file: "Remove stale socket file".  So no       *)
(* daemon removes the socket of one that is still listening on it.         *)
(***************************************************************************)
OnlyStaleRemoved ==
    [][\A d \in Daemons : RemovePath(d) => ~Listening(file)]_vars

(***************************************************************************)
(* bozod/README.md: peripherals are recognised "by name prefix LE- or      *)
(* service UUID", the UUID being that of docs/BMAP.md.  So main does not   *)
(* fail while such headphones are around, and can be talked to.            *)
(***************************************************************************)
DocumentedServiceUuid == "0000febe-0000-1000-8000-00805f9b34fb"

Documented(p) ==
    /\ "LE-" \in p.name \/ DocumentedServiceUuid \in p.services
    /\ p.properties = "some" /\ FindBmapCharacteristic(p) # << >>

DocumentedAreFound ==
    [][\A d \in Daemons, peripherals \in Surroundings :
        ScanFails(d, peripherals)
            => \A n \in 1..Len(peripherals) : ~Documented(peripherals[n])]_vars
=============================================================================
