-------------------------- MODULE RendezvousProofs --------------------------
(***************************************************************************)
(* For any number of daemons and of TUIs, whatever is around: a daemon     *)
(* that runs alone is the one the path leads to, and a TUI that gives up   *)
(* has been given cause to.                                                *)
(*                                                                         *)
(* The inductive invariant says in what step of run_server the path is in  *)
(* what state, for a daemon that is alone: any other process that could    *)
(* change the path would be alive beside it.                               *)
(***************************************************************************)
EXTENDS Rendezvous, TLAPS

\* Daemons that are alive together have met.
Meetings ==
    \A d, e \in Daemons : d # e /\ Alive(d) /\ Alive(e) => d \in met

\* What a lone daemon's server has found out about the path is still true.
PathOf(d) ==
    /\ server[d] # "failed"
    /\ server[d] = "binding" => file = NoFile
    /\ server[d] = "removing" => file # NoFile
    /\ server[d] = "listening" => file = d

\* A server task lives from its spawning to the end of its process.
TaskInv == \A d \in Daemons : server[d] = "off" <=> main[d] \in {"off", "starting", "dead"}

PathInv == \A d \in Daemons : Alone(d) => PathOf(d)

\* The child of a client that waits, or has given up, was started.
ChildInv ==
    \A c \in Clients :
        client[c] \in {"waiting", "gave up"} => child[c] \in Daemons /\ main[child[c]] # "off"

IInv == TypeOK /\ Meetings /\ TaskInv /\ PathInv /\ ChildInv /\ GaveUpHasCause

-----------------------------------------------------------------------------
(* Initially.                                                              *)

LEMMA InitInv == Init => IInv
  BY RendezvousAssumption
  DEF Init, IInv, TypeOK, Meetings, TaskInv, PathInv, ChildInv, GaveUpHasCause, Alone, Alive

-----------------------------------------------------------------------------
(* The daemons' half: who lives, and whose the path is.                    *)

DaemonInv == TypeOK /\ Meetings /\ TaskInv /\ PathInv

LEMMA StartKeeps ==
    ASSUME DaemonInv, NEW d \in Daemons, Start(d)
    PROVE  (Meetings /\ TaskInv /\ PathInv)'
  <1>1. Meetings'
    BY DEF DaemonInv, TypeOK, Start, Meetings, Alive
  <1>2. TaskInv'
    BY DEF DaemonInv, TypeOK, Start, TaskInv
  <1>3. ASSUME NEW e \in Daemons, Alone(e)' PROVE PathOf(e)'
    <2>1. CASE e = d
      BY <1>3, <2>1 DEF DaemonInv, TypeOK, TaskInv, Start, PathOf, Alone
    <2>2. CASE e # d
      <3>1. Alone(e) /\ PathOf(e)
        BY <1>3, <2>2 DEF DaemonInv, TypeOK, PathInv, Start, Alone
      <3>2. QED
        BY <3>1 DEF Start, PathOf
    <2>3. QED
      BY <2>1, <2>2
  <1>4. QED
    BY <1>1, <1>2, <1>3 DEF PathInv

\* Nobody is started, the path stays as it is, and every other daemon too.
LEMMA OwnStepKeeps ==
    ASSUME DaemonInv, NEW d \in Daemons,
           SpawnServer(d) \/ CheckPath(d) \/ Die(d)
             \/ \E peripherals \in Surroundings : ScanSucceeds(d, peripherals),
           main[d] # "off"
    PROVE  (Meetings /\ TaskInv /\ PathInv)'
  <1>1. CASE SpawnServer(d)
    BY <1>1 DEF DaemonInv, TypeOK, Meetings, TaskInv, PathInv, PathOf, Alone, Alive, SpawnServer
  <1>2. CASE CheckPath(d)
    BY <1>2 DEF DaemonInv, TypeOK, Meetings, TaskInv, PathInv, PathOf, Alone, Alive,
                CheckPath, ServerStep
  <1>3. CASE Die(d)
    BY <1>3 DEF DaemonInv, TypeOK, Meetings, TaskInv, PathInv, PathOf, Alone, Alive, Die
  <1>4. CASE \E peripherals \in Surroundings : ScanSucceeds(d, peripherals)
    <2>1. Meetings'
      BY <1>4 DEF DaemonInv, TypeOK, Meetings, Alive, ScanSucceeds
    <2>2. TaskInv'
      BY <1>4 DEF DaemonInv, TypeOK, TaskInv, ScanSucceeds
    <2>3. PathInv'
      BY <1>4 DEF DaemonInv, TypeOK, PathInv, PathOf, Alone, ScanSucceeds
    <2>4. QED
      BY <2>1, <2>2, <2>3
  <1>5. QED
    BY <1>1, <1>2, <1>3, <1>4

\* The path changes by the hand of d: no other daemon is alone while it does.
LEMMA PathStepKeeps ==
    ASSUME DaemonInv, NEW d \in Daemons,
           ShutDown(d) \/ RemovePath(d) \/ Bind(d)
    PROVE  (Meetings /\ TaskInv /\ PathInv)'
  <1>1. Alive(d)
    BY DEF ShutDown, RemovePath, Bind, ServerStep, Alive
  <1>2. (Meetings /\ TaskInv)'
    <2>1. Meetings'
      BY DEF DaemonInv, TypeOK, Meetings, Alive, ShutDown, RemovePath, Bind, ServerStep
    <2>2. CASE ShutDown(d)
      BY <2>1, <2>2 DEF DaemonInv, TypeOK, TaskInv, ShutDown
    <2>3. CASE RemovePath(d) \/ Bind(d)
      BY <2>1, <2>3 DEF DaemonInv, TypeOK, TaskInv, RemovePath, Bind, ServerStep
    <2>4. QED
      BY <2>2, <2>3
  <1>3. ASSUME NEW e \in Daemons, Alone(e)' PROVE PathOf(e)'
    <2>1. Alone(e) /\ Alive(e)
      BY <1>3 DEF DaemonInv, TypeOK, Alone, Alive, ShutDown, RemovePath, Bind, ServerStep
    <2>2. e = d
      BY <1>1, <2>1 DEF DaemonInv, Meetings, Alone
    <2>3. PathOf(d)
      BY <2>1, <2>2 DEF DaemonInv, PathInv
    <2>4. ~ShutDown(d)
      BY <1>3, <2>2 DEF DaemonInv, TypeOK, Alone, ShutDown
    <2>5. CASE RemovePath(d)
      BY <2>2, <2>3, <2>5 DEF DaemonInv, TypeOK, PathOf, RemovePath, ServerStep
    <2>6. CASE Bind(d)
      BY <2>2, <2>3, <2>6 DEF DaemonInv, TypeOK, PathOf, Bind, ServerStep
    <2>7. QED
      BY <2>4, <2>5, <2>6
  <1>4. QED
    BY <1>2, <1>3 DEF PathInv

LEMMA DaemonsKeep ==
    ASSUME IInv, [Next]_vars
    PROVE  (Meetings /\ TaskInv /\ PathInv)'
  <1>. DaemonInv
    BY DEF IInv, DaemonInv
  <1>1. ASSUME NEW d \in Daemons, StartByHand(d) PROVE (Meetings /\ TaskInv /\ PathInv)'
    BY <1>1, StartKeeps DEF StartByHand
  <1>2. ASSUME NEW d \in Daemons, DaemonStep(d) PROVE (Meetings /\ TaskInv /\ PathInv)'
    <2>1. main[d] # "off"
      BY <1>2 DEF DaemonStep, SpawnServer, CheckPath, RemovePath, Bind, ServerStep, Alive
    <2>2. QED
      BY <1>2, <2>1, OwnStepKeeps, PathStepKeeps DEF DaemonStep
  <1>3. ASSUME NEW d \in Daemons, StartFails(d) \/ Killed(d) \/ Exit(d)
        PROVE  (Meetings /\ TaskInv /\ PathInv)'
    BY <1>3, OwnStepKeeps DEF StartFails, Killed, Exit, Alive
  <1>4. ASSUME NEW d \in Daemons, ShutDown(d) PROVE (Meetings /\ TaskInv /\ PathInv)'
    BY <1>4, PathStepKeeps
  <1>5. ASSUME NEW d \in Daemons, NEW peripherals \in Surroundings,
               ScanFails(d, peripherals) \/ ScanSucceeds(d, peripherals)
        PROVE  (Meetings /\ TaskInv /\ PathInv)'
    <2>1. main[d] # "off" /\ (Die(d) \/ ScanSucceeds(d, peripherals))
      BY <1>5 DEF ScanFails, ScanSucceeds
    <2>2. QED
      BY <2>1, OwnStepKeeps
  <1>6. ASSUME NEW c \in Clients, ClientStep(c) \/ Quit(c)
        PROVE  (Meetings /\ TaskInv /\ PathInv)'
    <2>1. CASE SpawnDaemon(c)
      BY <2>1, StartKeeps DEF SpawnDaemon
    <2>2. CASE UNCHANGED <<file, daemonVars>>
      BY <2>2 DEF DaemonInv, Meetings, TaskInv, PathInv, PathOf, Alone, Alive, daemonVars
    <2>3. SpawnDaemon(c) \/ UNCHANGED <<file, daemonVars>>
      BY <1>6 DEF ClientStep, Quit, TryExisting, SpawnFails, WaitForSocket, GiveUp, Greet,
                  Connected, GoTo
    <2>4. QED
      BY <2>1, <2>2, <2>3
  <1>7. CASE UNCHANGED vars
    BY <1>7 DEF DaemonInv, Meetings, TaskInv, PathInv, PathOf, Alone, Alive, vars, daemonVars
  <1>8. QED
    BY <1>1, <1>2, <1>3, <1>4, <1>5, <1>6, <1>7 DEF Next

-----------------------------------------------------------------------------
(* The clients' half.                                                      *)

LEMMA TypeKeeps ==
    ASSUME TypeOK, [Next]_vars
    PROVE  TypeOK'
  <1>1. ASSUME NEW d \in Daemons, StartByHand(d) \/ DaemonStep(d) PROVE TypeOK'
    BY <1>1 DEF TypeOK, StartByHand, Start, DaemonStep, SpawnServer, CheckPath, RemovePath, Bind,
                ServerStep, clientVars
  <1>2. ASSUME NEW d \in Daemons, StartFails(d) \/ Killed(d) \/ ShutDown(d) \/ Exit(d)
        PROVE  TypeOK'
    BY <1>2 DEF TypeOK, StartFails, Killed, ShutDown, Exit, Die, clientVars
  <1>3. ASSUME NEW d \in Daemons, NEW peripherals \in Surroundings,
               ScanFails(d, peripherals) \/ ScanSucceeds(d, peripherals)
        PROVE  TypeOK'
    BY <1>3 DEF TypeOK, ScanFails, ScanSucceeds, Die, clientVars
  <1>4. ASSUME NEW c \in Clients, ClientStep(c) \/ Quit(c) PROVE TypeOK'
    <2>1. CASE SpawnDaemon(c)
      <3>1. PICK d \in Daemons : Start(d) /\ child' = [child EXCEPT ![c] = d]
        BY <2>1 DEF SpawnDaemon
      <3>2. (file \in Daemons \cup {NoFile, Stale})' /\ (met \subseteq Daemons)'
        BY <3>1 DEF TypeOK, Start
      <3>3. main' \in [Daemons -> {"off", "starting", "scanning", "running", "stopping", "dead"}]
        BY <3>1 DEF TypeOK, Start
      <3>4. QED
        BY <2>1, <3>1, <3>2, <3>3 DEF TypeOK, SpawnDaemon, Start
    <2>2. CASE Connected(c)
      BY <2>2 DEF TypeOK, Connected, Listening, daemonVars
    <2>3. ASSUME NEW step \in {"spawning", "failed", "gave up", "connected", "quit"}, GoTo(c, step)
          PROVE  TypeOK'
      BY <2>3 DEF TypeOK, GoTo, daemonVars
    <2>4. QED
      BY <1>4, <2>1, <2>2, <2>3
      DEF ClientStep, Quit, TryExisting, SpawnFails, WaitForSocket, GiveUp, Greet
  <1>5. CASE UNCHANGED vars
    BY <1>5 DEF TypeOK, vars, daemonVars, clientVars
  <1>6. QED
    BY <1>1, <1>2, <1>3, <1>4, <1>5 DEF Next

\* A daemon that was started stays started, and one that is not alone any more
\* never will be again.
LEMMA NeverAloneAgain ==
    ASSUME TypeOK, [Next]_vars, NEW d \in Daemons, main[d] # "off"
    PROVE  main'[d] # "off" /\ (~Alone(d) => ~Alone(d)')
  <1>1. ASSUME NEW e \in Daemons, Start(e)
        PROVE  main'[d] # "off" /\ (~Alone(d) => ~Alone(d)')
    BY <1>1 DEF TypeOK, Start, Alone
  <1>2. ASSUME NEW e \in Daemons, Die(e) \/ ShutDown(e) \/ SpawnServer(e)
                 \/ CheckPath(e) \/ RemovePath(e) \/ Bind(e)
        PROVE  main'[d] # "off" /\ (~Alone(d) => ~Alone(d)')
    BY <1>2 DEF TypeOK, Die, ShutDown, SpawnServer, CheckPath, RemovePath, Bind, ServerStep, Alone
  <1>3. ASSUME NEW e \in Daemons, NEW peripherals \in Surroundings, ScanSucceeds(e, peripherals)
        PROVE  main'[d] # "off" /\ (~Alone(d) => ~Alone(d)')
    BY <1>3 DEF TypeOK, ScanSucceeds, Alone
  <1>4. CASE UNCHANGED daemonVars
    BY <1>4 DEF daemonVars, Alone
  <1>5. \/ \E e \in Daemons :
            \/ Start(e) \/ Die(e) \/ ShutDown(e) \/ SpawnServer(e)
            \/ CheckPath(e) \/ RemovePath(e) \/ Bind(e)
            \/ \E peripherals \in Surroundings : ScanSucceeds(e, peripherals)
        \/ UNCHANGED daemonVars
    BY DEF Next, StartByHand, DaemonStep, StartFails, Killed, Exit, ScanFails, ClientStep, Quit,
           TryExisting, SpawnDaemon, SpawnFails, WaitForSocket, GiveUp, Greet, Connected, GoTo, vars
  <1>6. QED
    BY <1>1, <1>2, <1>3, <1>4, <1>5

\* What a client is and whom it has started changes by its own steps only.
LEMMA ClientsKeep ==
    ASSUME IInv, [Next]_vars
    PROVE  (ChildInv /\ GaveUpHasCause)'
  <1>1. ASSUME NEW c \in Clients, client'[c] = client[c], child'[c] = child[c]
        PROVE  /\ client'[c] \in {"waiting", "gave up"} =>
                    child'[c] \in Daemons /\ main'[child'[c]] # "off"
               /\ client'[c] = "gave up" => ~Alone(child[c])'
    BY <1>1, NeverAloneAgain DEF IInv, ChildInv, GaveUpHasCause
  <1>2. ASSUME NEW c \in Clients, GiveUp(c)
        PROVE  ~Alone(child[c])
    <2>1. child[c] \in Daemons /\ main[child[c]] # "off"
      BY <1>2 DEF IInv, ChildInv, GiveUp
    <2>2. SUFFICES ASSUME Alone(child[c]) PROVE FALSE
      OBVIOUS
    <2>3. PathOf(child[c]) /\ Alive(child[c])
      BY <2>1, <2>2 DEF IInv, PathInv, Alone, Alive
    <2>4. server[child[c]] = "listening"
      BY <1>2, <2>1, <2>2, <2>3 DEF IInv, TypeOK, TaskInv, PathOf, GiveUp, StartingUp, Alone
    <2>5. QED
      BY <1>2, <2>1, <2>3, <2>4 DEF PathOf, GiveUp, Listening
  <1>3. ASSUME NEW c \in Clients, client'[c] # client[c] \/ child'[c] # child[c]
        PROVE  /\ client'[c] \in {"waiting", "gave up"} =>
                    child'[c] \in Daemons /\ main'[child'[c]] # "off"
               /\ client'[c] = "gave up" => ~Alone(child[c])'
    <2>1. ClientStep(c) \/ Quit(c)
      <3>1. ~UNCHANGED clientVars
        BY <1>3 DEF clientVars
      <3>2. PICK e \in Clients : ClientStep(e) \/ Quit(e)
        BY <3>1 DEF Next, StartByHand, DaemonStep, SpawnServer, CheckPath, RemovePath, Bind,
                    ServerStep, StartFails, Killed, ShutDown, Exit, Die, ScanFails, ScanSucceeds,
                    vars
      <3>3. e # c => client'[c] = client[c] /\ child'[c] = child[c]
        BY <3>2 DEF IInv, TypeOK, ClientStep, Quit, TryExisting, SpawnDaemon, SpawnFails,
                    WaitForSocket, GiveUp, Greet, Connected, GoTo
      <3>4. QED
        BY <1>3, <3>2, <3>3
    <2>2. CASE SpawnDaemon(c)
      BY <2>2 DEF IInv, TypeOK, SpawnDaemon, Start
    <2>3. CASE GiveUp(c)
      BY <1>2, <2>3, NeverAloneAgain DEF IInv, TypeOK, ChildInv, GiveUp, GoTo
    <2>4. CASE ~SpawnDaemon(c) /\ ~GiveUp(c)
      BY <2>1, <2>4 DEF IInv, TypeOK, ClientStep, Quit, TryExisting, SpawnFails, WaitForSocket,
                        Greet, Connected, GoTo
    <2>5. QED
      BY <2>2, <2>3, <2>4
  <1>4. QED
    BY <1>1, <1>3 DEF ChildInv, GaveUpHasCause

-----------------------------------------------------------------------------

LEMMA StepInv == IInv /\ [Next]_vars => IInv'
  BY DaemonsKeep, TypeKeeps, ClientsKeep DEF IInv

LEMMA Inductive == Spec => []IInv
  BY InitInv, StepInv, PTL DEF Spec

\* Every variable of daemons and clients keeps its type.
THEOREM TypeCorrect == Spec => []TypeOK
  BY Inductive, PTL DEF IInv

(***************************************************************************)
(* A daemon that runs alone is reachable, whatever run_server found at the *)
(* path and whatever daemons before it left there.                         *)
(***************************************************************************)
THEOREM LoneReachable == Spec => []LoneDaemonReachable
  <1>1. IInv => LoneDaemonReachable
    BY DEF IInv, PathInv, PathOf, LoneDaemonReachable
  <1>2. QED
    BY Inductive, <1>1, PTL

(***************************************************************************)
(* wait_for_socket reports "bozod did not start" only if the child ended   *)
(* or was not the only daemon.                                             *)
(***************************************************************************)
THEOREM GivingUpHasCause == Spec => []GaveUpHasCause
  BY Inductive, PTL DEF IInv
=============================================================================
