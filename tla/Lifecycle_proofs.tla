--------------------------- MODULE Lifecycle_proofs ---------------------------
(***************************************************************************)
(* However many daemons are started, however they race past the pid file   *)
(* and whenever they are stopped or killed, at most one of them runs jobs; *)
(* and when commands come one at a time, the pid file names it.            *)
(***************************************************************************)
EXTENDS Lifecycle, TLAPS

LEMMA ExitKeepsTypes ==
  ASSUME NEW d \in Daemon, TypeOK, Exits(d), UNCHANGED <<cpc, seen>>,
         file' \in Pid, crowded' \in BOOLEAN
  PROVE  TypeOK'
BY DEF TypeOK, Exits, DaemonPc, Pid

LEMMA CatchKeepsTypes ==
  ASSUME NEW d \in Daemon, TypeOK, Catch(d), dpc[d] # "off", UNCHANGED <<cpc, seen>>,
         file' \in Pid, crowded' \in BOOLEAN
  PROVE  TypeOK'
BY DEF TypeOK, Catch, DaemonPc, Pid

LEMMA StartKeepsTypes ==
  ASSUME NEW d \in Daemon, TypeOK, Starts(d) \/ StartForeground(d)
  PROVE  TypeOK'
<1> USE DEF DaemonPc
<1>1. CASE Check(d)
  <2>1. CASE Alive(file)
    BY <1>1, <2>1, ExitKeepsTypes DEF Check, TypeOK
  <2>2. CASE ~Alive(file)
    BY <1>1, <2>2 DEF Check, Starting, TypeOK
  <2> QED BY <2>1, <2>2
<1>2. CASE AcquireLock(d)
  BY <1>2 DEF AcquireLock, At, TypeOK, Pid
<1>3. CASE StartApiServer(d)
  <2>1. CASE At(d, "bot", "bound") /\ port' = d /\ UNCHANGED <<service, term, closing>>
    BY <1>3, <2>1 DEF StartApiServer, At, TypeOK, Pid
  <2>2. CASE Catch(d)
    BY <1>3, <2>2, CatchKeepsTypes DEF StartApiServer, TypeOK
  <2> QED BY <1>3, <2>1, <2>2 DEF StartApiServer
<1>4. CASE StartService(d)
  <2>1. CASE At(d, "bound", "ticking") /\ service' = [service EXCEPT ![d] = TRUE]
             /\ UNCHANGED <<port, term, closing>>
    BY <1>4, <2>1 DEF StartService, At, TypeOK
  <2>2. CASE Catch(d)
    BY <1>4, <2>2, CatchKeepsTypes DEF StartService, TypeOK
  <2> QED BY <1>4, <2>1, <2>2 DEF StartService
<1>5. CASE FirstTick(d)
  <2>1. CASE At(d, "ticking", "up") /\ UNCHANGED <<port, service, term, closing>>
    BY <1>5, <2>1 DEF FirstTick, At, TypeOK
  <2>2. CASE Catch(d)
    BY <1>5, <2>2, CatchKeepsTypes DEF FirstTick, TypeOK
  <2> QED BY <1>5, <2>1, <2>2 DEF FirstTick
<1>6. CASE StartForeground(d)
  BY <1>6 DEF StartForeground, At, TypeOK
<1> QED BY <1>1, <1>2, <1>3, <1>4, <1>5, <1>6 DEF Starts

LEMMA EndKeepsTypes ==
  ASSUME NEW d \in Daemon, TypeOK, Ends(d)
  PROVE  TypeOK'
<1> USE DEF DaemonPc
<1>1. CASE Shutdown(d)
  BY <1>1 DEF Shutdown, TypeOK, Pid
<1>2. CASE ServerClosed(d)
  BY <1>2 DEF ServerClosed, TypeOK
<1>3. CASE ReleaseLock(d)
  <2>1. CASE At(d, "releasing", "unlinking") /\ UNCHANGED <<file, port, service, term, closing>>
    BY <1>3, <2>1 DEF ReleaseLock, At, TypeOK, Exits
  <2>2. CASE Exits(d)
    BY <1>3, <2>2, ExitKeepsTypes DEF ReleaseLock, At, TypeOK, Pid
  <2> QED BY <1>3, <2>1, <2>2 DEF ReleaseLock
<1> QED BY <1>1, <1>2, <1>3 DEF Ends

LEMMA StarterKeepsTypes ==
  ASSUME NEW c \in Starter, TypeOK,
         Start(c) \/ WaitForDaemonStart(c) \/ GiveUp(c) \/ RemoveLockfile(c)
  PROVE  TypeOK'
<1> USE DEF Command, CommandPc
<1>1. CASE Start(c)
  BY <1>1, ChildOfAssumption DEF Start, Begins, Goes, At, TypeOK, DaemonPc
<1>2. CASE WaitForDaemonStart(c)
  BY <1>2 DEF WaitForDaemonStart, Goes, TypeOK
<1>3. CASE GiveUp(c)
  BY <1>3 DEF GiveUp, Goes, TypeOK
<1>4. CASE RemoveLockfile(c)
  BY <1>4 DEF RemoveLockfile, Goes, TypeOK, Pid
<1> QED BY <1>1, <1>2, <1>3, <1>4

LEMMA StopperKeepsTypes ==
  ASSUME NEW c \in Stopper, TypeOK, Stop(c) \/ SendTerm(c) \/ RemoveLockfile(c)
  PROVE  TypeOK'
<1> USE DEF Command, CommandPc
<1>1. CASE Stop(c)
  BY <1>1 DEF Stop, Begins, Goes, TypeOK
<1>2. CASE SendTerm(c)
  (* A signal waits only where there is a handler for it. *)
  <2>1. CASE Alive(seen[c]) /\ dpc[seen[c]] \in {"checked", "wrote"}
    <3>1. Exits(seen[c]) /\ seen[c] \in Daemon
      BY <1>2, <2>1 DEF SendTerm, Alive
    <3>2. cpc' \in [Command -> CommandPc] /\ UNCHANGED <<file, seen, crowded>>
      BY <1>2 DEF SendTerm, Goes, TypeOK
    <3> QED BY <3>1, <3>2 DEF TypeOK, Exits, DaemonPc, Pid
  <2>2. CASE ~Alive(seen[c]) \/ dpc[seen[c]] \notin {"checked", "wrote"}
    BY <1>2, <2>2 DEF SendTerm, Goes, TypeOK, Alive
  <2> QED BY <2>1, <2>2
<1>3. CASE RemoveLockfile(c)
  BY <1>3 DEF RemoveLockfile, Goes, TypeOK, Pid
<1> QED BY <1>1, <1>2, <1>3

(* Type correctness, and with it that SIGTERM waits for a handler, and the  *)
(* handler for a close, only in a daemon that has installed one and has not *)
(* ended.                                                                   *)
THEOREM LifecycleTypesHold == Spec => []TypeOK
<1>1. Init => TypeOK
  BY DEF Init, TypeOK, Pid, DaemonPc, CommandPc
<1>2. ASSUME TypeOK, [Next]_vars PROVE TypeOK'
  <2>1. CASE \E d \in Daemon : StartForeground(d) \/ Starts(d) \/ Ends(d)
    BY <1>2, <2>1, StartKeepsTypes, EndKeepsTypes
  <2>2. CASE \E d \in Daemon : Crash(d)
    BY <1>2, <2>2, ExitKeepsTypes DEF Crash, TypeOK
  <2>3. CASE \E c \in Starter :
               Start(c) \/ WaitForDaemonStart(c) \/ GiveUp(c) \/ RemoveLockfile(c)
    BY <1>2, <2>3, StarterKeepsTypes
  <2>4. CASE \E c \in Stopper : Stop(c) \/ SendTerm(c) \/ RemoveLockfile(c)
    BY <1>2, <2>4, StopperKeepsTypes
  <2>5. CASE UNCHANGED vars
    BY <1>2, <2>5 DEF TypeOK, vars
  <2> QED BY <1>2, <2>1, <2>2, <2>3, <2>4, <2>5 DEF Next
<1> QED BY <1>1, <1>2, PTL DEF Spec

-----------------------------------------------------------------------------
(* The pid file excludes nobody; what does is the port, which a daemon      *)
(* holds from its bind until it closes the server.                          *)
PortInv ==
  /\ dpc \in [Daemon -> DaemonPc] /\ service \in [Daemon -> BOOLEAN]
  /\ closing \in [Daemon -> BOOLEAN]
  /\ \A d \in Daemon : dpc[d] \in {"bound", "ticking", "up"} /\ ~closing[d] => port = d
  /\ \A d \in Daemon : service[d] =>
       \/ dpc[d] \in {"ticking", "up"}
       \/ closing[d] /\ dpc[d] \in {"releasing", "unlinking"}

(* A process that ends gives back only its own port. *)
LEMMA ExitKeepsPorts ==
  ASSUME NEW d \in Daemon, PortInv, Exits(d)
  PROVE  PortInv'
BY NobodyAssumption DEF PortInv, Exits, DaemonPc

(* The catch block stops the service before it closes the server. *)
LEMMA CatchKeepsPorts ==
  ASSUME NEW d \in Daemon, PortInv, Catch(d)
  PROVE  PortInv'
BY NobodyAssumption DEF PortInv, Catch, DaemonPc

LEMMA StartKeepsPorts ==
  ASSUME NEW d \in Daemon, PortInv, Starts(d) \/ StartForeground(d)
  PROVE  PortInv'
<1>1. CASE Check(d)
  BY <1>1, ExitKeepsPorts DEF PortInv, Check, Starting, DaemonPc
<1>2. CASE AcquireLock(d) \/ StartForeground(d)
  BY <1>2 DEF PortInv, AcquireLock, StartForeground, At, DaemonPc
<1>3. CASE StartApiServer(d)
  (* The port was nobody's, so no other daemon was bound or up. *)
  <2>1. CASE port = Nobody /\ At(d, "bot", "bound") /\ port' = d
             /\ UNCHANGED <<service, term, closing>>
    BY <2>1, NobodyAssumption DEF PortInv, At, DaemonPc
  <2>2. CASE Catch(d)
    BY <2>2, CatchKeepsPorts
  <2> QED BY <1>3, <2>1, <2>2 DEF StartApiServer
<1>4. CASE StartService(d)
  <2>1. CASE At(d, "bound", "ticking") /\ service' = [service EXCEPT ![d] = TRUE]
             /\ UNCHANGED <<port, term, closing>>
    BY <2>1 DEF PortInv, At, DaemonPc
  <2>2. CASE Catch(d)
    BY <2>2, CatchKeepsPorts
  <2> QED BY <1>4, <2>1, <2>2 DEF StartService
<1>5. CASE FirstTick(d)
  <2>1. CASE At(d, "ticking", "up") /\ UNCHANGED <<port, service, term, closing>>
    BY <2>1 DEF PortInv, At, DaemonPc
  <2>2. CASE Catch(d)
    BY <2>2, CatchKeepsPorts
  <2> QED BY <1>5, <2>1, <2>2 DEF FirstTick
<1> QED BY <1>1, <1>2, <1>3, <1>4, <1>5 DEF Starts

LEMMA EndKeepsPorts ==
  ASSUME NEW d \in Daemon, PortInv, Ends(d)
  PROVE  PortInv'
<1>1. CASE Shutdown(d)
  BY <1>1, NobodyAssumption DEF PortInv, Shutdown, DaemonPc
<1>2. CASE ServerClosed(d)
  BY <1>2 DEF PortInv, ServerClosed, DaemonPc
<1>3. CASE ReleaseLock(d)
  <2>1. CASE Exits(d)
    BY <2>1, ExitKeepsPorts
  <2>2. CASE At(d, "releasing", "unlinking") /\ UNCHANGED <<port, service, closing>>
    BY <2>2 DEF PortInv, At, DaemonPc
  <2> QED BY <1>3, <2>1, <2>2 DEF ReleaseLock
<1> QED BY <1>1, <1>2, <1>3 DEF Ends

LEMMA StarterKeepsPorts ==
  ASSUME NEW c \in Starter, PortInv,
         Start(c) \/ WaitForDaemonStart(c) \/ GiveUp(c) \/ RemoveLockfile(c)
  PROVE  PortInv'
<1>1. CASE Start(c)
  BY <1>1, ChildOfAssumption DEF PortInv, Start, At, DaemonPc
<1>2. CASE WaitForDaemonStart(c) \/ GiveUp(c) \/ RemoveLockfile(c)
  BY <1>2 DEF PortInv, WaitForDaemonStart, GiveUp, RemoveLockfile
<1> QED BY <1>1, <1>2

LEMMA StopperKeepsPorts ==
  ASSUME NEW c \in Stopper, PortInv, Stop(c) \/ SendTerm(c) \/ RemoveLockfile(c)
  PROVE  PortInv'
<1>1. CASE SendTerm(c)
  <2>1. CASE ~Alive(seen[c])
    BY <1>1, <2>1 DEF PortInv, SendTerm
  <2>2. CASE Alive(seen[c])
    <3>1. seen[c] \in Daemon
      BY <2>2 DEF Alive
    <3>2. CASE dpc[seen[c]] \in {"checked", "wrote"}
      BY <1>1, <2>2, <3>1, <3>2, ExitKeepsPorts DEF SendTerm
    <3>3. CASE dpc[seen[c]] \notin {"checked", "wrote"}
      BY <1>1, <2>2, <3>3 DEF PortInv, SendTerm
    <3> QED BY <3>2, <3>3
  <2> QED BY <2>1, <2>2
<1>2. CASE Stop(c) \/ RemoveLockfile(c)
  BY <1>2 DEF PortInv, Stop, RemoveLockfile
<1> QED BY <1>1, <1>2

(* Who has bound the port and not begun to shut down listens on it, and     *)
(* nobody else runs jobs but who is shutting down.                          *)
THEOREM PortInvariance == Spec => []PortInv
<1>1. Init => PortInv
  BY DEF Init, PortInv, DaemonPc
<1>2. ASSUME PortInv, [Next]_vars PROVE PortInv'
  <2>1. CASE \E d \in Daemon : StartForeground(d) \/ Starts(d) \/ Ends(d)
    BY <1>2, <2>1, StartKeepsPorts, EndKeepsPorts
  <2>2. CASE \E d \in Daemon : Crash(d)
    BY <1>2, <2>2, ExitKeepsPorts DEF Crash
  <2>3. CASE \E c \in Starter :
               Start(c) \/ WaitForDaemonStart(c) \/ GiveUp(c) \/ RemoveLockfile(c)
    BY <1>2, <2>3, StarterKeepsPorts
  <2>4. CASE \E c \in Stopper : Stop(c) \/ SendTerm(c) \/ RemoveLockfile(c)
    BY <1>2, <2>4, StopperKeepsPorts
  <2>5. CASE UNCHANGED vars
    BY <1>2, <2>5 DEF PortInv, vars
  <2> QED BY <1>2, <2>1, <2>2, <2>3, <2>4, <2>5 DEF Next
<1> QED BY <1>1, <1>2, PTL DEF Spec

(* A daemon serves only while it holds the API port: its start binds the    *)
(* port before it starts the service, and gives it up only when the start   *)
(* has failed or the shutdown has begun (cli.ts, cmdStartForeground).       *)
THEOREM ServicesHoldThePort == Spec => []ServiceHoldsPort
<1>1. PortInv => ServiceHoldsPort
  BY DEF PortInv, ServiceHoldsPort, Serves
<1> QED BY <1>1, PortInvariance, PTL

(* At most one daemon serves, for any number of daemons and commands, any   *)
(* content of the pid file, and starts that fail or are overtaken by their  *)
(* shutdown (instance-guard.ts alone does not ensure it).                   *)
THEOREM AtMostOneServiceRuns == Spec => []OneServiceRuns
<1>1. ServiceHoldsPort => OneServiceRuns
  BY DEF ServiceHoldsPort, OneServiceRuns
<1> QED BY <1>1, ServicesHoldThePort, PTL

-----------------------------------------------------------------------------
(* What the serial use of the commands keeps: at most one daemon is alive,  *)
(* and one more that has yet to look at the file; from acquireLock to its   *)
(* end the file names a daemon; a command                                   *)
(* removes the file only when no daemon is alive; and while a start waits,  *)
(* only its own child is.                                                   *)
Commands == [Command -> CommandPc]
Locked == DaemonPc \ {"off", "checked", "wrote", "gone"}
Looks(d, e) == Starting(d) /\ dpc[e] \in Locked
SerialInv ==
  /\ dpc \in [Daemon -> DaemonPc] /\ cpc \in Commands /\ crowded \in BOOLEAN
  /\ ~crowded =>
       /\ \A d, e \in Daemon : Alive(d) /\ Alive(e) => d = e \/ Looks(d, e) \/ Looks(e, d)
       /\ \A d \in Daemon : dpc[d] \in Locked => file = d
       /\ \A c \in Command : cpc[c] = "read" => \A d \in Daemon : ~Alive(d)
       /\ \A c \in Starter : cpc[c] \in {"waiting", "gaveUp"} =>
            \A d \in Daemon : Alive(d) => d = ChildOf[c]

(* A daemon that leaves the file alone and comes no nearer to its service   *)
(* without having written it disturbs nothing.                              *)
LEMMA DaemonMovesOn ==
  ASSUME NEW d \in Daemon, SerialInv, Alive(d), NEW there \in DaemonPc,
         dpc' = [dpc EXCEPT ![d] = there], UNCHANGED <<cpc, crowded>>,
         file' = file \/ (there = "bot" /\ file' = d),
         there \in Locked => dpc[d] \in Locked \/ (dpc[d] = "wrote" /\ file' = d),
         there \notin {"off", "checked"},
         there = "wrote" => \A e \in Daemon : Alive(e) => e = d
  PROVE  SerialInv'
<1> USE DEF Alive, Locked, Looks, Starting
<1>1. CASE crowded
  BY <1>1 DEF SerialInv
<1>2. CASE ~crowded
  <2>1. \A e \in Daemon : dpc'[e] \in Locked => file' = e
    BY <1>2 DEF SerialInv
  <2>2. \A e, f \in Daemon : Alive(e)' /\ Alive(f)' => e = f \/ Looks(e, f)' \/ Looks(f, e)'
    BY <1>2 DEF SerialInv
  <2> QED BY <1>2, <2>1, <2>2 DEF SerialInv
<1> QED BY <1>1, <1>2 DEF SerialInv

LEMMA DaemonKeepsSerial ==
  ASSUME NEW d \in Daemon, TypeOK, SerialInv, Starts(d) \/ Ends(d) \/ Crash(d)
  PROVE  SerialInv'
<1> USE DEF DaemonPc, Locked, Alive
<1>1. CASE Check(d)
  (* A daemon that has written the file stops it. *)
  <2>1. CASE crowded
    BY <1>1, <2>1 DEF SerialInv, Check, Starting, Exits
  <2>2. CASE ~crowded /\ ~Alive(file)
    <3>1. \A e \in Daemon : Alive(e) => e = d
      BY <1>1, <2>2 DEF SerialInv, Check, Looks, Starting
    <3> QED BY <1>1, <2>2, <3>1, DaemonMovesOn DEF Check, Starting
  <2>3. CASE Alive(file)
    BY <1>1, <2>3, DaemonMovesOn DEF Check, Starting, Exits
  <2> QED BY <2>1, <2>2, <2>3
<1>2. CASE AcquireLock(d)
  BY <1>2, DaemonMovesOn DEF AcquireLock, At
<1>3. CASE StartApiServer(d)
  BY <1>3, DaemonMovesOn DEF StartApiServer, Catch, At
<1>4. CASE StartService(d)
  BY <1>4, DaemonMovesOn DEF StartService, Catch, At
<1>5. CASE FirstTick(d)
  BY <1>5, DaemonMovesOn DEF FirstTick, Catch, At
<1>6. CASE Shutdown(d)
  <2>1. dpc[d] \in Locked
    BY <1>6 DEF Shutdown, TypeOK
  <2> QED BY <1>6, <2>1, DaemonMovesOn DEF Shutdown
<1>7. CASE ServerClosed(d)
  <2>1. dpc[d] \in Locked
    BY <1>7 DEF ServerClosed, TypeOK
  <2> QED BY <1>7, <2>1, DaemonMovesOn DEF ServerClosed
<1>8. CASE ReleaseLock(d)
  <2>1. CASE dpc[d] = "releasing"
    BY <1>8, <2>1, DaemonMovesOn DEF ReleaseLock, At, Exits
  <2>2. CASE dpc[d] = "unlinking"
    (* The file may name another daemon by now, but then d is not alone. *)
    BY <1>8, <2>2 DEF ReleaseLock, At, Exits, SerialInv, Looks, Starting
  <2> QED BY <1>8, <2>1, <2>2 DEF ReleaseLock, At
<1>9. CASE Crash(d)
  BY <1>9, DaemonMovesOn DEF Crash, Exits
<1> QED BY <1>1, <1>2, <1>3, <1>4, <1>5, <1>6, <1>7, <1>8, <1>9 DEF Starts, Ends

(* A command that begins while nothing else is under way and finds no live  *)
(* pid in the file finds no live daemon at all.                             *)
LEMMA NoDaemonWithoutFile ==
  ASSUME SerialInv, ~crowded, ~Busy, ~Alive(file), NEW d \in Daemon
  PROVE  ~Alive(d)
BY DEF SerialInv, Busy, Alive, Locked, DaemonPc, Looks, Starting

LEMMA StartForegroundKeepsSerial ==
  ASSUME NEW d \in Daemon, SerialInv, StartForeground(d)
  PROVE  SerialInv'
<1> USE DEF DaemonPc, Alive, Locked
<1>1. /\ dpc' \in [Daemon -> DaemonPc] /\ cpc' = cpc /\ file' = file
      /\ crowded' \in BOOLEAN /\ cpc \in Commands
  BY DEF SerialInv, StartForeground, At
<1>2. ASSUME ~crowded'
      PROVE  /\ ~crowded
             /\ \A c \in Command : cpc[c] \in {"idle", "done"}
             /\ \A e \in Daemon : dpc[e] \in {"off", "ticking", "up", "gone"}
  BY <1>2 DEF StartForeground, SerialInv, Busy
<1>3. ASSUME ~crowded', NEW e \in Daemon, NEW f \in Daemon, Alive(e)', Alive(f)'
      PROVE  e = f \/ Looks(e, f)' \/ Looks(f, e)'
  BY <1>1, <1>2, <1>3 DEF SerialInv, StartForeground, At, Looks, Starting
<1>4. ASSUME ~crowded' PROVE \A e \in Daemon : dpc'[e] \in Locked => file' = e
  BY <1>1, <1>2, <1>4 DEF SerialInv, StartForeground, At
<1> QED BY <1>1, <1>2, <1>3, <1>4 DEF SerialInv, Command

LEMMA StarterKeepsSerial ==
  ASSUME NEW c \in Starter, SerialInv,
         Start(c) \/ WaitForDaemonStart(c) \/ GiveUp(c) \/ RemoveLockfile(c)
  PROVE  SerialInv'
<1> USE DEF Command, Commands, CommandPc
<1>1. CASE Start(c)
  <2>1. CASE Alive(file)
    BY <1>1, <2>1 DEF SerialInv, Start, Begins, Goes, Alive, Locked, Looks, Starting
  <2>2. CASE ~Alive(file)
    <3>1. /\ dpc' \in [Daemon -> DaemonPc] /\ cpc' \in Commands
          /\ crowded' \in BOOLEAN
      BY <1>1, <2>2, ChildOfAssumption DEF SerialInv, Start, Begins, Goes, At, DaemonPc
    <3>2. SUFFICES ASSUME ~crowded' PROVE
            /\ \A d, e \in Daemon :
                 Alive(d)' /\ Alive(e)' => d = e \/ Looks(d, e)' \/ Looks(e, d)'
            /\ \A d \in Daemon : dpc'[d] \in Locked => file' = d
            /\ \A x \in Command : cpc'[x] = "read" => \A d \in Daemon : ~Alive(d)'
            /\ \A x \in Starter : cpc'[x] \in {"waiting", "gaveUp"} =>
                 \A d \in Daemon : Alive(d)' => d = ChildOf[x]
      BY <3>1 DEF SerialInv
    <3>3. ~crowded /\ ~Busy
      BY <1>1, <3>2 DEF Start, Begins, SerialInv
    <3>4. \A d \in Daemon : ~Alive(d)
      BY <2>2, <3>3, NoDaemonWithoutFile
    <3>5. \A d \in Daemon : Alive(d)' => d = ChildOf[c] /\ dpc'[d] = "checked"
      BY <1>1, <2>2, <3>4, ChildOfAssumption DEF Start, At, Alive, SerialInv
    <3>6. \A x \in Command : x # c => cpc'[x] \in {"idle", "done"}
      BY <1>1, <2>2, <3>3 DEF Start, Goes, Busy, SerialInv
    <3>7. cpc'[c] = "waiting"
      BY <1>1, <2>2 DEF Start, Goes, SerialInv
    <3> QED BY <3>4, <3>5, <3>6, <3>7, <1>1 DEF Start, Alive, Locked
  <2> QED BY <2>1, <2>2
<1>2. CASE WaitForDaemonStart(c)
  BY <1>2 DEF SerialInv, WaitForDaemonStart, Goes, Alive, Locked, Looks, Starting
<1>3. CASE GiveUp(c)
  (* It goes on to remove the file only if its child, and so everyone, has  *)
  (* ended.                                                                 *)
  BY <1>3 DEF SerialInv, GiveUp, Goes, Alive, Locked, Looks, Starting
<1>4. CASE RemoveLockfile(c)
  BY <1>4 DEF SerialInv, RemoveLockfile, Goes, Alive, Locked, Looks, Starting
<1> QED BY <1>1, <1>2, <1>3, <1>4

LEMMA StopperKeepsSerial ==
  ASSUME NEW c \in Stopper, SerialInv, Stop(c) \/ SendTerm(c) \/ RemoveLockfile(c)
  PROVE  SerialInv'
<1> USE CommandAssumption DEF Command, Commands, CommandPc
<1>1. CASE Stop(c)
  <2>1. CASE ~Alive(file)
    <3>1. ASSUME ~crowded' PROVE \A d \in Daemon : ~Alive(d)
      BY <1>1, <2>1, <3>1, NoDaemonWithoutFile DEF Stop, Begins, SerialInv
    <3> QED BY <1>1, <2>1, <3>1 DEF SerialInv, Stop, Begins, Goes, Alive, Locked, Looks, Starting
  <2>2. CASE Alive(file)
    BY <1>1, <2>2 DEF SerialInv, Stop, Begins, Goes, Alive, Locked, Looks, Starting
  <2> QED BY <2>1, <2>2
<1>2. CASE SendTerm(c)
  <2>1. CASE Alive(seen[c]) /\ dpc[seen[c]] \in {"checked", "wrote"}
    BY <1>2, <2>1 DEF SerialInv, SendTerm, Goes, Exits, Alive, DaemonPc, Locked, Looks, Starting
  <2>2. CASE ~(Alive(seen[c]) /\ dpc[seen[c]] \in {"checked", "wrote"})
    BY <1>2, <2>2 DEF SerialInv, SendTerm, Goes, Alive, Locked, Looks, Starting
  <2> QED BY <2>1, <2>2
<1>3. CASE RemoveLockfile(c)
  BY <1>3 DEF SerialInv, RemoveLockfile, Goes, Alive, Locked, Looks, Starting
<1> QED BY <1>1, <1>2, <1>3

THEOREM SerialInvariance == Spec => []SerialInv
<1>1. Init => SerialInv
  BY DEF Init, SerialInv, Alive, Locked, DaemonPc, Commands, CommandPc
<1>2. ASSUME TypeOK, SerialInv, [Next]_vars PROVE SerialInv'
  <2>1. CASE \E d \in Daemon : Starts(d) \/ Ends(d) \/ Crash(d)
    BY <1>2, <2>1, DaemonKeepsSerial
  <2>5. CASE \E d \in Daemon : StartForeground(d)
    BY <1>2, <2>5, StartForegroundKeepsSerial
  <2>2. CASE \E c \in Starter :
               Start(c) \/ WaitForDaemonStart(c) \/ GiveUp(c) \/ RemoveLockfile(c)
    BY <1>2, <2>2, StarterKeepsSerial
  <2>3. CASE \E c \in Stopper : Stop(c) \/ SendTerm(c) \/ RemoveLockfile(c)
    BY <1>2, <2>3, StopperKeepsSerial
  <2>4. CASE UNCHANGED vars
    BY <1>2, <2>4 DEF SerialInv, Alive, Looks, Starting, vars
  <2> QED BY <1>2, <2>1, <2>2, <2>3, <2>4, <2>5 DEF Next
<1> QED BY <1>1, <1>2, LifecycleTypesHold, PTL DEF Spec

(* Commands that come one at a time find a running service by the pid file, *)
(* whatever crashes, failed starts and stops came before them: status, stop *)
(* and a second start read the right pid (cli.ts, cmdStart, stopScheduler). *)
THEOREM ServingDaemonsAreFindable == Spec => []ServingDaemonIsFindable
<1>1. PortInv /\ SerialInv => ServingDaemonIsFindable
  BY DEF PortInv, SerialInv, Locked, DaemonPc, ServingDaemonIsFindable
<1> QED BY <1>1, PortInvariance, SerialInvariance, PTL
=============================================================================
