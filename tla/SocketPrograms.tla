--------------------------- MODULE SocketPrograms ---------------------------
(***************************************************************************)
(* The two programs of 04_Socket/01_internet, one of which is run: a server *)
(* and its clients, started in any order.                                   *)
(***************************************************************************)
EXTENDS UptimeServer, FoobarServer

VARIABLE program

socketVars == <<hostVars, uptimeVars, foobarVars, program>>

SocketInit == /\ HostInit /\ UptimeInit /\ FoobarInit
              /\ program \in {"uptime", "foobar"}

SocketNext == /\ UNCHANGED program
              /\ \/ program = "uptime" /\ UptimeNext /\ UNCHANGED foobarVars
                 \/ program = "foobar" /\ FoobarNext /\ UNCHANGED uptimeVars

(* The processes run, the users of the foobar clients quit in the end.  No   *)
(* call need ever fail but one that cannot succeed.                         *)
ServerStep == \/ initserver \/ NoAddress
              \/ \E p \in Procs : \/ Accept(p) \/ Exit(p)
                                  \/ AcceptFails(p) /\ UNCHANGED faults
ServerRuns ==
  \/ ServerStep /\ UNCHANGED <<uptimeVars, foobarVars, program>>
  \/ /\ program = "uptime" /\ UNCHANGED <<foobarVars, program>>
     /\ \E p \in Procs : fork(p) \/ dup2(p) \/ execl(p) \/ uptime(p) \/ CloseClfd(p) \/ waitpid(p)
  \/ /\ program = "foobar" /\ UNCHANGED <<uptimeVars, program>>
     /\ \E c \in Clients : RecvPacket(c) \/ RecvShort(c) \/ RecvEOF(c)

ClientRuns(c) ==
  \/ connect_retry(c) /\ UNCHANGED <<faults, uptimeVars, foobarVars, program>>
  \/ program = "uptime" /\ print_uptime(c) /\ UNCHANGED <<faults, foobarVars, program>>
  \/ program = "foobar" /\ Quit(c) /\ UNCHANGED <<uptimeVars, program>>

SocketSpec == /\ SocketInit /\ [][SocketNext]_socketVars
              /\ WF_socketVars(ServerRuns)
              /\ \A c \in Clients : WF_socketVars(ClientRuns(c))
=============================================================================
