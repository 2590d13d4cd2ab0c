----------------------------- MODULE SocketHost -----------------------------
(***************************************************************************)
(* 04_Socket/01_internet: what the uptime and the foobar programs share     *)
(* line for line.  The server's main and initserver open a listening        *)
(* socket; serve accepts connections from it; the client's connect_retry    *)
(* connects, and tries again a few times when it cannot.                    *)
(*                                                                          *)
(* A process is a table of descriptors: a socket is open as long as some    *)
(* table holds it, which is what decides when its peer sees the end of      *)
(* file.  A connection bears the name of its client.                        *)
(*                                                                          *)
(* Every call that may fail does so nondeterministically; all but refused   *)
(* connections are counted as faults, of which there are MaxFaults.         *)
(***************************************************************************)
EXTENDS Integers, Sequences, SequencesExt

CONSTANTS Clients, QLEN,
          Attempts,    \* connect_retry: the powers of two up to MAXSLEEP
          Addresses,   \* bound: how many addresses getaddrinfo returns
          Standard,    \* the sets of standard descriptors a server starts with
          MaxFaults    \* bound: how many system calls fail

ASSUME SocketHostAssumption ==
  /\ Clients \cap {"none", "file", "unbound", "listener"} = {}
  /\ QLEN \in Nat /\ Attempts \in Nat \ {0} /\ Addresses \in Nat /\ MaxFaults \in Nat
  /\ Standard \subseteq SUBSET (0..2)

(* Every process has at most one child, its successor, and only a fault lets  *)
(* a child go on to have one of its own.                                    *)
Procs == 0 .. MaxFaults + 2
FDs == 0 .. Addresses + 5
Objects == Clients \cup {"none", "file", "unbound", "listener"}

VARIABLES pc, fds,       \* of each process: where it stands, its descriptors
          fd, clfd,      \* the listening socket, and each process's connection
          addresses,     \* the addresses main has still to try
          backlog,       \* the connections to be accepted
          client,        \* where each client stands
          attempts,      \* how often it may still try to connect
          faults,
          standard,      \* the standard descriptors the server started with
          failed         \* history: the clients whose connection met a fault

server == <<pc, fds, fd, clfd, addresses, backlog>>
clients == <<client, attempts>>
hostVars == <<server, clients, faults, standard, failed>>

NoFiles == [f \in FDs |-> "none"]

HostInit ==
  /\ standard \in Standard
  /\ fds = [p \in Procs |-> IF p # 0 THEN NoFiles ELSE
                            [f \in FDs |-> IF f \in standard THEN "file" ELSE "none"]]
  /\ pc = [p \in Procs |-> IF p = 0 THEN "start" ELSE "none"]
  /\ fd = 0 /\ clfd = [p \in Procs |-> 0]
  /\ addresses = Addresses
  /\ backlog = <<>>
  /\ client = [c \in Clients |-> "connecting"]
  /\ attempts = [c \in Clients |-> Attempts]
  /\ faults = 0 /\ failed = {}

Go(p, before, after) == pc[p] = before /\ pc' = [pc EXCEPT ![p] = after]
Fault == faults < MaxFaults /\ faults' = faults + 1

(* A new descriptor is the lowest that is free.                             *)
Lowest(p) == CHOOSE f \in FDs : /\ fds[p][f] = "none"
                                /\ \A g \in 0 .. f - 1 : fds[p][g] # "none"

Holds(files, object) == \E p \in Procs, f \in FDs : files[p][f] = object

Listening == Holds(fds, "listener")
Open(c) == Contains(backlog, c) \/ Holds(fds, c)

Connection(p) == fds[p][clfd[p]]

(* The tables become files.  With the last holder of the listening socket go *)
(* the connections nobody has accepted.                                     *)
Replace(files) ==
  /\ fds' = files
  /\ backlog' = IF Holds(files, "listener") THEN backlog ELSE <<>>
  /\ failed' = IF Holds(files, "listener") THEN failed ELSE failed \cup ToSet(backlog)
-----------------------------------------------------------------------------
(* main tries the addresses in turn.  initserver does not close the socket   *)
(* it could not bind.                                                       *)
NextAddress ==
  /\ pc[0] = "start" /\ addresses > 0
  /\ Fault
  /\ addresses' = addresses - 1
  /\ fds' \in {fds, [fds EXCEPT ![0][Lowest(0)] = "unbound"]}
  /\ UNCHANGED <<pc, fd, clfd, backlog, clients, standard, failed>>

initserver ==
  /\ Go(0, "start", "accept") /\ addresses > 0
  /\ fd' = Lowest(0)
  /\ fds' = [fds EXCEPT ![0][Lowest(0)] = "listener"]
  /\ UNCHANGED <<clfd, addresses, backlog, clients, faults, standard, failed>>

(* listen fails unnoticed, and serve is given a socket it cannot accept from. *)
ListenFails ==
  /\ Go(0, "start", "accept") /\ addresses > 0
  /\ Fault
  /\ fd' = Lowest(0)
  /\ fds' = [fds EXCEPT ![0][Lowest(0)] = "unbound"]
  /\ UNCHANGED <<clfd, addresses, backlog, clients, standard, failed>>

NoAddress == /\ Go(0, "start", "exit") /\ addresses = 0
             /\ UNCHANGED <<fds, fd, clfd, addresses, backlog, clients, faults, standard,
                            failed>>

Accept(p) ==
  /\ Go(p, "accept", "accepted")
  /\ fds[p][fd] = "listener" /\ backlog # <<>>
  /\ clfd' = [clfd EXCEPT ![p] = Lowest(p)]
  /\ fds' = [fds EXCEPT ![p][Lowest(p)] = Head(backlog)]
  /\ backlog' = Tail(backlog)
  /\ UNCHANGED <<fd, addresses, clients, faults, standard, failed>>

AcceptFails(p) ==
  /\ Go(p, "accept", "exit")
  /\ IF fds[p][fd] = "listener" THEN Fault ELSE UNCHANGED faults
  /\ UNCHANGED <<fds, fd, clfd, addresses, backlog, clients, standard, failed>>

(* serve has returned: exit closes what the process has open.               *)
Exit(p) == /\ Go(p, "exit", "zombie")
           /\ Replace([fds EXCEPT ![p] = NoFiles])
           /\ UNCHANGED <<fd, clfd, addresses, clients, faults, standard>>

Listen == \/ NextAddress \/ initserver \/ ListenFails \/ NoAddress
          \/ \E p \in Procs : Accept(p) \/ AcceptFails(p) \/ Exit(p)
-----------------------------------------------------------------------------
(* connect_retry, for the one address of the client's own host.  The attempt *)
(* fails at once when nobody listens, in the end when the queue stays full,  *)
(* and otherwise by a fault.  A socket that cannot be made ends it.         *)
Connect(c) ==
  /\ client[c] = "connecting"
  /\ Listening /\ Len(backlog) < QLEN
  /\ backlog' = Append(backlog, c)
  /\ client' = [client EXCEPT ![c] = "connected"]
  /\ UNCHANGED <<pc, fds, fd, clfd, addresses, attempts, faults, standard, failed>>

ConnectFails(c) ==
  /\ client[c] = "connecting"
  /\ IF Listening /\ Len(backlog) < QLEN THEN Fault ELSE UNCHANGED faults
  /\ attempts' = [attempts EXCEPT ![c] = @ - 1]
  /\ client' = [client EXCEPT ![c] = IF attempts[c] = 1 THEN "gave_up" ELSE @]
  /\ UNCHANGED <<server, standard, failed>>

SocketFails(c) ==
  /\ client[c] = "connecting"
  /\ Fault
  /\ client' = [client EXCEPT ![c] = "gave_up"]
  /\ UNCHANGED <<server, attempts, standard, failed>>

connect_retry(c) == Connect(c) \/ ConnectFails(c) \/ SocketFails(c)

(* The client's process ends, which closes its side of the connection.      *)
Leave(c, how) == client[c] = "connected" /\ client' = [client EXCEPT ![c] = how]
Ended(c) == client[c] \in {"returned", "quit", "gave_up"}
-----------------------------------------------------------------------------
HostTypeOK ==
  /\ pc \in [Procs -> {"none", "start", "accept", "accepted", "parent", "wait", "child",
                       "exec", "uptime", "exit", "zombie"}]
  /\ fds \in [Procs -> [FDs -> Objects]]
  /\ fd \in FDs /\ clfd \in [Procs -> FDs]
  /\ addresses \in 0..Addresses /\ faults \in 0..MaxFaults
  /\ backlog \in Seq(Clients) /\ Len(backlog) <= QLEN
  /\ client \in [Clients -> {"connecting", "connected", "gave_up", "returned", "quit"}]
  /\ attempts \in [Clients -> 0..Attempts]
  /\ standard \in Standard /\ failed \subseteq Clients
=============================================================================
