---------------------------- MODULE UptimeServer ----------------------------
(***************************************************************************)
(* 04_Socket/01_internet/uptime_server_client: for each connection serve     *)
(* forks a child that makes the connection its standard output and executes *)
(* uptime; the parent waits for it.  The client prints what it receives     *)
(* until the end of file.                                                   *)
(*                                                                          *)
(* The branch under "#if 0" is left out.  uptime itself, which writes its   *)
(* Text to descriptor 1 and ends, is external.                              *)
(***************************************************************************)
EXTENDS SocketHost

CONSTANT Text   \* how many pieces the output of uptime may arrive in

ASSUME UptimeAssumption == Text \in Nat \ {0}

VARIABLES data,       \* what uptime has written and the client not received
          got,        \* what the client has written
          unserved    \* history: the clients whose child could not execute uptime

uptimeVars == <<data, got, unserved>>

UptimeInit == /\ data = [c \in Clients |-> 0] /\ got = [c \in Clients |-> 0]
              /\ unserved = {}

Child(p) == p + 1

fork(p) ==
  /\ pc[p] = "accepted" /\ Child(p) \in Procs
  /\ pc' = [pc EXCEPT ![p] = "parent", ![Child(p)] = "child"]
  /\ fds' = [fds EXCEPT ![Child(p)] = fds[p]]
  /\ clfd' = [clfd EXCEPT ![Child(p)] = clfd[p]]
  /\ UNCHANGED <<fd, addresses, backlog, clients, faults, standard, failed, uptimeVars>>

(* serve returns to main, in the parent or, after dup2, in the child.       *)
ForkOrDupFails(p) ==
  /\ Go(p, "accepted", "exit") \/ Go(p, "child", "exit")
  /\ Fault
  /\ failed' = failed \cup {Connection(p)}
  /\ UNCHANGED <<fds, fd, clfd, addresses, backlog, clients, standard, uptimeVars>>

(* dup2 to STDOUT_FILENO and STDERR_FILENO, then the condition under which   *)
(* clfd is closed: it cannot equal both, so that it always is.              *)
dup2(p) ==
  /\ Go(p, "child", "exec")
  /\ LET c == Connection(p)
     IN  Replace([fds EXCEPT ![p] = [@ EXCEPT ![1] = c, ![2] = c, ![clfd[p]] =
                   IF clfd[p] # 1 \/ clfd[p] # 2 THEN "none" ELSE @]])
  /\ UNCHANGED <<fd, clfd, addresses, clients, faults, standard, uptimeVars>>

execl(p) == /\ Go(p, "exec", "uptime")
            /\ UNCHANGED <<fds, fd, clfd, addresses, backlog, clients, faults, standard,
                           failed, uptimeVars>>

(* When it cannot be executed the child goes round the loop of serve.       *)
ExeclFails(p) ==
  /\ Go(p, "exec", "accept")
  /\ Fault
  /\ failed' = failed \cup ({fds[p][1], fds[p][2]} \cap Clients)
  /\ unserved' = unserved \cup ({fds[p][1], fds[p][2]} \cap Clients)
  /\ UNCHANGED <<fds, fd, clfd, addresses, backlog, clients, standard, data, got>>

uptime(p) ==
  /\ Go(p, "uptime", "exit")
  /\ data' = [c \in Clients |-> IF fds[p][1] = c THEN data[c] + Text ELSE data[c]]
  /\ UNCHANGED <<fds, fd, clfd, addresses, backlog, clients, faults, standard, failed,
                 got, unserved>>

(* Seeded bug: the parent keeps the connection open.                        *)
CloseForgotten(p) ==
  /\ Go(p, "parent", "wait")
  /\ UNCHANGED <<fds, fd, clfd, addresses, backlog, clients, faults, standard, failed,
                 uptimeVars>>

CloseClfd(p) ==
  /\ Go(p, "parent", "wait")
  /\ Replace([fds EXCEPT ![p][clfd[p]] = "none"])
  /\ UNCHANGED <<fd, clfd, addresses, clients, faults, standard, uptimeVars>>

(* Seeded bug: the parent does not wait for its child.                      *)
NoWait(p) ==
  /\ Go(p, "wait", "accept")
  /\ UNCHANGED <<fds, fd, clfd, addresses, backlog, clients, faults, standard, failed,
                 uptimeVars>>

waitpid(p) ==
  /\ pc[p] = "wait" /\ pc[Child(p)] = "zombie"
  /\ pc' = [pc EXCEPT ![p] = "accept", ![Child(p)] = "none"]
  /\ UNCHANGED <<fds, fd, clfd, addresses, backlog, clients, faults, standard, failed,
                 uptimeVars>>

Process(p) == \/ fork(p) \/ ForkOrDupFails(p) \/ dup2(p) \/ execl(p) \/ ExeclFails(p)
              \/ uptime(p) \/ CloseClfd(p) \/ waitpid(p)
-----------------------------------------------------------------------------
(* Seeded bug: the client takes the first piece for all of it.              *)
ReceiveOnce(c) ==
  /\ Leave(c, "returned")
  /\ \/ \E n \in 1 .. data[c] : /\ data' = [data EXCEPT ![c] = @ - n]
                                /\ got' = [got EXCEPT ![c] = @ + n]
     \/ data[c] = 0 /\ ~Open(c) /\ UNCHANGED <<data, got>>
  /\ UNCHANGED <<server, attempts, faults, standard, failed, unserved>>

(* recv returns some of what there is, or 0 at the end of file.             *)
Receive(c) ==
  /\ client[c] = "connected"
  /\ \/ \E n \in 1 .. data[c] : /\ data' = [data EXCEPT ![c] = @ - n]
                                /\ got' = [got EXCEPT ![c] = @ + n]
                                /\ UNCHANGED client
     \/ /\ data[c] = 0 /\ ~Open(c)
        /\ Leave(c, "returned")
        /\ UNCHANGED <<data, got>>
  /\ UNCHANGED <<server, attempts, faults, standard, failed, unserved>>

(* recv fails at any time, which ends the loop like the end of file.        *)
RecvFails(c) ==
  /\ Leave(c, "returned")
  /\ Fault
  /\ failed' = failed \cup {c}
  /\ UNCHANGED <<server, attempts, standard, uptimeVars>>

(* The result of write is not looked at: a piece it cannot write is lost.    *)
WriteFails(c) ==
  /\ client[c] = "connected"
  /\ Fault
  /\ \E n \in 1 .. data[c] : data' = [data EXCEPT ![c] = @ - n]
  /\ failed' = failed \cup {c}
  /\ UNCHANGED <<server, clients, standard, got, unserved>>

print_uptime(c) == Receive(c) \/ RecvFails(c) \/ WriteFails(c)

UptimeNext == \/ Listen /\ UNCHANGED uptimeVars
              \/ \E p \in Procs : Process(p)
              \/ \E c \in Clients : \/ connect_retry(c) /\ UNCHANGED uptimeVars
                                    \/ print_uptime(c)
-----------------------------------------------------------------------------
UptimeTypeOK == /\ data \in [Clients -> 0..Text] /\ got \in [Clients -> 0..Text]
                /\ unserved \subseteq failed

(* However forks and execs fail, one process at a time serves connections:   *)
(* a child that took over the loop has a parent that waits for it.          *)
OneServer ==
  \A p, q \in Procs : pc[p] \in {"accept", "accepted"} /\ pc[q] \in {"accept", "accepted"} => p = q

(* A client that ends has printed the whole text, in whatever pieces it came, *)
(* unless a call failed on its own connection, in the server or in the       *)
(* client: no other process closes it, or ends it, at the wrong time.  A     *)
(* server whose standard output was closed at the start is not covered.     *)
AnswersAreWhole ==
  \A c \in Clients :
    client[c] = "returned" /\ c \notin failed /\ 1 \in standard => got[c] = Text

(* Every client ends, whatever fails, unless uptime could not be executed for *)
(* it: its connection is then the standard output of a server.              *)
ClientsReturn ==
  \A c \in Clients : <>(Ended(c) \/ c \in unserved)

(* uptime_service.c:66-67, "the CLOEXEC flag is cleared in latter twos. That  *)
(* means they will be opened after exec": uptime has its standard output.    *)
UptimeHasOutput == \A p \in Procs : pc[p] = "uptime" => fds[p][1] \in Clients
=============================================================================
