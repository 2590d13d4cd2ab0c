---------------------------- MODULE FoobarServer ----------------------------
(***************************************************************************)
(* 04_Socket/01_internet/foobar_server_client: the client sends a packet     *)
(* whenever its user asks for it, the server receives a buffer of the size  *)
(* of a packet and prints it, for one connection after the other.  The      *)
(* stream keeps no packet boundaries: recv returns at least one byte and at *)
(* most a buffer of what has come.                                          *)
(*                                                                          *)
(* BUFLEN is 2: a packet is a first and a second part.  What its members    *)
(* are is left out.                                                         *)
(***************************************************************************)
EXTENDS SocketHost

CONSTANT Packets   \* bound: how many packets a user sends

ASSUME FoobarAssumption == Packets \in Nat

VARIABLES stream,     \* what has been sent and not been received
          sent,       \* how many packets the client has sent whole
          printed,    \* the buffers the server has printed for each client
          split       \* history: the clients one of whose packets recv has split

foobarVars == <<stream, sent, printed, split>>

BUFLEN == 2
Packet(n) == [i \in 1 .. BUFLEN |-> <<n, i>>]

FoobarInit == /\ stream = [c \in Clients |-> <<>>] /\ sent = [c \in Clients |-> 0]
              /\ printed = [c \in Clients |-> <<>>] /\ split = {}

(* recv of n bytes in process 0, the only one.                              *)
Received(c, n) == stream' = [stream EXCEPT ![c] = SubSeq(@, n + 1, Len(@))]

PrintBuffer(c, buffer) == printed' = [printed EXCEPT ![c] = Append(@, buffer)]

CloseClient == /\ Go(0, "accepted", "accept")
               /\ Replace([fds EXCEPT ![0][clfd[0]] = "none"])
               /\ UNCHANGED <<fd, clfd, addresses, clients, standard>>

(* Seeded bug: the connection is closed after its first packet.             *)
RecvPacketOnce(c) ==
  /\ c = Connection(0) /\ Len(stream[c]) >= BUFLEN
  /\ Received(c, BUFLEN)
  /\ PrintBuffer(c, SubSeq(stream[c], 1, BUFLEN))
  /\ CloseClient /\ UNCHANGED <<faults, sent, split>>

RecvPacket(c) ==
  /\ pc[0] = "accepted" /\ c = Connection(0)
  /\ Len(stream[c]) >= BUFLEN
  /\ Received(c, BUFLEN)
  /\ PrintBuffer(c, SubSeq(stream[c], 1, BUFLEN))
  /\ UNCHANGED <<hostVars, sent, split>>

(* Seeded bug: a short buffer is printed as well, and the loop goes on.     *)
RecvShortGoesOn(c) ==
  /\ pc[0] = "accepted" /\ c = Connection(0)
  /\ stream[c] # <<>>
  /\ Received(c, 1) /\ PrintBuffer(c, SubSeq(stream[c], 1, 1))
  /\ UNCHANGED <<hostVars, sent, split>>

(* The loop ends with fewer bytes than asked for, and with it the connection. *)
RecvShort(c) ==
  /\ c = Connection(0) /\ stream[c] # <<>>
  /\ Received(c, 1)
  /\ split' = IF stream[c][1][1] <= sent[c] THEN split \cup {c} ELSE split
  /\ CloseClient /\ UNCHANGED <<faults, sent, printed>>

RecvEOF(c) ==
  /\ c = Connection(0) /\ stream[c] = <<>> /\ client[c] = "quit"
  /\ CloseClient /\ UNCHANGED <<faults, foobarVars>>

RecvError(c) ==
  /\ c = Connection(0)
  /\ Go(0, "accepted", "accept") /\ Fault
  /\ fds' = [fds EXCEPT ![0][clfd[0]] = "none"]
  /\ failed' = failed \cup {c}
  /\ UNCHANGED <<fd, clfd, addresses, backlog, clients, standard, foobarVars>>

serve(c) == RecvPacket(c) \/ RecvShort(c) \/ RecvEOF(c) \/ RecvError(c)
-----------------------------------------------------------------------------
(* Choice 1.  Until the client learns that the server has closed the         *)
(* connection what it sends is lost.                                        *)
Send(c) ==
  /\ client[c] = "connected" /\ sent[c] < Packets
  /\ sent' = [sent EXCEPT ![c] = @ + 1]
  /\ stream' = [stream EXCEPT ![c] = IF Open(c) THEN @ \o Packet(sent[c] + 1) ELSE @]
  /\ UNCHANGED <<hostVars, printed, split>>

(* send accepts a part of the packet, or fails: the program ends.           *)
SendShort(c) ==
  /\ Leave(c, "quit") /\ sent[c] < Packets
  /\ Fault
  /\ stream' = [stream EXCEPT ![c] = IF Open(c) THEN Append(@, <<sent[c] + 1, 1>>) ELSE @]
  /\ UNCHANGED <<server, attempts, standard, failed, sent, printed, split>>

SendRefused(c) == /\ Leave(c, "quit") /\ ~Open(c) /\ sent[c] < Packets
                  /\ UNCHANGED <<server, attempts, faults, standard, failed, foobarVars>>

(* Choice 0.                                                                *)
Quit(c) == /\ Leave(c, "quit")
           /\ UNCHANGED <<server, attempts, faults, standard, failed, foobarVars>>

interactive(c) == Send(c) \/ SendShort(c) \/ SendRefused(c) \/ Quit(c)

FoobarNext == \/ Listen /\ UNCHANGED foobarVars
              \/ \E c \in Clients : \/ connect_retry(c) /\ UNCHANGED foobarVars
                                    \/ serve(c) \/ interactive(c)
-----------------------------------------------------------------------------
FoobarTypeOK == /\ stream \in [Clients -> Seq((1..Packets) \X (1..BUFLEN))]
                /\ sent \in [Clients -> 0..Packets]
                /\ split \subseteq Clients
                /\ \A c \in Clients : Len(printed[c]) <= Packets

(* server.c:40, "recv is not guaranteed to receive all bytes!": the buffers   *)
(* printed for a client are all the same whole packets it sent, from the     *)
(* first one on and in their order, never parts of two.                     *)
PacketsArriveWhole == \A c \in Clients : \A n \in DOMAIN printed[c] : printed[c][n] = Packet(n)

(* A client that has left has all the packets it sent whole printed in the    *)
(* end, unless recv split one or its connection met a fault: waiting in the  *)
(* queue behind others, and a last packet sent in part, cost nothing.        *)
PacketsArePrinted ==
  \A c \in Clients :
    client[c] = "quit" ~> (Len(printed[c]) = sent[c] \/ c \in split \cup failed)
=============================================================================
