------------------------- MODULE SocketProgramsProofs -------------------------
(***************************************************************************)
(* One process at a time accepts connections, however many calls fail, and   *)
(* every connection is in one place at a time: in the queue of the listening *)
(* socket, or with the one process that serves it.  From that follows what   *)
(* the clients of the two programs receive.                                 *)
(***************************************************************************)
EXTENDS SocketPrograms, SequenceTheorems, WellFoundedInduction, TLAPS

Labels == {"none", "start", "accept", "accepted", "parent", "wait", "child", "exec",
           "uptime", "exit", "zombie"}

(* Every process before another one is a parent that waits, or is about to:  *)
(* a child is forked by the last process, and collected when it is the last.*)
Chain == \A p, q \in Procs : p < q /\ pc[q] # "none" => pc[p] \in {"parent", "wait"}

CInv == pc \in [Procs -> Labels] /\ Chain

(* How many descriptors a process may have open: there is always a free one. *)
Room(p) ==
  /\ pc[p] = "start" => \A f \in FDs : f > Addresses - addresses + 2 => fds[p][f] = "none"
  /\ pc[p] \in {"accept", "wait", "exec", "uptime"} =>
       \A f \in FDs : f > Addresses + 2 => fds[p][f] = "none"
  /\ pc[p] \in {"accepted", "parent", "child"} =>
       \A f \in FDs : f > Addresses + 2 /\ f # clfd[p] => fds[p][f] = "none"

(* A server started with a standard output keeps one, and accept never       *)
(* returns its descriptor.                                                  *)
Output(p) ==
  1 \in standard =>
    /\ pc[p] \notin {"none", "exit", "zombie"} => fds[p][1] # "none"
    /\ pc[p] \in {"accepted", "parent", "child"} => clfd[p] # 1

(* A connection nobody has accepted, one that a process serves.              *)
Waiting(c) == c \in ToSet(backlog)
Serves(p, c) == \/ pc[p] \in {"accepted", "child"} /\ Connection(p) = c
                \/ pc[p] \in {"exec", "uptime"} /\ fds[p][1] = c
Pending(c) == Waiting(c) \/ \E p \in Procs : Serves(p, c)

Places ==
  /\ IsInjective(backlog)
  /\ \A p \in Procs : pc[p] \in {"accepted", "child"} => Connection(p) \in Clients
  /\ \A c \in Clients, p \in Procs : Serves(p, c) => ~Waiting(c)
  /\ \A c \in Clients : client[c] = "connecting" => ~Pending(c) /\ attempts[c] > 0

Tables(p) == Room(p) /\ Output(p)

HInv == HostTypeOK /\ Chain /\ Places /\ \A p \in Procs : Tables(p)

(* The uptime client: nothing is written for a client whose connection is    *)
(* pending, and what is written is the whole text, of which a failing call   *)
(* may lose a part.                                                         *)
Fresh(c) == data[c] = 0 /\ got[c] = 0
Answer(c) ==
  /\ data[c] + got[c] <= Text
  /\ Pending(c) \/ client[c] = "connecting" => Fresh(c)
  /\ 1 \in standard /\ c \notin failed =>
       /\ client[c] = "connected" => Pending(c) \/ data[c] + got[c] = Text
       /\ client[c] = "returned" => got[c] = Text

UInv == UptimeTypeOK /\ \A c \in Clients : Answer(c)

(* The foobar client: the stream of a pending connection starts at the first *)
(* part of the packet after the last one printed, and its parts follow each  *)
(* other: part i belongs to packet k + (i + 1) \div 2, k being the number of *)
(* those printed.  Only the last packet of a client that has left is there   *)
(* in part.                                                                 *)
Whole(c) == \A n \in DOMAIN printed[c] : printed[c][n] = Packet(n)
Aligned(c) ==
  /\ \A i \in DOMAIN stream[c] :
       2 * (stream[c][i][1] - Len(printed[c])) + stream[c][i][2] = i + 2
  /\ \/ Len(stream[c]) = 2 * (sent[c] - Len(printed[c]))
     \/ /\ client[c] = "quit" /\ sent[c] < Packets
        /\ Len(stream[c]) = 2 * (sent[c] - Len(printed[c])) + 1
Stream(c) == /\ Whole(c) /\ Len(printed[c]) <= sent[c]
             /\ Pending(c) \/ client[c] = "connecting" => Aligned(c)
             /\ client[c] = "connecting" => sent[c] = 0

Buffers == [1 .. BUFLEN -> Nat \X Nat]

FInv == /\ FoobarTypeOK
        /\ printed \in [Clients -> Seq(Buffers)]
        /\ \A p \in Procs \ {0} : pc[p] = "none"
        /\ \A c \in Clients : Stream(c) /\ client[c] # "returned"

IInv == /\ HInv /\ program \in {"uptime", "foobar"}
        /\ program = "uptime" => FoobarInit /\ UInv
        /\ program = "foobar" => UptimeInit /\ FInv
-----------------------------------------------------------------------------
USE SocketHostAssumption

LEMMA InitCInv == SocketInit => CInv
BY DEF SocketInit, HostInit, CInv, Chain, Labels, Procs

(* Every step but fork and waitpid moves one process or none.               *)
LEMMA MoveKeepsCInv ==
  ASSUME CInv, NEW p \in Procs, NEW l \in Labels \ {"none"},
         pc[p] # "none", pc[p] \in {"parent", "wait"} => l \in {"parent", "wait"},
         pc' = [pc EXCEPT ![p] = l]
  PROVE  CInv'
BY DEF CInv, Chain, Procs

Moves == \E p \in Procs, l \in Labels \ {"none"} :
           /\ pc[p] # "none" /\ (pc[p] \in {"parent", "wait"} => l \in {"parent", "wait"})
           /\ pc' = [pc EXCEPT ![p] = l]

LEMMA ListenMoves == ASSUME Listen PROVE Moves \/ pc' = pc
<1>1. 0 \in Procs
  BY DEF Procs
<1> QED BY <1>1 DEF Listen, NextAddress, initserver, ListenFails, NoAddress, Accept,
                    AcceptFails, Exit, Go, Moves, Labels

LEMMA ForkKeepsCInv ==
  ASSUME CInv, NEW p \in Procs, fork(p)
  PROVE  CInv'
<1>1. p + 1 \in Procs /\ pc[p] = "accepted"
      /\ pc' = [pc EXCEPT ![p] = "parent", ![p + 1] = "child"]
  BY DEF fork, Child
<1>2. \A q \in Procs : p < q => pc[q] = "none"
  BY <1>1 DEF CInv, Chain
<1>3. ASSUME NEW a \in Procs, NEW b \in Procs, a < b, pc'[b] # "none"
      PROVE  pc'[a] \in {"parent", "wait"}
  <2>1. b <= p + 1
    BY <1>1, <1>2, <1>3 DEF CInv, Procs
  <2>2. CASE a = p
    BY <1>1, <2>2 DEF CInv, Procs
  <2>3. CASE a # p
    <3>1. a < p
      BY <1>3, <2>1, <2>3 DEF Procs
    <3>2. pc[a] \in {"parent", "wait"}
      BY <1>1, <3>1 DEF CInv, Chain
    <3> QED BY <1>1, <3>1, <3>2 DEF CInv, Procs
  <2> QED BY <2>2, <2>3
<1> QED BY <1>1, <1>3 DEF CInv, Chain, Labels

LEMMA WaitKeepsCInv ==
  ASSUME CInv, NEW p \in Procs, waitpid(p)
  PROVE  CInv'
<1>1. /\ pc[p] = "wait" /\ pc[p + 1] = "zombie"
      /\ pc' = [pc EXCEPT ![p] = "accept", ![p + 1] = "none"]
  BY DEF waitpid, Child
<1>2. ASSUME NEW q \in Procs, p + 1 < q PROVE pc[q] = "none"
  BY <1>1, <1>2 DEF CInv, Chain, Procs
<1>3. ASSUME NEW a \in Procs, NEW b \in Procs, a < b, pc'[b] # "none"
      PROVE  pc'[a] \in {"parent", "wait"}
  <2>1. b <= p
    BY <1>1, <1>2, <1>3 DEF CInv, Procs
  <2>2. pc[a] \in {"parent", "wait"} /\ a < p
    BY <1>1, <1>3, <2>1 DEF CInv, Chain, Procs
  <2> QED BY <1>1, <2>2 DEF CInv, Procs
<1> QED BY <1>1, <1>3 DEF CInv, Chain, Labels

LEMMA UptimeKeepsCInv ==
  ASSUME CInv, UptimeNext
  PROVE  CInv' \/ Moves \/ pc' = pc
<1>1. CASE Listen
  BY <1>1, ListenMoves
<1>2. ASSUME NEW p \in Procs, Process(p) PROVE CInv' \/ Moves \/ pc' = pc
  <2>1. CASE fork(p) \/ waitpid(p)
    BY <2>1, ForkKeepsCInv, WaitKeepsCInv
  <2>2. CASE ForkOrDupFails(p) \/ dup2(p) \/ execl(p) \/ ExeclFails(p) \/ uptime(p)
               \/ CloseClfd(p)
    BY <2>2 DEF ForkOrDupFails, dup2, execl, ExeclFails, uptime, CloseClfd, Go, Moves, Labels
  <2> QED BY <1>2, <2>1, <2>2 DEF Process
<1>3. ASSUME NEW c \in Clients, connect_retry(c) \/ print_uptime(c) PROVE pc' = pc
  BY <1>3 DEF connect_retry, Connect, ConnectFails, SocketFails, print_uptime, Receive, RecvFails,
              WriteFails, server
<1> QED BY <1>1, <1>2, <1>3 DEF UptimeNext

LEMMA FoobarMoves ==
  ASSUME FoobarNext
  PROVE  Moves \/ pc' = pc
<1>1. 0 \in Procs
  BY DEF Procs
<1>2. CASE Listen
  BY <1>2, ListenMoves
<1>3. ASSUME NEW c \in Clients, connect_retry(c) PROVE pc' = pc
  BY <1>3 DEF connect_retry, Connect, ConnectFails, SocketFails, server
<1>4. ASSUME NEW c \in Clients, serve(c) PROVE Moves \/ pc' = pc
  BY <1>1, <1>4 DEF serve, RecvPacket, RecvShort, RecvEOF, RecvError, CloseClient, Go, Moves,
                    Labels, hostVars, server
<1>5. ASSUME NEW c \in Clients, interactive(c) PROVE pc' = pc
  BY <1>5 DEF interactive, Send, SendShort, SendRefused, Quit, hostVars, server
<1> QED BY <1>2, <1>3, <1>4, <1>5 DEF FoobarNext

LEMMA StepCInv == CInv /\ [SocketNext]_socketVars => CInv'
<1> SUFFICES ASSUME CInv, [SocketNext]_socketVars PROVE CInv'
  OBVIOUS
<1>1. CASE Moves
  BY <1>1, MoveKeepsCInv DEF Moves
<1>2. CASE pc' = pc
  BY <1>2 DEF CInv, Chain
<1>3. CASE SocketNext
  BY <1>1, <1>2, <1>3, UptimeKeepsCInv, FoobarMoves DEF SocketNext
<1>4. CASE UNCHANGED socketVars
  BY <1>2, <1>4 DEF socketVars, hostVars, server
<1> QED BY <1>3, <1>4
-----------------------------------------------------------------------------
(* The processes other than those of S are as they were.                    *)
Others(S) ==
  /\ standard' = standard
  /\ \A q \in Procs \ S : /\ pc'[q] = pc[q] /\ fds'[q] = fds[q] /\ clfd'[q] = clfd[q]
                          /\ addresses' = addresses \/ pc[q] # "start"

(* What a step of the processes S does to the connections: none becomes      *)
(* pending, one accepted is no longer in the queue, and one that leaves the  *)
(* queue has been accepted or was lost in a fault.                          *)
Orderly(S) ==
  /\ HostTypeOK' /\ Others(S) /\ UNCHANGED clients
  /\ failed \subseteq failed'
  /\ IsInjective(backlog')
  /\ \A c \in Clients :
       /\ Waiting(c)' => Waiting(c)
       /\ Waiting(c) => Waiting(c)' \/ c \in failed' \/ \E p \in S : Serves(p, c)'
  /\ \A p \in S :
       /\ Tables(p)'
       /\ pc'[p] \in {"accepted", "child"} => Connection(p)' \in Clients
       /\ \A c \in Clients : Serves(p, c)' => Pending(c) /\ ~Waiting(c)'

(* None of S drops a connection without a fault.                            *)
HandsOn(S) ==
  \A p \in S, c \in Clients :
    Serves(p, c) => c \in failed' \/ 1 \notin standard \/ \E r \in S : Serves(r, c)'

LEMMA OthersKept ==
  ASSUME NEW S, Others(S), NEW q \in Procs \ S
  PROVE  /\ Tables(q) => Tables(q)'
         /\ \A c : Serves(q, c)' <=> Serves(q, c)
         /\ pc'[q] \in {"accepted", "child"} =>
              pc[q] \in {"accepted", "child"} /\ Connection(q)' = Connection(q)
BY DEF Others, Tables, Room, Output, Serves, Connection

LEMMA OrderlyKeepsHInv ==
  ASSUME HInv, CInv', NEW S \in SUBSET Procs, Orderly(S)
  PROVE  HInv' /\ \A c \in Clients : Pending(c)' => Pending(c)
<1>1. Others(S) /\ client' = client /\ attempts' = attempts
  BY DEF Orderly, clients
<1>2. ASSUME NEW p \in Procs PROVE Tables(p)'
  BY <1>1, OthersKept DEF Orderly, HInv
<1>3. ASSUME NEW p \in Procs, NEW c \in Clients, Serves(p, c)'
      PROVE  Pending(c) /\ ~Waiting(c)'
  <2>1. CASE p \in S
    BY <1>3, <2>1 DEF Orderly
  <2>2. CASE p \notin S
    <3>1. Serves(p, c)
      BY <1>1, <1>3, <2>2, OthersKept
    <3>2. ~Waiting(c)
      BY <3>1 DEF HInv, Places
    <3> QED BY <3>1, <3>2 DEF Orderly, Pending
  <2> QED BY <2>1, <2>2
<1>4. ASSUME NEW c \in Clients, Pending(c)' PROVE Pending(c)
  <2>1. Waiting(c)' \/ \E p \in Procs : Serves(p, c)'
    BY <1>4 DEF Pending
  <2> QED BY <1>3, <2>1 DEF Orderly, Pending
<1>5. ASSUME NEW p \in Procs, pc'[p] \in {"accepted", "child"} PROVE Connection(p)' \in Clients
  BY <1>1, <1>5, OthersKept DEF Orderly, HInv, Places
<1>6. ASSUME NEW c \in Clients, client'[c] = "connecting" PROVE ~Pending(c)' /\ attempts'[c] > 0
  BY <1>1, <1>4, <1>6 DEF HInv, Places
<1>7. Places'
  BY <1>3, <1>5, <1>6 DEF Places, Orderly
<1> QED BY <1>2, <1>4, <1>7 DEF HInv, Orderly, CInv

(* A connection stays pending but for a fault.                              *)
LEMMA OrderlyKeepsPending ==
  ASSUME NEW S \in SUBSET Procs, Orderly(S), HandsOn(S), NEW c \in Clients, Pending(c)
  PROVE  Pending(c)' \/ c \in failed' \/ 1 \notin standard
<1>1. CASE Waiting(c)
  BY <1>1 DEF Orderly, Pending
<1>2. ASSUME NEW p \in Procs, Serves(p, c)
      PROVE  Pending(c)' \/ c \in failed' \/ 1 \notin standard
  <2>1. CASE p \in S
    BY <1>2, <2>1 DEF HandsOn, Pending
  <2>2. CASE p \notin S
    BY <1>2, <2>2, OthersKept DEF Orderly, Pending
  <2> QED BY <2>1, <2>2
<1> QED BY <1>1, <1>2 DEF Pending
-----------------------------------------------------------------------------
(* Descriptors.                                                             *)
LEMMA Names ==
  /\ 0 \in Procs /\ 0 \in FDs /\ 1 \in FDs /\ 2 \in FDs /\ Addresses + 3 \in FDs
  /\ FDs \subseteq Nat /\ Procs \subseteq Nat
  /\ Clients \subseteq Objects /\ {"none", "file", "unbound", "listener"} \subseteq Objects
  /\ \A c \in Clients : c \notin {"none", "file", "unbound", "listener"}
BY DEF Procs, FDs, Objects

LEMMA Replaced ==
  ASSUME HostTypeOK, Places, NEW files, Replace(files)
  PROVE  /\ fds' = files /\ backlog' \in Seq(Clients) /\ Len(backlog') <= QLEN
         /\ IsInjective(backlog') /\ failed \subseteq failed' /\ failed' \subseteq Clients
         /\ \A c \in Clients : /\ Waiting(c)' => Waiting(c)
                               /\ Waiting(c) => Waiting(c)' \/ c \in failed'
<1>1. backlog \in Seq(Clients) /\ Len(backlog) <= QLEN /\ failed \subseteq Clients
      /\ IsInjective(backlog)
  BY DEF HostTypeOK, Places
<1>2. ToSet(backlog) \subseteq Clients
  BY <1>1 DEF ToSet
<1>3. <<>> \in Seq(Clients) /\ Len(<<>>) = 0 /\ IsInjective(<<>>) /\ ToSet(<<>>) = {}
  BY EmptySeq DEF IsInjective, ToSet
<1>4. CASE backlog' = backlog /\ failed' = failed
  BY <1>1, <1>4 DEF Replace, Waiting
<1>5. CASE backlog' = <<>> /\ failed' = failed \cup ToSet(backlog)
  BY <1>1, <1>2, <1>3, <1>5 DEF Replace, Waiting
<1> QED BY <1>4, <1>5 DEF Replace

LEMMA LeastOf ==
  ASSUME NEW T \in SUBSET Nat, T # {}
  PROVE  \E x \in T : \A y \in T : x <= y
<1>1. IsWellFoundedOn({ss \in Nat \X Nat : ss[1] < ss[2]}, Nat)
  BY NatLessThanWellFounded DEF OpToRel
<1>2. PICK x \in T : \A y \in T : <<y, x>> \notin {ss \in Nat \X Nat : ss[1] < ss[2]}
  BY <1>1, WFMin
<1>3. ASSUME NEW y \in T PROVE x <= y
  <2>1. ~(y < x)
    BY <1>2
  <2> QED BY <2>1
<1> QED BY <1>3

LEMMA LowestIsFree ==
  ASSUME NEW p \in Procs, NEW g \in FDs, fds[p][g] = "none"
  PROVE  Lowest(p) \in FDs /\ fds[p][Lowest(p)] = "none" /\ Lowest(p) <= g
<1> DEFINE T == {f \in FDs : fds[p][f] = "none"}
<1>1. T \in SUBSET Nat /\ g \in T
  BY DEF FDs
<1>2. PICK f \in T : \A h \in T : f <= h
  BY <1>1, LeastOf
<1>3. \A h \in 0 .. f - 1 : h \in FDs /\ h < f
  BY <1>1, <1>2 DEF FDs
<1>4. f \in FDs /\ fds[p][f] = "none" /\ \A h \in 0 .. f - 1 : fds[p][h] # "none"
  BY <1>1, <1>2, <1>3
<1>5. /\ Lowest(p) \in FDs /\ fds[p][Lowest(p)] = "none"
      /\ \A h \in 0 .. Lowest(p) - 1 : fds[p][h] # "none"
  BY <1>4 DEF Lowest
<1>6. Lowest(p) <= g
  BY <1>5 DEF FDs
<1> QED BY <1>5, <1>6

LEMMA HeadAndTail ==
  ASSUME NEW s \in Seq(Clients), s # <<>>, IsInjective(s)
  PROVE  /\ Head(s) \in Clients /\ Head(s) \in ToSet(s)
         /\ Tail(s) \in Seq(Clients) /\ IsInjective(Tail(s))
         /\ ToSet(Tail(s)) = ToSet(s) \ {Head(s)}
         /\ Len(Tail(s)) = Len(s) - 1
<1>1. /\ Head(s) = s[1] /\ 1 \in DOMAIN s /\ Len(s) \in Nat \ {0}
      /\ \A i \in DOMAIN s : s[i] \in Clients
      /\ Tail(s) \in Seq(Clients) /\ Len(Tail(s)) = Len(s) - 1
      /\ DOMAIN Tail(s) = 1..(Len(s) - 1)
      /\ \A i \in 1..(Len(s) - 1) : Tail(s)[i] = s[i + 1]
  BY HeadTailProperties
<1>2. IsInjective(Tail(s))
  <2> SUFFICES ASSUME NEW i \in DOMAIN Tail(s), NEW j \in DOMAIN Tail(s), Tail(s)[i] = Tail(s)[j]
               PROVE  i = j
    BY DEF IsInjective
  <2>1. i + 1 \in DOMAIN s /\ j + 1 \in DOMAIN s /\ s[i + 1] = s[j + 1]
    BY <1>1
  <2>2. i + 1 = j + 1
    BY <2>1 DEF IsInjective
  <2> QED BY <1>1, <2>2
<1>3. ASSUME NEW x PROVE x \in ToSet(Tail(s)) <=> x \in ToSet(s) /\ x # Head(s)
  <2>1. ASSUME x \in ToSet(Tail(s)) PROVE x \in ToSet(s) /\ x # Head(s)
    <3>1. PICK i \in 1..(Len(s) - 1) : x = s[i + 1]
      BY <1>1, <2>1 DEF ToSet
    <3>2. i + 1 \in DOMAIN s /\ i + 1 # 1
      BY <1>1
    <3> QED BY <1>1, <3>1, <3>2 DEF IsInjective, ToSet
  <2>2. ASSUME x \in ToSet(s), x # Head(s) PROVE x \in ToSet(Tail(s))
    <3>1. PICK i \in DOMAIN s : x = s[i]
      BY <2>2 DEF ToSet
    <3>2. i - 1 \in 1..(Len(s) - 1) /\ (i - 1) + 1 = i
      BY <1>1, <2>2, <3>1
    <3> QED BY <1>1, <3>1, <3>2 DEF ToSet
  <2> QED BY <2>1, <2>2
<1>4. Head(s) \in ToSet(s) /\ Head(s) \in Clients
  BY <1>1 DEF ToSet
<1> QED BY <1>1, <1>2, <1>3, <1>4

LEMMA AppendOne ==
  ASSUME NEW s \in Seq(Clients), IsInjective(s), NEW w \in Clients, w \notin ToSet(s)
  PROVE  /\ Append(s, w) \in Seq(Clients) /\ Append(s, w) # <<>>
         /\ IsInjective(Append(s, w))
         /\ ToSet(Append(s, w)) = ToSet(s) \cup {w}
         /\ Len(Append(s, w)) = Len(s) + 1
<1>1. /\ Append(s, w) \in Seq(Clients) /\ Append(s, w) # <<>>
      /\ Len(Append(s, w)) = Len(s) + 1 /\ Len(s) \in Nat
      /\ DOMAIN s = 1..Len(s) /\ DOMAIN Append(s, w) = 1..(Len(s) + 1)
      /\ \A i \in 1..Len(s) : Append(s, w)[i] = s[i]
      /\ Append(s, w)[Len(s) + 1] = w
  BY AppendProperties
<1>2. \A i \in 1..Len(s) : s[i] # w
  BY <1>1 DEF ToSet
<1>3. IsInjective(Append(s, w))
  <2> SUFFICES ASSUME NEW i \in 1..(Len(s) + 1), NEW j \in 1..(Len(s) + 1),
                      Append(s, w)[i] = Append(s, w)[j]
               PROVE  i = j
    BY <1>1 DEF IsInjective
  <2>1. CASE i \in 1..Len(s) /\ j \in 1..Len(s)
    BY <1>1, <2>1 DEF IsInjective
  <2>2. CASE i = Len(s) + 1 \/ j = Len(s) + 1
    BY <1>1, <1>2, <2>2
  <2> QED BY <1>1, <2>1, <2>2
<1>4. ToSet(Append(s, w)) = ToSet(s) \cup {w}
  <2>1. ASSUME NEW x PROVE x \in ToSet(Append(s, w)) <=> x \in ToSet(s) \/ x = w
    <3>1. ASSUME x \in ToSet(Append(s, w)) PROVE x \in ToSet(s) \/ x = w
      <4>1. PICK i \in 1..(Len(s) + 1) : x = Append(s, w)[i]
        BY <1>1, <3>1 DEF ToSet
      <4>2. i \in 1..Len(s) \/ i = Len(s) + 1
        BY <1>1
      <4> QED BY <1>1, <4>1, <4>2 DEF ToSet
    <3>2. ASSUME x \in ToSet(s) \/ x = w PROVE x \in ToSet(Append(s, w))
      <4>1. CASE x \in ToSet(s)
        <5>1. PICK i \in 1..Len(s) : x = s[i]
          BY <1>1, <4>1 DEF ToSet
        <5>2. i \in 1..(Len(s) + 1)
          BY <1>1
        <5> QED BY <1>1, <5>1, <5>2 DEF ToSet
      <4>2. CASE x = w
        <5>1. Len(s) + 1 \in 1..(Len(s) + 1)
          BY <1>1
        <5> QED BY <1>1, <4>2, <5>1 DEF ToSet
      <4> QED BY <3>2, <4>1, <4>2
    <3> QED BY <3>1, <3>2
  <2> QED BY <2>1
<1> QED BY <1>1, <1>3, <1>4

-----------------------------------------------------------------------------
(* The server's own steps are orderly: main, initserver and serve.           *)
LEMMA Waits ==
  ASSUME HostTypeOK, Places, UNCHANGED <<backlog, failed>>
  PROVE  /\ backlog' \in Seq(Clients) /\ Len(backlog') <= QLEN
         /\ IsInjective(backlog') /\ failed \subseteq failed' /\ failed' \subseteq Clients
         /\ \A c \in Clients : Waiting(c)' <=> Waiting(c)
BY DEF HostTypeOK, Places, Waiting

(* A process that opens no connection.                                      *)
LEMMA NextAddressOrderly ==
  ASSUME HInv, NextAddress
  PROVE  Orderly({0})
<1>1. HostTypeOK /\ Places /\ Chain /\ Room(0) /\ Output(0) /\ pc[0] = "start"
      /\ addresses \in 1..Addresses /\ Addresses \in Nat
  BY Names DEF HInv, Tables, NextAddress, HostTypeOK
<1>2. PICK f : f = Lowest(0)
  OBVIOUS
<1>3. f \in FDs /\ fds[0][f] = "none" /\ f <= Addresses - addresses + 3
  <2>1. Addresses - addresses + 3 \in FDs
    BY <1>1 DEF FDs
  <2>2. fds[0][Addresses - addresses + 3] = "none"
    BY <1>1, <2>1 DEF Room, FDs
  <2> QED BY <1>2, <2>1, <2>2, Names, LowestIsFree
<1>4. \A q \in Procs \ {0} : pc[q] = "none"
  BY <1>1, Names DEF Chain, Procs
<1>5. /\ UNCHANGED <<pc, fd, clfd, backlog, client, attempts, standard, failed>>
      /\ addresses' = addresses - 1 /\ faults' \in 0..MaxFaults
      /\ fds' = fds \/ fds' = [fds EXCEPT ![0][f] = "unbound"]
  BY <1>1, <1>2 DEF NextAddress, clients, Fault, HostTypeOK
<1>6. /\ fds' \in [Procs -> [FDs -> Objects]]
      /\ \A q \in Procs \ {0} : fds'[q] = fds[q]
      /\ \A g \in FDs : fds'[0][g] = fds[0][g] \/ (g = f /\ fds'[0][g] = "unbound")
  BY <1>1, <1>3, <1>5, Names DEF HostTypeOK
<1>7. HostTypeOK'
  BY <1>1, <1>5, <1>6 DEF HostTypeOK
<1>8. Tables(0)'
  BY <1>1, <1>3, <1>5, <1>6, Names DEF Tables, Room, Output, HostTypeOK, FDs
<1>9. Others({0}) /\ \A c : ~Serves(0, c)'
  BY <1>1, <1>4, <1>5, <1>6 DEF Others, Serves
<1> QED BY <1>1, <1>5, <1>7, <1>8, <1>9, Waits DEF Orderly, clients

LEMMA InitserverOrderly ==
  ASSUME HInv, initserver \/ ListenFails
  PROVE  Orderly({0})
<1>1. HostTypeOK /\ Places /\ Room(0) /\ Output(0) /\ pc[0] = "start"
      /\ addresses \in 1..Addresses /\ Addresses \in Nat
  BY Names DEF HInv, Tables, initserver, ListenFails, Go, HostTypeOK
<1>2. PICK f : f = Lowest(0)
  OBVIOUS
<1>3. f \in FDs /\ fds[0][f] = "none" /\ f <= Addresses - addresses + 3
  <2>1. Addresses - addresses + 3 \in FDs
    BY <1>1 DEF FDs
  <2>2. fds[0][Addresses - addresses + 3] = "none"
    BY <1>1, <2>1 DEF Room, FDs
  <2> QED BY <1>2, <2>1, <2>2, Names, LowestIsFree
<1>4. PICK object \in {"listener", "unbound"} : fds' = [fds EXCEPT ![0][f] = object]
  BY <1>2 DEF initserver, ListenFails
<1>5. /\ UNCHANGED <<addresses, clfd, backlog, client, attempts, standard, failed>>
      /\ pc' = [pc EXCEPT ![0] = "accept"] /\ fd' = f /\ faults' \in 0..MaxFaults
  BY <1>1, <1>2 DEF initserver, ListenFails, Fault, Go, clients, HostTypeOK
<1>6. /\ object \in Objects
      /\ fds' \in [Procs -> [FDs -> Objects]]
      /\ \A q \in Procs \ {0} : fds'[q] = fds[q] /\ pc'[q] = pc[q]
      /\ \A g \in FDs : fds'[0][g] = fds[0][g] \/ (g = f /\ fds'[0][g] = object)
      /\ pc'[0] = "accept"
  BY <1>1, <1>3, <1>4, <1>5, Names DEF HostTypeOK
<1>7. HostTypeOK'
  BY <1>1, <1>3, <1>5, <1>6, Names DEF HostTypeOK
<1>8. Tables(0)'
  <2>1. Room(0)'
    BY <1>1, <1>3, <1>5, <1>6, Names DEF Room, FDs
  <2>2. Output(0)'
    BY <1>1, <1>4, <1>5, <1>6, Names DEF Output
  <2> QED BY <2>1, <2>2 DEF Tables
<1>9. Others({0}) /\ \A c : ~Serves(0, c)'
  BY <1>1, <1>5, <1>6 DEF Others, Serves
<1> QED BY <1>1, <1>5, <1>6, <1>7, <1>8, <1>9, Waits DEF Orderly, clients

LEMMA NoAddressOrderly ==
  ASSUME HInv, NoAddress
  PROVE  Orderly({0})
<1>1. HostTypeOK /\ Places /\ Output(0)
  BY Names DEF HInv, Tables
<1>2. /\ UNCHANGED <<fds, fd, addresses, clfd, backlog, client, attempts, faults, standard, failed>>
      /\ pc[0] = "start" /\ pc' = [pc EXCEPT ![0] = "exit"]
  BY DEF NoAddress, Go, clients
<1>3. pc'[0] = "exit" /\ \A q \in Procs \ {0} : pc'[q] = pc[q]
  BY <1>1, <1>2, Names DEF HostTypeOK
<1>4. HostTypeOK'
  BY <1>1, <1>2 DEF HostTypeOK
<1>5. Tables(0)' /\ Others({0}) /\ \A c : ~Serves(0, c)'
  BY <1>1, <1>2, <1>3 DEF Tables, Room, Output, Others, Serves
<1> QED BY <1>1, <1>2, <1>3, <1>4, <1>5, Waits DEF Orderly, clients

LEMMA AcceptOrderly ==
  ASSUME HInv, NEW p \in Procs, Accept(p)
  PROVE  Orderly({p}) /\ HandsOn({p})
<1>1. HostTypeOK /\ Places /\ Room(p) /\ Output(p) /\ pc[p] = "accept" /\ Addresses \in Nat
      /\ backlog \in Seq(Clients) /\ backlog # <<>> /\ IsInjective(backlog)
  BY DEF HInv, Tables, Accept, Go, HostTypeOK, Places
<1>2. PICK f : f = Lowest(p)
  OBVIOUS
<1>3. f \in FDs /\ fds[p][f] = "none"
  <2>1. fds[p][Addresses + 3] = "none"
    BY <1>1, Names DEF Room
  <2> QED BY <1>2, <2>1, Names, LowestIsFree
<1>4. PICK b : b = Head(backlog)
  OBVIOUS
<1>5. /\ b \in Clients /\ b \in ToSet(backlog)
      /\ Tail(backlog) \in Seq(Clients) /\ IsInjective(Tail(backlog))
      /\ ToSet(Tail(backlog)) = ToSet(backlog) \ {b}
      /\ Len(Tail(backlog)) = Len(backlog) - 1
  BY <1>1, <1>4, HeadAndTail
<1>6. /\ UNCHANGED <<addresses, fd, client, attempts, faults, standard, failed>>
      /\ pc' = [pc EXCEPT ![p] = "accepted"] /\ clfd' = [clfd EXCEPT ![p] = f]
      /\ fds' = [fds EXCEPT ![p][f] = b] /\ backlog' = Tail(backlog)
  BY <1>2, <1>4 DEF Accept, Go, clients
<1>7. /\ fds' \in [Procs -> [FDs -> Objects]] /\ clfd' \in [Procs -> FDs]
      /\ \A q \in Procs \ {p} : fds'[q] = fds[q] /\ pc'[q] = pc[q] /\ clfd'[q] = clfd[q]
      /\ \A g \in FDs \ {f} : fds'[p][g] = fds[p][g]
      /\ pc'[p] = "accepted" /\ clfd'[p] = f /\ fds'[p][f] = b
  BY <1>1, <1>3, <1>5, <1>6, Names DEF HostTypeOK
<1>8. HostTypeOK'
  <2>1. Len(Tail(backlog)) <= QLEN
    BY <1>1, <1>5, LenProperties DEF HostTypeOK
  <2> QED BY <1>1, <1>5, <1>6, <1>7, <2>1 DEF HostTypeOK
<1>9. Tables(p)'
  BY <1>1, <1>3, <1>5, <1>6, <1>7, Names DEF Tables, Room, Output
<1>10. Others({p}) /\ (\A c : Serves(p, c)' <=> c = b) /\ (\A c : ~Serves(p, c))
  BY <1>1, <1>6, <1>7 DEF Others, Serves, Connection
<1>11. Connection(p)' \in Clients
  BY <1>5, <1>7 DEF Connection
<1>12. \A c \in Clients : (Waiting(c)' <=> Waiting(c) /\ c # b) /\ Waiting(b)
  BY <1>5, <1>6 DEF Waiting
<1> QED BY <1>5, <1>6, <1>8, <1>9, <1>10, <1>11, <1>12 DEF Orderly, HandsOn, Pending, clients

LEMMA AcceptFailsOrderly ==
  ASSUME HInv, NEW p \in Procs, AcceptFails(p)
  PROVE  Orderly({p}) /\ HandsOn({p})
<1>1. HostTypeOK /\ Places /\ pc[p] = "accept"
  BY DEF HInv, AcceptFails, Go
<1>2. /\ UNCHANGED <<fds, fd, addresses, clfd, backlog, client, attempts, standard, failed>>
      /\ pc' = [pc EXCEPT ![p] = "exit"] /\ faults' \in 0..MaxFaults
  BY <1>1 DEF AcceptFails, Go, Fault, clients, HostTypeOK
<1>3. pc'[p] = "exit" /\ \A q \in Procs \ {p} : pc'[q] = pc[q]
  BY <1>1, <1>2 DEF HostTypeOK
<1>4. HostTypeOK'
  BY <1>1, <1>2 DEF HostTypeOK
<1>5. Output(p)
  BY DEF HInv, Tables
<1>6. Tables(p)' /\ Others({p}) /\ (\A c : ~Serves(p, c)') /\ (\A c : ~Serves(p, c))
  BY <1>1, <1>2, <1>3, <1>5 DEF Tables, Room, Output, Others, Serves
<1> QED BY <1>1, <1>2, <1>3, <1>4, <1>6, Waits DEF Orderly, HandsOn, clients

LEMMA ExitOrderly ==
  ASSUME HInv, NEW p \in Procs, Exit(p)
  PROVE  Orderly({p}) /\ HandsOn({p})
<1>1. HostTypeOK /\ Places /\ pc[p] = "exit"
  BY DEF HInv, Exit, Go
<1>2. /\ UNCHANGED <<fd, addresses, clfd, client, attempts, faults, standard>>
      /\ pc' = [pc EXCEPT ![p] = "zombie"]
      /\ Replace([fds EXCEPT ![p] = NoFiles])
  BY DEF Exit, Go, clients
<1>3. /\ pc'[p] = "zombie" /\ \A q \in Procs \ {p} : pc'[q] = pc[q] /\ fds'[q] = fds[q]
      /\ fds' \in [Procs -> [FDs -> Objects]]
  <2>1. fds' = [fds EXCEPT ![p] = NoFiles]
    BY <1>2 DEF Replace
  <2>2. NoFiles \in [FDs -> Objects]
    BY Names DEF NoFiles
  <2> QED BY <1>1, <1>2, <2>1, <2>2 DEF HostTypeOK
<1>4. HostTypeOK'
  BY <1>1, <1>2, <1>3, Replaced DEF HostTypeOK
<1>5. Tables(p)' /\ Others({p}) /\ (\A c : ~Serves(p, c)') /\ (\A c : ~Serves(p, c))
  BY <1>1, <1>2, <1>3 DEF Tables, Room, Output, Others, Serves
<1>6. Orderly({p})
  BY <1>1, <1>2, <1>3, <1>4, <1>5, Replaced DEF Orderly, clients
<1> QED BY <1>5, <1>6 DEF HandsOn


LEMMA ListenOrderly ==
  ASSUME HInv, Listen
  PROVE  \E S \in SUBSET Procs : Orderly(S) /\ HandsOn(S)
<1>1. CASE NextAddress \/ initserver \/ ListenFails \/ NoAddress
  <2>1. pc[0] = "start"
    BY <1>1 DEF NextAddress, initserver, ListenFails, NoAddress, Go
  <2>2. \A c : ~Serves(0, c)
    BY <2>1 DEF Serves
  <2> QED BY <1>1, <2>2, Names, NextAddressOrderly, InitserverOrderly, NoAddressOrderly DEF HandsOn
<1>2. ASSUME NEW p \in Procs, Accept(p) \/ AcceptFails(p) \/ Exit(p)
      PROVE  Orderly({p}) /\ HandsOn({p})
  BY <1>2, AcceptOrderly, AcceptFailsOrderly, ExitOrderly
<1>3. \A p \in Procs : {p} \in SUBSET Procs
  OBVIOUS
<1> QED BY <1>1, <1>2, <1>3 DEF Listen
-----------------------------------------------------------------------------
(* The steps of the uptime server: the connection passes from the parent to   *)
(* its child, and from descriptor clfd to the standard output.              *)
LEMMA ForkOrderly ==
  ASSUME HInv, NEW p \in Procs, fork(p)
  PROVE  Orderly({p, p + 1}) /\ HandsOn({p, p + 1})
<1>1. /\ HostTypeOK /\ Places /\ Room(p) /\ Output(p) /\ pc[p] = "accepted" /\ p + 1 \in Procs
      /\ Connection(p) \in Clients /\ p # p + 1
  BY Names DEF HInv, Tables, fork, Child, Places
<1>2. /\ UNCHANGED <<fd, addresses, backlog, client, attempts, faults, standard, failed>>
      /\ pc' = [pc EXCEPT ![p] = "parent", ![p + 1] = "child"]
      /\ fds' = [fds EXCEPT ![p + 1] = fds[p]] /\ clfd' = [clfd EXCEPT ![p + 1] = clfd[p]]
  BY DEF fork, clients, Child
<1>3. /\ fds' \in [Procs -> [FDs -> Objects]] /\ clfd' \in [Procs -> FDs]
      /\ \A q \in Procs \ {p, p + 1} : pc'[q] = pc[q] /\ fds'[q] = fds[q] /\ clfd'[q] = clfd[q]
      /\ pc'[p] = "parent" /\ fds'[p] = fds[p] /\ clfd'[p] = clfd[p]
      /\ pc'[p + 1] = "child" /\ fds'[p + 1] = fds[p] /\ clfd'[p + 1] = clfd[p]
  BY <1>1, <1>2 DEF HostTypeOK
<1>4. HostTypeOK'
  BY <1>1, <1>2, <1>3 DEF HostTypeOK
<1>5. Tables(p)' /\ Tables(p + 1)'
  BY <1>1, <1>2, <1>3 DEF Tables, Room, Output
<1>6. /\ Others({p, p + 1}) /\ (\A c : ~Serves(p, c)')
      /\ (\A c : Serves(p + 1, c)' <=> Serves(p, c)) /\ Connection(p + 1)' \in Clients
  BY <1>1, <1>2, <1>3 DEF Others, Serves, Connection
<1>7. \A c : ~Serves(p + 1, c)
  <2>1. pc[p + 1] = "none"
    BY <1>1 DEF HInv, Chain, Procs
  <2> QED BY <2>1 DEF Serves
<1>8. \A c \in Clients : Serves(p, c) => Pending(c) /\ ~Waiting(c)
  BY <1>1 DEF Places, Pending
<1> QED BY <1>1, <1>2, <1>3, <1>4, <1>5, <1>6, <1>7, <1>8, Waits DEF Orderly, HandsOn, clients

LEMMA ForkOrDupFailsOrderly ==
  ASSUME HInv, NEW p \in Procs, ForkOrDupFails(p)
  PROVE  Orderly({p}) /\ HandsOn({p})
<1>1. /\ HostTypeOK /\ Places /\ Output(p) /\ pc[p] \in {"accepted", "child"}
      /\ Connection(p) \in Clients
  BY DEF HInv, Tables, ForkOrDupFails, Go, Places
<1>2. /\ UNCHANGED <<fds, fd, addresses, clfd, backlog, client, attempts, standard>>
      /\ pc' = [pc EXCEPT ![p] = "exit"] /\ faults' \in 0..MaxFaults
      /\ failed' = failed \cup {Connection(p)}
  BY <1>1 DEF ForkOrDupFails, Go, Fault, clients, HostTypeOK
<1>3. pc'[p] = "exit" /\ \A q \in Procs \ {p} : pc'[q] = pc[q]
  BY <1>1, <1>2 DEF HostTypeOK
<1>4. HostTypeOK'
  BY <1>1, <1>2 DEF HostTypeOK
<1>5. Tables(p)' /\ Others({p}) /\ (\A c : ~Serves(p, c)')
  BY <1>1, <1>2, <1>3 DEF Tables, Room, Output, Others, Serves
<1>6. \A c : Serves(p, c) => c \in failed'
  BY <1>1, <1>2 DEF Serves
<1>7. IsInjective(backlog') /\ \A c : Waiting(c)' <=> Waiting(c)
  BY <1>1, <1>2 DEF Places, Waiting
<1> QED BY <1>2, <1>3, <1>4, <1>5, <1>6, <1>7 DEF Orderly, HandsOn, clients

LEMMA Dup2Orderly ==
  ASSUME HInv, NEW p \in Procs, dup2(p)
  PROVE  Orderly({p}) /\ HandsOn({p})
<1>1. /\ HostTypeOK /\ Places /\ Room(p) /\ Output(p) /\ pc[p] = "child"
      /\ Connection(p) \in Clients
  BY DEF HInv, Tables, dup2, Go, Places
<1>2. PICK c, f : c = Connection(p) /\ f = clfd[p]
  OBVIOUS
<1>3. f \in FDs /\ c \in Clients /\ fds[p][f] = c
  BY <1>1, <1>2 DEF HostTypeOK, Connection
<1>4. PICK files : files = [fds EXCEPT ![p] = [@ EXCEPT ![1] = c, ![2] = c, ![f] =
                              IF f # 1 \/ f # 2 THEN "none" ELSE @]]
  OBVIOUS
<1>5. /\ UNCHANGED <<fd, clfd, addresses, client, attempts, faults, standard>>
      /\ pc' = [pc EXCEPT ![p] = "exec"] /\ Replace(files)
  BY <1>2, <1>4 DEF dup2, Go, clients
<1>6. /\ fds' \in [Procs -> [FDs -> Objects]]
      /\ \A q \in Procs \ {p} : pc'[q] = pc[q] /\ fds'[q] = fds[q]
      /\ pc'[p] = "exec" /\ fds'[p][1] = IF f = 1 THEN "none" ELSE c
      /\ fds'[p][f] = "none"
      /\ \A g \in FDs \ {1, 2, f} : fds'[p][g] = fds[p][g]
  <2>1. fds' = files
    BY <1>5 DEF Replace
  <2>2. fds \in [Procs -> [FDs -> Objects]] /\ pc' = [pc EXCEPT ![p] = "exec"] /\ DOMAIN pc = Procs
    BY <1>1, <1>5 DEF HostTypeOK
  <2> QED BY <1>3, <1>4, <2>1, <2>2, Names
<1>7. HostTypeOK'
  BY <1>1, <1>5, <1>6, Replaced DEF HostTypeOK
<1>8. Tables(p)'
  <2>1. Room(p)'
    BY <1>1, <1>2, <1>3, <1>6, Names DEF Room
  <2>2. Output(p)'
    BY <1>1, <1>2, <1>3, <1>5, <1>6, Names DEF Output
  <2> QED BY <2>1, <2>2 DEF Tables
<1>9. /\ Others({p}) /\ \A d : Serves(p, d) <=> d = c
      /\ (\A d \in Clients : Serves(p, d)' <=> d = c /\ f # 1)
  BY <1>1, <1>2, <1>3, <1>5, <1>6, Names DEF Others, Serves
<1>10. f = 1 => 1 \notin standard
  BY <1>1, <1>2 DEF Output
<1>11. \A d \in Clients : Serves(p, d) => Pending(d) /\ ~Waiting(d)
  BY <1>1 DEF Places, Pending
<1> QED BY <1>1, <1>3, <1>5, <1>6, <1>7, <1>8, <1>9, <1>10, <1>11, Replaced DEF Orderly, HandsOn, clients

LEMMA ExeclOrderly ==
  ASSUME HInv, NEW p \in Procs, execl(p)
  PROVE  Orderly({p}) /\ HandsOn({p})
<1>1. HostTypeOK /\ Places /\ Room(p) /\ Output(p) /\ pc[p] = "exec"
  BY DEF HInv, Tables, execl, Go
<1>2. /\ UNCHANGED <<fds, fd, addresses, clfd, backlog, client, attempts, faults, standard, failed>>
      /\ pc' = [pc EXCEPT ![p] = "uptime"]
  BY DEF execl, Go, clients
<1>3. pc'[p] = "uptime" /\ \A q \in Procs \ {p} : pc'[q] = pc[q]
  BY <1>1, <1>2 DEF HostTypeOK
<1>4. HostTypeOK'
  BY <1>1, <1>2 DEF HostTypeOK
<1>5. Tables(p)' /\ Others({p}) /\ (\A c : Serves(p, c)' <=> Serves(p, c))
  BY <1>1, <1>2, <1>3 DEF Tables, Room, Output, Others, Serves
<1>6. \A c \in Clients : Serves(p, c) => Pending(c) /\ ~Waiting(c)
  BY <1>1 DEF Places, Pending
<1> QED BY <1>1, <1>2, <1>3, <1>4, <1>5, <1>6, Waits DEF Orderly, HandsOn, clients

LEMMA ExeclFailsOrderly ==
  ASSUME HInv, NEW p \in Procs, ExeclFails(p)
  PROVE  Orderly({p}) /\ HandsOn({p})
<1>1. HostTypeOK /\ Places /\ Room(p) /\ Output(p) /\ pc[p] = "exec"
  BY DEF HInv, Tables, ExeclFails, Go
<1>2. /\ UNCHANGED <<fds, fd, addresses, clfd, backlog, client, attempts, standard>>
      /\ pc' = [pc EXCEPT ![p] = "accept"] /\ faults' \in 0..MaxFaults
      /\ failed' = failed \cup ({fds[p][1], fds[p][2]} \cap Clients)
  BY <1>1 DEF ExeclFails, Go, Fault, clients, HostTypeOK
<1>3. pc'[p] = "accept" /\ \A q \in Procs \ {p} : pc'[q] = pc[q]
  BY <1>1, <1>2 DEF HostTypeOK
<1>4. HostTypeOK'
  BY <1>1, <1>2 DEF HostTypeOK
<1>5. Tables(p)' /\ Others({p}) /\ (\A c : ~Serves(p, c)')
  BY <1>1, <1>2, <1>3 DEF Tables, Room, Output, Others, Serves
<1>6. \A c \in Clients : Serves(p, c) => c \in failed'
  BY <1>1, <1>2 DEF Serves
<1>7. IsInjective(backlog') /\ \A c : Waiting(c)' <=> Waiting(c)
  BY <1>1, <1>2 DEF Places, Waiting
<1> QED BY <1>2, <1>3, <1>4, <1>5, <1>6, <1>7 DEF Orderly, HandsOn, clients

LEMMA UptimeOrderly ==
  ASSUME HInv, NEW p \in Procs, uptime(p)
  PROVE  Orderly({p})
<1>1. HostTypeOK /\ Places /\ Output(p) /\ pc[p] = "uptime"
  BY DEF HInv, Tables, uptime, Go
<1>2. /\ UNCHANGED <<fds, fd, addresses, clfd, backlog, client, attempts, faults, standard, failed>>
      /\ pc' = [pc EXCEPT ![p] = "exit"]
  BY DEF uptime, Go, clients
<1>3. pc'[p] = "exit" /\ \A q \in Procs \ {p} : pc'[q] = pc[q]
  BY <1>1, <1>2 DEF HostTypeOK
<1>4. HostTypeOK'
  BY <1>1, <1>2 DEF HostTypeOK
<1>5. Tables(p)' /\ Others({p}) /\ (\A c : ~Serves(p, c)')
  BY <1>1, <1>2, <1>3 DEF Tables, Room, Output, Others, Serves
<1> QED BY <1>1, <1>2, <1>3, <1>4, <1>5, Waits DEF Orderly, clients

LEMMA CloseClfdOrderly ==
  ASSUME HInv, NEW p \in Procs, CloseClfd(p)
  PROVE  Orderly({p}) /\ HandsOn({p})
<1>1. HostTypeOK /\ Places /\ Room(p) /\ Output(p) /\ pc[p] = "parent"
  BY DEF HInv, Tables, CloseClfd, Go
<1>2. PICK f : f = clfd[p]
  OBVIOUS
<1>3. f \in FDs
  BY <1>1, <1>2 DEF HostTypeOK
<1>4. PICK files : files = [fds EXCEPT ![p][f] = "none"]
  OBVIOUS
<1>5. /\ UNCHANGED <<fd, clfd, addresses, client, attempts, faults, standard>>
      /\ pc' = [pc EXCEPT ![p] = "wait"] /\ Replace(files)
  BY <1>2, <1>4 DEF CloseClfd, Go, clients
<1>6. /\ fds' \in [Procs -> [FDs -> Objects]]
      /\ \A q \in Procs \ {p} : pc'[q] = pc[q] /\ fds'[q] = fds[q]
      /\ pc'[p] = "wait" /\ fds'[p][f] = "none"
      /\ \A g \in FDs \ {f} : fds'[p][g] = fds[p][g]
  <2>1. fds' = files
    BY <1>5 DEF Replace
  <2> QED BY <1>1, <1>3, <1>4, <1>5, <2>1, Names DEF HostTypeOK
<1>7. HostTypeOK'
  BY <1>1, <1>5, <1>6, Replaced DEF HostTypeOK
<1>8. Tables(p)'
  BY <1>1, <1>2, <1>3, <1>5, <1>6, Names DEF Tables, Room, Output
<1>9. Others({p}) /\ (\A c : ~Serves(p, c)') /\ (\A c : ~Serves(p, c))
  BY <1>1, <1>5, <1>6 DEF Others, Serves
<1>10. Orderly({p})
  BY <1>1, <1>5, <1>6, <1>7, <1>8, <1>9, Replaced DEF Orderly, clients
<1> QED BY <1>9, <1>10 DEF HandsOn

LEMMA WaitpidOrderly ==
  ASSUME HInv, NEW p \in Procs, waitpid(p)
  PROVE  Orderly({p, p + 1} \cap Procs) /\ HandsOn({p, p + 1} \cap Procs)
<1>1. /\ HostTypeOK /\ Places /\ Chain /\ Room(p) /\ Output(p)
      /\ pc[p] = "wait" /\ pc[p + 1] = "zombie" /\ p # p + 1
  BY Names DEF HInv, Tables, waitpid, Child
<1>2. /\ UNCHANGED <<fds, fd, addresses, clfd, backlog, client, attempts, faults, standard, failed>>
      /\ pc' = [pc EXCEPT ![p] = "accept", ![p + 1] = "none"]
  BY DEF waitpid, Child, clients
<1>3. /\ pc'[p] = "accept" /\ (p + 1 \in Procs => pc'[p + 1] = "none")
      /\ \A q \in Procs \ {p, p + 1} : pc'[q] = pc[q]
  BY <1>1, <1>2 DEF HostTypeOK
<1>4. HostTypeOK'
  BY <1>1, <1>2 DEF HostTypeOK
<1>5. /\ Tables(p)' /\ (p + 1 \in Procs => Tables(p + 1)')
      /\ Others({p, p + 1} \cap Procs)
      /\ (\A c : ~Serves(p, c)') /\ (\A c : ~Serves(p, c))
      /\ (p + 1 \in Procs => \A c : ~Serves(p + 1, c)') /\ (\A c : ~Serves(p + 1, c))
  BY <1>1, <1>2, <1>3 DEF Tables, Room, Output, Others, Serves
<1> QED BY <1>1, <1>2, <1>3, <1>4, <1>5, Waits DEF Orderly, HandsOn, clients

LEMMA ProcessOrderly ==
  ASSUME HInv, NEW p \in Procs, Process(p), ~uptime(p)
  PROVE  \E S \in SUBSET Procs : Orderly(S) /\ HandsOn(S)
<1>1. CASE fork(p)
  <2>1. {p, p + 1} \in SUBSET Procs
    BY <1>1 DEF fork, Child
  <2> QED BY <1>1, <2>1, ForkOrderly
<1>2. CASE waitpid(p)
  BY <1>2, WaitpidOrderly
<1>3. CASE ~fork(p) /\ ~waitpid(p)
  <2>1. {p} \in SUBSET Procs
    OBVIOUS
  <2> QED BY <1>3, <2>1, ForkOrDupFailsOrderly, Dup2Orderly, ExeclOrderly, ExeclFailsOrderly,
             CloseClfdOrderly DEF Process
<1> QED BY <1>1, <1>2, <1>3
-----------------------------------------------------------------------------
(* The clients: a step of theirs that leaves the server alone.               *)
LEMMA IdleKeepsHInv ==
  ASSUME HInv, HostTypeOK', UNCHANGED <<server, standard>>,
         \A c \in Clients : client'[c] = "connecting" => client[c] = "connecting" /\ attempts'[c] > 0
  PROVE  HInv' /\ \A c : Pending(c)' <=> Pending(c)
<1>1. UNCHANGED <<pc, fds, fd, clfd, addresses, backlog>>
  BY DEF server
<1>2. \A p, c : (Serves(p, c)' <=> Serves(p, c)) /\ (Waiting(c)' <=> Waiting(c))
  BY <1>1 DEF Serves, Waiting, Connection
<1>3. \A c : Pending(c)' <=> Pending(c)
  BY <1>2 DEF Pending
<1>4. Places'
  BY <1>1, <1>2, <1>3 DEF Places, HInv, Connection
<1>5. \A p \in Procs : Tables(p)'
  BY <1>1 DEF HInv, Tables, Room, Output
<1> QED BY <1>1, <1>3, <1>4, <1>5 DEF HInv, Chain

LEMMA LeaveKeepsHInv ==
  ASSUME HInv, NEW c \in Clients, UNCHANGED <<server, attempts, standard>>,
         faults' \in 0..MaxFaults, failed' \subseteq Clients,
         \/ client' = client
         \/ \E how \in {"returned", "quit"} :
              client[c] = "connected" /\ client' = [client EXCEPT ![c] = how]
  PROVE  HInv' /\ \A d : Pending(d)' <=> Pending(d)
<1>1. HostTypeOK'
  BY DEF HInv, HostTypeOK, server
<1>2. \A d \in Clients : client'[d] = "connecting" => client[d] = "connecting" /\ attempts'[d] > 0
  BY DEF HInv, Places, HostTypeOK
<1> QED BY <1>1, <1>2, IdleKeepsHInv

LEMMA ConnectFailsKeepsHInv ==
  ASSUME HInv, NEW c \in Clients, ConnectFails(c) \/ SocketFails(c)
  PROVE  HInv' /\ \A d : Pending(d)' <=> Pending(d)
<1>1. /\ HostTypeOK /\ client[c] = "connecting" /\ attempts[c] \in 1..Attempts
      /\ UNCHANGED <<server, standard, failed>> /\ faults' \in 0..MaxFaults
  BY DEF HInv, Places, ConnectFails, SocketFails, Fault, HostTypeOK
<1>2. HostTypeOK'
      /\ \A d \in Clients :
           client'[d] = "connecting" => client[d] = "connecting" /\ attempts'[d] > 0
  <2>1. CASE ConnectFails(c)
    <3>1. /\ attempts' = [attempts EXCEPT ![c] = attempts[c] - 1]
          /\ client' = [client EXCEPT ![c] = IF attempts[c] = 1 THEN "gave_up" ELSE client[c]]
      BY <2>1 DEF ConnectFails
    <3> QED BY <1>1, <3>1 DEF HInv, Places, HostTypeOK, server
  <2>2. CASE SocketFails(c)
    <3>1. attempts' = attempts /\ client' = [client EXCEPT ![c] = "gave_up"]
      BY <2>2 DEF SocketFails
    <3> QED BY <1>1, <3>1 DEF HInv, Places, HostTypeOK, server
  <2> QED BY <2>1, <2>2
<1> QED BY <1>1, <1>2, IdleKeepsHInv

LEMMA ConnectKeepsHInv ==
  ASSUME HInv, NEW c \in Clients, Connect(c)
  PROVE  HInv' /\ \A d : Pending(d)' <=> Pending(d) \/ d = c
<1>1. /\ HostTypeOK /\ Places /\ client[c] = "connecting" /\ ~Pending(c)
      /\ UNCHANGED <<pc, fds, fd, clfd, addresses, attempts, faults, standard, failed>>
      /\ backlog' = Append(backlog, c) /\ Len(backlog) < QLEN /\ QLEN \in Nat
      /\ client' = [client EXCEPT ![c] = "connected"]
  BY DEF HInv, Places, Connect
<1>2. /\ backlog \in Seq(Clients) /\ IsInjective(backlog) /\ c \notin ToSet(backlog)
  BY <1>1 DEF HostTypeOK, Places, Pending, Waiting
<1>3. /\ backlog' \in Seq(Clients) /\ IsInjective(backlog')
      /\ ToSet(backlog') = ToSet(backlog) \cup {c} /\ Len(backlog') = Len(backlog) + 1
  BY <1>1, <1>2, AppendOne
<1>4. HostTypeOK'
  <2>1. Len(backlog') <= QLEN
    BY <1>1, <1>2, <1>3, LenProperties
  <2> QED BY <1>1, <1>3, <2>1 DEF HostTypeOK
<1>5. \A p, d : (Serves(p, d)' <=> Serves(p, d)) /\ (Waiting(d)' <=> Waiting(d) \/ d = c)
  BY <1>1, <1>3 DEF Serves, Waiting, Connection
<1>6. \A d : Pending(d)' <=> Pending(d) \/ d = c
  BY <1>5 DEF Pending
<1>7. \A d \in Clients : client'[d] = "connecting" => client[d] = "connecting" /\ d # c
  BY <1>1 DEF HostTypeOK
<1>8. Places'
  <2>1. \A d \in Clients, p \in Procs : Serves(p, d)' => ~Waiting(d)'
    BY <1>1, <1>5 DEF Places, Pending
  <2>2. \A p \in Procs : pc'[p] \in {"accepted", "child"} => Connection(p)' \in Clients
    BY <1>1 DEF Places, Connection
  <2>3. \A d \in Clients : client'[d] = "connecting" => ~Pending(d)' /\ attempts'[d] > 0
    BY <1>1, <1>6, <1>7 DEF Places
  <2> QED BY <1>3, <2>1, <2>2, <2>3 DEF Places
<1>9. \A p \in Procs : Tables(p)'
  BY <1>1 DEF HInv, Tables, Room, Output
<1> QED BY <1>1, <1>4, <1>6, <1>8, <1>9 DEF HInv, Chain
-----------------------------------------------------------------------------
(* What the uptime client receives.                                         *)
LEMMA PendingIsOpen ==
  ASSUME HInv, NEW c \in Clients, Pending(c)
  PROVE  Open(c)
<1>1. CASE Waiting(c)
  <2>1. DOMAIN backlog = 1..Len(backlog)
    BY DEF HInv, HostTypeOK
  <2> QED BY <1>1, <2>1 DEF Waiting, ToSet, Open, Contains
<1>2. ASSUME NEW p \in Procs, Serves(p, c) PROVE Open(c)
  <2>1. clfd[p] \in FDs /\ 1 \in FDs
    BY Names DEF HInv, HostTypeOK
  <2> QED BY <1>2, <2>1 DEF Serves, Connection, Open, Holds
<1> QED BY <1>1, <1>2 DEF Pending

(* One process serves a connection.                                         *)
LEMMA OneServes ==
  ASSUME HInv, NEW p \in Procs, NEW q \in Procs, NEW c, NEW d, Serves(p, c), Serves(q, d)
  PROVE  p = q
<1>1. ~(p < q) /\ ~(q < p)
  BY DEF Serves, HInv, Chain
<1> QED BY <1>1, Names

LEMMA OrderlyKeepsUInv ==
  ASSUME HInv, HInv', UInv, NEW S \in SUBSET Procs, Orderly(S), HandsOn(S),
         UNCHANGED <<data, got>>, unserved' \subseteq failed',
         \A c \in Clients : Pending(c)' => Pending(c)
  PROVE  UInv'
<1>1. UNCHANGED <<client, attempts, standard>> /\ failed \subseteq failed'
  BY DEF Orderly, clients, Others
<1>2. UptimeTypeOK'
  BY DEF UInv, UptimeTypeOK
<1>3. ASSUME NEW c \in Clients PROVE Answer(c)'
  BY <1>1, OrderlyKeepsPending DEF UInv, Answer, Fresh
<1> QED BY <1>2, <1>3 DEF UInv

LEMMA UptimeKeepsUInv ==
  ASSUME HInv, HInv', UInv, NEW p \in Procs, uptime(p),
         \A c \in Clients : Pending(c)' => Pending(c)
  PROVE  UInv'
<1>1. /\ UNCHANGED <<got, unserved, failed, client, standard, backlog>> /\ pc[p] = "uptime"
      /\ Orderly({p}) /\ Others({p}) /\ \A c : ~Serves(p, c)'
  <2>1. Orderly({p}) /\ Others({p})
    BY UptimeOrderly DEF Orderly
  <2>2. pc'[p] = "exit"
    BY DEF uptime, Go, HInv, HostTypeOK
  <2> QED BY <2>1, <2>2 DEF uptime, Go, clients, Serves
<1>2. /\ data \in [Clients -> 0..Text] /\ got \in [Clients -> 0..Text]
      /\ \A c \in Clients : Answer(c)
  BY DEF UInv, UptimeTypeOK
<1>3. \A c \in Clients : data'[c] = IF Serves(p, c) THEN data[c] + Text ELSE data[c]
  BY <1>1 DEF uptime, Serves
<1>4. \A c \in Clients : Serves(p, c) => Pending(c) /\ Fresh(c)
  BY <1>2 DEF Pending, Answer
<1>5. ASSUME NEW c \in Clients, Serves(p, c) PROVE ~Pending(c)'
  <2>1. ~Waiting(c)'
    BY <1>1, <1>5 DEF HInv, Places, Waiting
  <2>2. ASSUME NEW q \in Procs, Serves(q, c)' PROVE FALSE
    <3>1. q # p
      BY <1>1, <2>2
    <3>2. Serves(q, c)
      BY <1>1, <2>2, <3>1, OthersKept
    <3> QED BY <1>5, <3>1, <3>2, OneServes
  <2> QED BY <2>1, <2>2 DEF Pending
<1>6. ASSUME NEW c \in Clients, ~Serves(p, c), Pending(c) PROVE Pending(c)'
  BY <1>1, <1>6, OthersKept DEF Pending, Waiting
<1>7. ASSUME NEW c \in Clients, Serves(p, c) PROVE client[c] # "connecting"
  BY <1>4, <1>7 DEF HInv, Places
<1>8. data' \in [Clients -> 0..Text]
  <2>1. \A c \in Clients : data'[c] \in 0..Text
    BY <1>2, <1>3, <1>4, UptimeAssumption DEF Fresh
  <2> QED BY <2>1 DEF uptime
<1>9. ASSUME NEW c \in Clients PROVE Answer(c)'
  <2>1. CASE Serves(p, c)
    <3>1. data'[c] = Text /\ got'[c] = 0 /\ client'[c] # "connecting" /\ ~Pending(c)' /\ Pending(c)
      BY <1>1, <1>3, <1>4, <1>5, <1>7, <2>1, UptimeAssumption DEF Fresh
    <3>2. client[c] # "returned" \/ c \in failed \/ 1 \notin standard
      BY <1>2, <3>1, <1>4, <2>1, UptimeAssumption DEF Answer, Fresh
    <3> QED BY <1>1, <3>1, <3>2, UptimeAssumption DEF Answer
  <2>2. CASE ~Serves(p, c)
    BY <1>1, <1>2, <1>3, <1>6, <2>2 DEF Answer, Fresh
  <2> QED BY <2>1, <2>2
<1> QED BY <1>1, <1>8, <1>9 DEF UInv, UptimeTypeOK

LEMMA ConnectsKeepUInv ==
  ASSUME HInv, UInv, NEW c \in Clients, connect_retry(c), UNCHANGED uptimeVars
  PROVE  UInv'
<1>1. UNCHANGED <<data, got, unserved, failed, standard>> /\ DOMAIN client = Clients
  BY DEF uptimeVars, connect_retry, Connect, ConnectFails, SocketFails, HInv, HostTypeOK
<1>2. UptimeTypeOK'
  BY <1>1 DEF UInv, UptimeTypeOK
<1>3. CASE Connect(c)
  <2>1. /\ client' = [client EXCEPT ![c] = "connected"] /\ client[c] = "connecting"
        /\ \A d : Pending(d)' <=> Pending(d) \/ d = c
    BY <1>3, ConnectKeepsHInv DEF Connect
  <2>2. ASSUME NEW d \in Clients PROVE Answer(d)'
    BY <1>1, <2>1 DEF UInv, Answer, Fresh
  <2> QED BY <1>2, <2>2 DEF UInv
<1>4. CASE ConnectFails(c) \/ SocketFails(c)
  <2>1. /\ \/ client' = [client EXCEPT ![c] = "gave_up"]
           \/ client' = [client EXCEPT ![c] = client[c]]
        /\ client[c] = "connecting" /\ \A d : Pending(d)' <=> Pending(d)
    BY <1>4, ConnectFailsKeepsHInv DEF ConnectFails, SocketFails
  <2>2. ASSUME NEW d \in Clients PROVE Answer(d)'
    BY <1>1, <2>1 DEF UInv, Answer, Fresh
  <2> QED BY <1>2, <2>2 DEF UInv
<1> QED BY <1>3, <1>4 DEF connect_retry

LEMMA ReceiveKeeps ==
  ASSUME HInv, UInv, NEW c \in Clients, Receive(c)
  PROVE  HInv' /\ UInv'
<1>1. /\ HostTypeOK /\ client[c] = "connected"
      /\ UNCHANGED <<server, attempts, faults, standard, failed, unserved>>
      /\ \/ client' = client
         \/ client' = [client EXCEPT ![c] = "returned"]
  BY DEF HInv, Receive, Leave
<1>2. HInv' /\ \A d : Pending(d)' <=> Pending(d)
  BY <1>1, LeaveKeepsHInv DEF HostTypeOK
<1>3. /\ data \in [Clients -> 0..Text] /\ got \in [Clients -> 0..Text]
      /\ \A d \in Clients : Answer(d)
  BY DEF UInv, UptimeTypeOK
<1>4. ASSUME NEW n \in 1 .. data[c], client' = client,
             data' = [data EXCEPT ![c] = @ - n], got' = [got EXCEPT ![c] = @ + n]
      PROVE  UInv'
  <2>1. ~Fresh(c) /\ data[c] + got[c] <= Text
    BY <1>3, <1>4 DEF Answer, Fresh
  <2>2. UptimeTypeOK'
    BY <1>1, <1>3, <1>4, <2>1, UptimeAssumption DEF UptimeTypeOK, UInv
  <2>3. ASSUME NEW d \in Clients PROVE Answer(d)'
    <3>1. CASE d = c
      <4>1. data'[c] + got'[c] = data[c] + got[c]
        BY <1>3, <1>4
      <4> QED BY <1>1, <1>2, <1>3, <1>4, <2>1, <3>1, <4>1 DEF Answer
    <3>2. CASE d # c
      <4>1. data'[d] = data[d] /\ got'[d] = got[d]
        BY <1>3, <1>4, <3>2
      <4> QED BY <1>1, <1>2, <1>3, <1>4, <4>1 DEF Answer, Fresh
    <3> QED BY <3>1, <3>2
  <2> QED BY <2>2, <2>3 DEF UInv
<1>5. ASSUME data[c] = 0, ~Open(c), client' = [client EXCEPT ![c] = "returned"],
             UNCHANGED <<data, got>>
      PROVE  UInv'
  <2>1. ~Pending(c)
    BY <1>5, PendingIsOpen
  <2>2. got[c] \in 0..Text /\ data[c] + got[c] = got[c]
    BY <1>3, <1>5
  <2>3. ASSUME NEW d \in Clients PROVE Answer(d)'
    <3>1. CASE d = c
      BY <1>1, <1>2, <1>3, <1>5, <2>1, <2>2, <3>1 DEF Answer, Fresh, HostTypeOK
    <3>2. CASE d # c
      BY <1>1, <1>2, <1>3, <1>5, <3>2 DEF Answer, Fresh, HostTypeOK
    <3> QED BY <3>1, <3>2
  <2> QED BY <1>1, <1>5, <2>3 DEF UInv, UptimeTypeOK
<1> QED BY <1>2, <1>4, <1>5 DEF Receive, Leave

(* A call that fails in the client excuses the client.                       *)
LEMMA ReceiveFailsKeeps ==
  ASSUME HInv, UInv, NEW c \in Clients, RecvFails(c) \/ WriteFails(c)
  PROVE  HInv' /\ UInv'
<1>1. /\ HostTypeOK /\ client[c] = "connected" /\ faults' \in 0..MaxFaults
      /\ UNCHANGED <<server, attempts, standard, got, unserved>>
      /\ failed' = failed \cup {c} /\ failed' \subseteq Clients
      /\ \/ client' = client
         \/ client' = [client EXCEPT ![c] = "returned"]
  BY DEF HInv, RecvFails, WriteFails, Leave, Fault, HostTypeOK, clients, uptimeVars
<1>2. HInv' /\ \A d : Pending(d)' <=> Pending(d)
  BY <1>1, LeaveKeepsHInv
<1>3. /\ data \in [Clients -> 0..Text] /\ got \in [Clients -> 0..Text]
      /\ unserved \subseteq failed /\ \A d \in Clients : Answer(d)
  BY DEF UInv, UptimeTypeOK
<1>4. /\ data' \in [Clients -> 0..Text] /\ data'[c] <= data[c] /\ (Fresh(c) => data'[c] = 0)
      /\ \A d \in Clients \ {c} : data'[d] = data[d] /\ client'[d] = client[d]
  <2>1. CASE RecvFails(c)
    BY <1>1, <1>3, <2>1 DEF RecvFails, uptimeVars, HostTypeOK, Fresh
  <2>2. CASE WriteFails(c)
    <3>1. PICK n \in 1 .. data[c] : data' = [data EXCEPT ![c] = data[c] - n]
      BY <2>2 DEF WriteFails
    <3>2. client' = client
      BY <2>2 DEF WriteFails, clients
    <3> QED BY <1>3, <3>1, <3>2, UptimeAssumption DEF Fresh
  <2> QED BY <2>1, <2>2
<1>5. ASSUME NEW d \in Clients PROVE Answer(d)'
  <2>1. CASE d = c
    <3>1. data'[c] + got'[c] <= Text
      BY <1>1, <1>3, <1>4, UptimeAssumption DEF Answer
    <3>2. Pending(c)' \/ client'[c] = "connecting" => Fresh(c)'
      BY <1>1, <1>2, <1>3, <1>4 DEF Answer, Fresh, HostTypeOK
    <3> QED BY <1>1, <2>1, <3>1, <3>2 DEF Answer
  <2>2. CASE d # c
    BY <1>1, <1>2, <1>3, <1>4, <2>2 DEF Answer, Fresh
  <2> QED BY <2>1, <2>2
<1> QED BY <1>1, <1>2, <1>3, <1>4, <1>5 DEF UInv, UptimeTypeOK

LEMMA UptimeStep ==
  ASSUME HInv, UInv, CInv', UptimeNext
  PROVE  HInv' /\ UInv'
<1>1. CASE Listen /\ UNCHANGED uptimeVars
  <2>1. PICK S \in SUBSET Procs : Orderly(S) /\ HandsOn(S)
    BY <1>1, ListenOrderly
  <2>2. UNCHANGED <<data, got>> /\ unserved' \subseteq failed'
    BY <1>1, <2>1 DEF uptimeVars, UInv, UptimeTypeOK, Orderly
  <2> QED BY <2>1, <2>2, OrderlyKeepsHInv, OrderlyKeepsUInv
<1>2. ASSUME NEW p \in Procs, Process(p) PROVE HInv' /\ UInv'
  <2>1. CASE uptime(p)
    <3>1. {p} \in SUBSET Procs
      OBVIOUS
    <3>2. HInv' /\ \A c \in Clients : Pending(c)' => Pending(c)
      BY <2>1, <3>1, UptimeOrderly, OrderlyKeepsHInv
    <3> QED BY <2>1, <3>2, UptimeKeepsUInv
  <2>2. CASE ~uptime(p)
    <3>1. PICK S \in SUBSET Procs : Orderly(S) /\ HandsOn(S)
      BY <1>2, <2>2, ProcessOrderly
    <3>2. UNCHANGED <<data, got>>
      BY <1>2, <2>2 DEF Process, fork, ForkOrDupFails, dup2, execl, ExeclFails, CloseClfd, waitpid,
                        uptimeVars
    <3>3. unserved' \subseteq failed'
      <4>1. unserved \subseteq failed /\ failed \subseteq failed'
        BY <3>1 DEF UInv, UptimeTypeOK, Orderly
      <4>2. CASE ExeclFails(p)
        BY <4>1, <4>2 DEF ExeclFails
      <4>3. CASE ~ExeclFails(p)
        <5>1. unserved' = unserved
          BY <1>2, <2>2, <4>3 DEF Process, fork, ForkOrDupFails, dup2, execl, CloseClfd, waitpid,
                                  uptimeVars
        <5> QED BY <4>1, <5>1
      <4> QED BY <4>2, <4>3
    <3> QED BY <3>1, <3>2, <3>3, OrderlyKeepsHInv, OrderlyKeepsUInv
  <2> QED BY <2>1, <2>2
<1>3. ASSUME NEW c \in Clients, connect_retry(c), UNCHANGED uptimeVars PROVE HInv' /\ UInv'
  BY <1>3, ConnectKeepsHInv, ConnectFailsKeepsHInv, ConnectsKeepUInv DEF connect_retry
<1> QED BY <1>1, <1>2, <1>3, ReceiveKeeps, ReceiveFailsKeeps DEF UptimeNext, print_uptime
-----------------------------------------------------------------------------
(* What the foobar server prints.                                           *)
LEMMA FoobarAlone ==
  ASSUME CInv, FInv, FoobarNext
  PROVE  \A p \in Procs \ {0} : pc'[p] = "none"
<1>1. \A p \in Procs \ {0} : pc[p] = "none"
  BY DEF FInv
<1>2. CASE Moves
  BY <1>1, <1>2 DEF Moves, CInv
<1>3. CASE pc' = pc
  BY <1>1, <1>3
<1> QED BY <1>2, <1>3, FoobarMoves

(* The process closes the connection it served.                             *)
LEMMA CloseClientKeeps ==
  ASSUME HInv, CInv', FInv, NEW c \in Clients, c = Connection(0),
         Go(0, "accepted", "accept"), fds' = [fds EXCEPT ![0][clfd[0]] = "none"],
         faults' \in 0..MaxFaults, UNCHANGED <<fd, clfd, addresses, clients, standard>>,
         \/ Replace([fds EXCEPT ![0][clfd[0]] = "none"])
         \/ backlog' = backlog /\ failed' = failed \cup {c}
  PROVE  HInv' /\ ~Pending(c)' /\ \A d \in Clients : Pending(d)' => Pending(d)
<1>1. /\ HostTypeOK /\ Places /\ Room(0) /\ Output(0) /\ 0 \in Procs
      /\ pc[0] = "accepted" /\ pc' = [pc EXCEPT ![0] = "accept"]
  BY Names DEF HInv, Tables, Go
<1>2. PICK f : f = clfd[0]
  OBVIOUS
<1>3. f \in FDs
  BY <1>1, <1>2 DEF HostTypeOK
<1>4. /\ fds' \in [Procs -> [FDs -> Objects]]
      /\ \A q \in Procs \ {0} : pc'[q] = pc[q] /\ fds'[q] = fds[q]
      /\ pc'[0] = "accept" /\ fds'[0][f] = "none"
      /\ \A g \in FDs \ {f} : fds'[0][g] = fds[0][g]
  BY <1>1, <1>2, <1>3, Names DEF HostTypeOK
<1>5. /\ backlog' \in Seq(Clients) /\ Len(backlog') <= QLEN /\ IsInjective(backlog')
      /\ failed \subseteq failed' /\ failed' \subseteq Clients
      /\ \A d \in Clients : /\ Waiting(d)' => Waiting(d)
                            /\ Waiting(d) => Waiting(d)' \/ d \in failed'
  <2>1. CASE Replace([fds EXCEPT ![0][clfd[0]] = "none"])
    BY <1>1, <2>1, Replaced
  <2>2. CASE backlog' = backlog /\ failed' = failed \cup {c}
    BY <1>1, <2>2 DEF HostTypeOK, Places, Waiting
  <2> QED BY <2>1, <2>2
<1>6. HostTypeOK'
  BY <1>1, <1>4, <1>5 DEF HostTypeOK, clients
<1>7. Tables(0)'
  <2>1. Room(0)'
    BY <1>1, <1>2, <1>3, <1>4, Names DEF Room
  <2>2. Output(0)'
    BY <1>1, <1>2, <1>3, <1>4, Names DEF Output
  <2> QED BY <2>1, <2>2 DEF Tables
<1>8. Others({0}) /\ \A d : ~Serves(0, d)'
  BY <1>4 DEF Others, Serves
<1>9. Orderly({0})
  BY <1>4, <1>5, <1>6, <1>7, <1>8 DEF Orderly, clients
<1>10. HInv' /\ \A d \in Clients : Pending(d)' => Pending(d)
  BY <1>1, <1>9, OrderlyKeepsHInv
<1>11. ~Pending(c)'
  <2>1. ~Waiting(c)'
    BY <1>1, <1>5 DEF Places, Serves
  <2>2. \A q \in Procs : ~Serves(q, c)'
    BY <1>4, <1>8 DEF FInv, Serves
  <2> QED BY <2>1, <2>2 DEF Pending
<1> QED BY <1>10, <1>11

(* A step that touches no stream.                                           *)
LEMMA StreamsKept ==
  ASSUME FInv, UNCHANGED foobarVars, \A p \in Procs \ {0} : pc'[p] = "none",
         \A c \in Clients :
           /\ Pending(c)' => Pending(c) \/ client[c] = "connecting"
           /\ client'[c] = client[c] \/ client'[c] \in {"connected", "gave_up", "quit"}
           /\ client[c] = "quit" => client'[c] = "quit"
  PROVE  FInv'
<1>1. UNCHANGED <<stream, sent, printed, split>>
  BY DEF foobarVars
<1>2. FoobarTypeOK' /\ printed' \in [Clients -> Seq(Buffers)]
  BY <1>1 DEF FInv, FoobarTypeOK
<1>3. ASSUME NEW c \in Clients PROVE Stream(c)' /\ client'[c] # "returned"
  <2>1. Stream(c) /\ client[c] # "returned"
    BY DEF FInv
  <2>2. Aligned(c) => Aligned(c)'
    BY <1>1 DEF Aligned
  <2>3. Whole(c)'
    BY <1>1, <2>1 DEF Stream, Whole
  <2> QED BY <1>1, <2>1, <2>2, <2>3 DEF Stream
<1> QED BY <1>2, <1>3 DEF FInv


(* Parts of packets that follow each other, after packet k.                  *)
Parts == (1 .. Packets) \X (1 .. BUFLEN)
Follow(s, k) == \A i \in DOMAIN s : 2 * (s[i][1] - k) + s[i][2] = i + 2

LEMMA PacketType ==
  ASSUME NEW n \in 1 .. Packets
  PROVE  /\ Packet(n) \in Seq(Parts) /\ Packet(n) \in Buffers
         /\ Len(Packet(n)) = 2 /\ Packet(n)[1] = <<n, 1>> /\ Packet(n)[2] = <<n, 2>>
<1>1. Packet(n) = [i \in 1 .. 2 |-> <<n, i>>]
  BY DEF Packet, BUFLEN
<1>2. \A i \in 1 .. 2 : <<n, i>> \in Parts /\ <<n, i>> \in Nat \X Nat
  BY FoobarAssumption DEF Parts, BUFLEN
<1>3. Packet(n) \in Seq(Parts) /\ Len(Packet(n)) = 2
  BY <1>1, <1>2
<1> QED BY <1>1, <1>2, <1>3 DEF BUFLEN, Buffers

LEMMA TakePacket ==
  ASSUME NEW s \in Seq(Parts), NEW k \in Nat, Len(s) >= 2, Follow(s, k)
  PROVE  /\ k + 1 \in 1 .. Packets /\ SubSeq(s, 1, BUFLEN) = Packet(k + 1)
         /\ SubSeq(s, BUFLEN + 1, Len(s)) \in Seq(Parts)
         /\ Len(SubSeq(s, BUFLEN + 1, Len(s))) = Len(s) - 2
         /\ Follow(SubSeq(s, BUFLEN + 1, Len(s)), k + 1)
<1>1. /\ Len(s) \in Nat /\ DOMAIN s = 1 .. Len(s)
      /\ \A i \in 1 .. Len(s) : s[i] \in Parts
  OBVIOUS
<1>2. \A i \in 1 .. Len(s) : /\ s[i] = <<s[i][1], s[i][2]>>
                             /\ s[i][1] \in 1 .. Packets /\ s[i][2] \in 1 .. 2
  BY <1>1 DEF Parts, BUFLEN
<1>3. \A i \in 1 .. Len(s) : 2 * (s[i][1] - k) + s[i][2] = i + 2
  BY <1>1 DEF Follow
<1>4. 1 \in 1 .. Len(s) /\ 2 \in 1 .. Len(s)
  BY <1>1
<1>5. s[1][1] = k + 1 /\ s[1][2] = 1
  <2>1. PICK a \in 1 .. Packets, b \in 1 .. 2 : a = s[1][1] /\ b = s[1][2]
    BY <1>2, <1>4
  <2>2. 2 * (a - k) + b = 3
    BY <1>3, <1>4, <2>1
  <2>3. a = k + 1 /\ b = 1
    BY <2>2, FoobarAssumption
  <2> QED BY <2>1, <2>3
<1>6. s[2][1] = k + 1 /\ s[2][2] = 2
  <2>1. PICK a \in 1 .. Packets, b \in 1 .. 2 : a = s[2][1] /\ b = s[2][2]
    BY <1>2, <1>4
  <2>2. 2 * (a - k) + b = 4
    BY <1>3, <1>4, <2>1
  <2>3. a = k + 1 /\ b = 2
    BY <2>2, FoobarAssumption
  <2> QED BY <2>1, <2>3
<1>7. SubSeq(s, 1, BUFLEN) = Packet(k + 1)
  <2>1. SubSeq(s, 1, 2) = [i \in 1 .. 2 |-> s[i]]
    BY <1>1
  <2>2. \A i \in 1 .. 2 : s[i] = <<k + 1, i>>
    <3>1. \A i \in 1 .. 2 : i = 1 \/ i = 2
      OBVIOUS
    <3> QED BY <1>2, <1>4, <1>5, <1>6, <3>1
  <2> QED BY <2>1, <2>2 DEF Packet, BUFLEN
<1>8. PICK t : t = SubSeq(s, 3, Len(s))
  OBVIOUS
<1>9. /\ t \in Seq(Parts) /\ Len(t) = Len(s) - 2
      /\ \A i \in 1 .. Len(s) - 2 : t[i] = s[i + 2]
  <2>1. /\ SubSeq(s, 3, Len(s)) \in Seq(Parts)
        /\ Len(SubSeq(s, 3, Len(s))) = IF 3 <= Len(s) THEN Len(s) - 3 + 1 ELSE 0
        /\ \A i \in 1 .. Len(s) - 3 + 1 : SubSeq(s, 3, Len(s))[i] = s[3 + i - 1]
    <3>1. 3 \in Int /\ Len(s) \in Int /\ \A i \in 3 .. Len(s) : s[i] \in Parts
      BY <1>1
    <3> QED BY <3>1, SubSeqProperties
  <2> QED BY <1>1, <1>8, <2>1
<1>10. Follow(t, k + 1)
  <2> SUFFICES ASSUME NEW i \in DOMAIN t PROVE 2 * (t[i][1] - (k + 1)) + t[i][2] = i + 2
    BY DEF Follow
  <2>1. i \in 1 .. Len(s) - 2 /\ i + 2 \in 1 .. Len(s) /\ t[i] = s[i + 2]
    BY <1>1, <1>9
  <2>2. PICK a \in 1 .. Packets, b \in 1 .. 2 : a = s[i + 2][1] /\ b = s[i + 2][2]
    BY <1>2, <2>1
  <2>3. 2 * (a - k) + b = (i + 2) + 2
    BY <1>3, <2>1, <2>2
  <2>4. 2 * (a - (k + 1)) + b = i + 2
    BY <2>1, <2>3, FoobarAssumption
  <2> QED BY <2>1, <2>2, <2>4
<1> QED BY <1>2, <1>4, <1>5, <1>7, <1>8, <1>9, <1>10, FoobarAssumption DEF BUFLEN

LEMMA AddPart ==
  ASSUME NEW s \in Seq(Parts), NEW k \in Nat, NEW a \in 1 .. Packets, NEW b \in 1 .. BUFLEN
  PROVE  /\ Append(s, <<a, b>>) \in Seq(Parts) /\ Len(Append(s, <<a, b>>)) = Len(s) + 1
         /\ Follow(s, k) /\ 2 * (a - k) + b = Len(s) + 3 => Follow(Append(s, <<a, b>>), k)
<1>0. PICK t : t = Append(s, <<a, b>>)
  OBVIOUS
<1>1. <<a, b>> \in Parts
  BY DEF Parts
<1>2. /\ t \in Seq(Parts) /\ Len(t) = Len(s) + 1 /\ Len(s) \in Nat
      /\ \A i \in 1 .. Len(s) : t[i] = s[i]
      /\ t[Len(s) + 1] = <<a, b>>
  BY <1>0, <1>1, AppendProperties
<1>3. ASSUME Follow(s, k), 2 * (a - k) + b = Len(s) + 3, NEW i \in DOMAIN t
      PROVE  2 * (t[i][1] - k) + t[i][2] = i + 2
  <2>1. i \in 1 .. Len(s) \/ i = Len(s) + 1
    BY <1>2
  <2>2. CASE i \in 1 .. Len(s)
    BY <1>2, <1>3, <2>2 DEF Follow
  <2>3. CASE i = Len(s) + 1
    BY <1>2, <1>3, <2>3
  <2> QED BY <2>1, <2>2, <2>3
<1> QED BY <1>0, <1>2, <1>3 DEF Follow

LEMMA AddPacket ==
  ASSUME NEW s \in Seq(Parts), NEW k \in Nat, NEW n \in 1 .. Packets
  PROVE  /\ s \o Packet(n) \in Seq(Parts) /\ Len(s \o Packet(n)) = Len(s) + 2
         /\ Follow(s, k) /\ Len(s) = 2 * (n - 1 - k) => Follow(s \o Packet(n), k)
<1>0. Len(s) \in Nat
  OBVIOUS
<1>1. PICK t : t = Append(s, <<n, 1>>)
  OBVIOUS
<1>2. PICK u : u = Append(t, <<n, 2>>)
  OBVIOUS
<1>3. /\ t \in Seq(Parts) /\ Len(t) = Len(s) + 1
      /\ Follow(s, k) /\ 2 * (n - k) + 1 = Len(s) + 3 => Follow(t, k)
  <2>1. 1 \in 1 .. BUFLEN
    BY DEF BUFLEN
  <2> QED BY <1>1, <2>1, AddPart
<1>4. /\ u \in Seq(Parts) /\ Len(u) = Len(t) + 1
      /\ Follow(t, k) /\ 2 * (n - k) + 2 = Len(t) + 3 => Follow(u, k)
  <2>1. 2 \in 1 .. BUFLEN
    BY DEF BUFLEN
  <2> QED BY <1>2, <1>3, <2>1, AddPart
<1>5. u = s \o Packet(n)
  <2>1. /\ Packet(n) \in Seq(Parts) /\ Len(Packet(n)) = 2
        /\ Packet(n)[1] = <<n, 1>> /\ Packet(n)[2] = <<n, 2>>
    BY PacketType
  <2>2. /\ s \o Packet(n) \in Seq(Parts) /\ Len(s \o Packet(n)) = Len(s) + 2
        /\ \A i \in 1 .. Len(s) : (s \o Packet(n))[i] = s[i]
        /\ (s \o Packet(n))[Len(s) + 1] = <<n, 1>> /\ (s \o Packet(n))[Len(s) + 2] = <<n, 2>>
    <3>1. PICK q : q = Packet(n)
      OBVIOUS
    <3>2. q \in Seq(Parts) /\ Len(q) = 2 /\ q[1] = <<n, 1>> /\ q[2] = <<n, 2>>
      BY <2>1, <3>1
    <3>3. /\ s \o q \in Seq(Parts) /\ Len(s \o q) = Len(s) + Len(q)
          /\ \A i \in 1 .. Len(s) + Len(q) :
                (s \o q)[i] = IF i <= Len(s) THEN s[i] ELSE q[i - Len(s)]
      BY <3>2, ConcatProperties
    <3>4. \A i \in 1 .. Len(s) : (s \o q)[i] = s[i]
      BY <1>0, <3>2, <3>3
    <3>5. (s \o q)[Len(s) + 1] = q[1]
      BY <1>0, <3>2, <3>3
    <3>6. (s \o q)[Len(s) + 2] = q[2]
      BY <1>0, <3>2, <3>3
    <3> QED BY <3>1, <3>2, <3>3, <3>4, <3>5, <3>6
  <2>3. <<n, 1>> \in Parts /\ <<n, 2>> \in Parts
    BY DEF Parts, BUFLEN
  <2>4. /\ \A i \in 1 .. Len(s) : t[i] = s[i] /\ u[i] = s[i]
        /\ u[Len(s) + 1] = <<n, 1>> /\ u[Len(s) + 2] = <<n, 2>>
    BY <1>1, <1>2, <1>3, <2>3, AppendProperties
  <2>5. ASSUME NEW i \in 1 .. Len(s) + 2 PROVE (s \o Packet(n))[i] = u[i]
    <3>1. i \in 1 .. Len(s) \/ i = Len(s) + 1 \/ i = Len(s) + 2
      OBVIOUS
    <3> QED BY <2>2, <2>4, <3>1
  <2>6. u \in Seq(Parts) /\ Len(u) = Len(s) + 2
    BY <1>0, <1>3, <1>4
  <2> QED BY <2>2, <2>5, <2>6, SeqEqual
<1> QED BY <1>3, <1>4, <1>5, <1>0


(* A step that concerns one client.                                         *)
LEMMA OneClient ==
  ASSUME HostTypeOK, FInv, NEW c \in Clients, \A p \in Procs \ {0} : pc'[p] = "none",
         \E s \in Seq(Parts) : stream' = [stream EXCEPT ![c] = s],
         \E n \in 0 .. Packets : sent' = [sent EXCEPT ![c] = n],
         \E t \in Seq(Buffers) :
           printed' = [printed EXCEPT ![c] = t] /\ Len(t) <= Packets,
         split' \subseteq Clients,
         client' = client \/ client' = [client EXCEPT ![c] = "quit"],
         \A d \in Clients : Pending(d)' => Pending(d),
         Stream(c)'
  PROVE  FInv'
<1>1. FoobarTypeOK' /\ printed' \in [Clients -> Seq(Buffers)]
  BY DEF FInv, FoobarTypeOK, Parts
<1>2. ASSUME NEW d \in Clients, d # c PROVE Stream(d)'
  <2>1. /\ stream'[d] = stream[d] /\ sent'[d] = sent[d] /\ printed'[d] = printed[d]
        /\ client'[d] = client[d] /\ Stream(d)
    BY <1>2 DEF FInv, FoobarTypeOK, HostTypeOK
  <2>2. Aligned(d) => Aligned(d)'
    BY <2>1 DEF Aligned
  <2>3. Whole(d)'
    BY <2>1 DEF Stream, Whole
  <2> QED BY <2>1, <2>2, <2>3 DEF Stream
<1>3. \A d \in Clients : client'[d] # "returned"
  BY DEF FInv, HostTypeOK
<1> QED BY <1>1, <1>2, <1>3 DEF FInv

(* The state of one client, in constants.                                   *)
LEMMA OneClientType ==
  ASSUME FInv, NEW c \in Clients
  PROVE  /\ stream[c] \in Seq(Parts) /\ stream \in [Clients -> Seq(Parts)]
         /\ sent[c] \in 0 .. Packets /\ sent \in [Clients -> 0 .. Packets]
         /\ printed[c] \in Seq(Buffers) /\ printed \in [Clients -> Seq(Buffers)]
         /\ Len(printed[c]) \in Nat /\ Len(printed[c]) <= sent[c] /\ split \subseteq Clients
         /\ Stream(c) /\ (Aligned(c) => Follow(stream[c], Len(printed[c])))
BY DEF FInv, FoobarTypeOK, Parts, Stream, Aligned, Follow

LEMMA RecvPacketKeeps ==
  ASSUME HInv, FInv, NEW c \in Clients, RecvPacket(c)
  PROVE  HInv' /\ FInv'
<1>1. PICK s, t, k : s = stream[c] /\ t = printed[c] /\ k = Len(printed[c])
  OBVIOUS
<1>2. PICK r, u : r = SubSeq(s, BUFLEN + 1, Len(s)) /\ u = Append(t, SubSeq(s, 1, BUFLEN))
  OBVIOUS
<1>3. /\ Len(s) >= 2 /\ pc[0] = "accepted" /\ Connection(0) = c
      /\ UNCHANGED <<hostVars, sent, split>>
      /\ stream' = [stream EXCEPT ![c] = r] /\ printed' = [printed EXCEPT ![c] = u]
  BY <1>1, <1>2 DEF RecvPacket, Received, PrintBuffer, BUFLEN
<1>4. HInv' /\ \A d : Pending(d)' <=> Pending(d)
  <2>1. faults' \in 0..MaxFaults /\ failed' \subseteq Clients
    BY <1>3 DEF HInv, HostTypeOK, hostVars
  <2> QED BY <1>3, <2>1, LeaveKeepsHInv DEF hostVars, clients
<1>5. Pending(c) /\ client[c] # "connecting"
  BY <1>3, Names DEF Pending, Serves, HInv, Places
<1>6. /\ s \in Seq(Parts) /\ t \in Seq(Buffers) /\ k \in Nat
      /\ k = Len(t) /\ sent[c] \in 0 .. Packets /\ Follow(s, k) /\ split \subseteq Clients
      /\ Aligned(c) /\ Whole(c)
  BY <1>1, <1>5, OneClientType DEF Stream
<1>7. /\ k + 1 \in 1 .. Packets /\ SubSeq(s, 1, BUFLEN) = Packet(k + 1)
      /\ r \in Seq(Parts) /\ Len(r) = Len(s) - 2 /\ Follow(r, k + 1)
  BY <1>2, <1>3, <1>6, TakePacket
<1>8. /\ u \in Seq(Buffers) /\ Len(u) = k + 1
      /\ \A n \in 1 .. k : u[n] = t[n]
      /\ u[k + 1] = Packet(k + 1)
  <2>1. PICK b : b = Packet(k + 1)
    OBVIOUS
  <2>2. b \in Buffers /\ u = Append(t, b)
    BY <1>2, <1>7, <2>1, PacketType
  <2>3. /\ u \in Seq(Buffers) /\ Len(u) = Len(t) + 1
        /\ (\A n \in 1 .. Len(t) : u[n] = t[n]) /\ u[Len(t) + 1] = b
    BY <1>6, <2>2, AppendProperties
  <2> QED BY <1>6, <2>1, <2>3
<1>9. stream'[c] = r /\ printed'[c] = u /\ sent'[c] = sent[c] /\ client'[c] = client[c]
  BY <1>3, OneClientType DEF hostVars, clients
<1>10. k + 1 <= sent[c]
       /\ (Len(r) = 2 * (sent[c] - (k + 1))
           \/ (client[c] = "quit" /\ sent[c] < Packets /\ Len(r) = 2 * (sent[c] - (k + 1)) + 1))
  <2>1. PICK l \in Nat, x \in Nat : l = Len(s) /\ x = sent[c]
    BY <1>6, FoobarAssumption
  <2>2. \/ l = 2 * (x - k)
        \/ client[c] = "quit" /\ x < Packets /\ l = 2 * (x - k) + 1
    BY <1>1, <1>6, <2>1 DEF Aligned
  <2>3. l >= 2 /\ Len(r) = l - 2
    BY <1>3, <1>7, <2>1
  <2>4. k + 1 <= x
    BY <1>6, <2>2, <2>3
  <2>5. \/ l - 2 = 2 * (x - (k + 1))
        \/ client[c] = "quit" /\ x < Packets /\ l - 2 = 2 * (x - (k + 1)) + 1
    BY <1>6, <2>2, <2>3
  <2> QED BY <2>1, <2>3, <2>4, <2>5
<1>11. Aligned(c)'
  BY <1>7, <1>8, <1>9, <1>10 DEF Aligned, Follow
<1>12. Whole(c)'
  <2>1. DOMAIN u = 1 .. k + 1 /\ DOMAIN t = 1 .. k
    BY <1>6, <1>8
  <2>2. \A n \in 1 .. k : t[n] = Packet(n)
    BY <1>1, <1>6, <2>1 DEF Whole
  <2>3. \A n \in 1 .. k + 1 : n \in 1 .. k \/ n = k + 1
    BY <1>6
  <2> QED BY <1>8, <1>9, <2>1, <2>2, <2>3 DEF Whole
<1>13. Stream(c)'
  BY <1>5, <1>8, <1>9, <1>10, <1>11, <1>12 DEF Stream
<1>14. \A p \in Procs \ {0} : pc'[p] = "none"
  BY <1>3 DEF FInv, hostVars, server
<1>15. sent' = [sent EXCEPT ![c] = sent[c]] /\ Len(u) <= Packets
  BY <1>3, <1>7, <1>8, OneClientType
<1> QED BY <1>3, <1>4, <1>6, <1>7, <1>8, <1>13, <1>14, <1>15, OneClient DEF hostVars, clients, HInv

(* The connection has ended: what is left of the stream is of no concern.    *)
LEMMA RecvShortKeeps ==
  ASSUME HInv, CInv', FInv, NEW c \in Clients, RecvShort(c), \A p \in Procs \ {0} : pc'[p] = "none"
  PROVE  HInv' /\ FInv'
<1>1. PICK s, r : s = stream[c] /\ r = SubSeq(s, 2, Len(s))
  OBVIOUS
<1>2. /\ c = Connection(0) /\ s # <<>> /\ CloseClient
      /\ UNCHANGED <<faults, sent, printed>> /\ stream' = [stream EXCEPT ![c] = r]
      /\ split' \subseteq split \cup {c}
  BY <1>1 DEF RecvShort, Received
<1>3. HInv' /\ ~Pending(c)' /\ \A d \in Clients : Pending(d)' => Pending(d)
  <2>1. faults' \in 0..MaxFaults
    BY <1>2 DEF HInv, HostTypeOK
  <2>2. fds' = [fds EXCEPT ![0][clfd[0]] = "none"]
    BY <1>2 DEF CloseClient, Replace
  <2> QED BY <1>2, <2>1, <2>2, CloseClientKeeps DEF CloseClient
<1>4. /\ s \in Seq(Parts) /\ Stream(c) /\ split \subseteq Clients
      /\ sent[c] \in 0 .. Packets /\ sent \in [Clients -> 0 .. Packets] /\ printed \in [Clients -> Seq(Buffers)]
      /\ printed[c] \in Seq(Buffers) /\ Len(printed[c]) <= Packets
  BY <1>1, OneClientType DEF FInv, FoobarTypeOK
<1>5. r \in Seq(Parts)
  <2>1. r = Tail(s)
    BY <1>1, <1>2, <1>4, TailIsSubSeq
  <2> QED BY <1>2, <1>4, <2>1, HeadTailProperties
<1>6. client' = client /\ Stream(c)'
  <2>1. client' = client /\ client[c] # "connecting"
    <3>1. Pending(c)
      BY <1>2, Names DEF CloseClient, Go, Pending, Serves
    <3> QED BY <1>2, <3>1 DEF CloseClient, clients, HInv, Places
  <2> QED BY <1>2, <1>3, <1>4, <2>1 DEF Stream, Whole
<1>7. sent' = [sent EXCEPT ![c] = sent[c]] /\ printed' = [printed EXCEPT ![c] = printed[c]]
  BY <1>2, <1>4
<1>8. HostTypeOK /\ split' \subseteq Clients
  BY <1>2, <1>4 DEF HInv
<1>9. /\ \E t \in Seq(Parts) : stream' = [stream EXCEPT ![c] = t]
      /\ \E n \in 0 .. Packets : sent' = [sent EXCEPT ![c] = n]
      /\ \E t \in Seq(Buffers) : printed' = [printed EXCEPT ![c] = t] /\ Len(t) <= Packets
  BY <1>2, <1>4, <1>5, <1>7
<1>10. FInv'
  BY <1>3, <1>6, <1>8, <1>9, OneClient
<1> QED BY <1>3, <1>10

LEMMA RecvEndKeeps ==
  ASSUME HInv, CInv', FInv, NEW c \in Clients, RecvEOF(c) \/ RecvError(c),
         \A p \in Procs \ {0} : pc'[p] = "none"
  PROVE  HInv' /\ FInv'
<1>1. /\ c = Connection(0) /\ Go(0, "accepted", "accept")
      /\ fds' = [fds EXCEPT ![0][clfd[0]] = "none"] /\ UNCHANGED foobarVars
      /\ UNCHANGED <<fd, clfd, addresses, clients, standard>>
      /\ faults' \in 0..MaxFaults
      /\ \/ Replace([fds EXCEPT ![0][clfd[0]] = "none"])
         \/ backlog' = backlog /\ failed' = failed \cup {c}
  <2>1. CASE RecvEOF(c)
    BY <2>1 DEF RecvEOF, CloseClient, Replace, HInv, HostTypeOK
  <2>2. CASE RecvError(c)
    BY <2>2 DEF RecvError, Fault, HInv, HostTypeOK
  <2> QED BY <2>1, <2>2
<1>2. HInv' /\ \A d \in Clients : Pending(d)' => Pending(d)
  BY <1>1, CloseClientKeeps
<1>3. client' = client
  BY <1>1 DEF clients
<1> QED BY <1>1, <1>2, <1>3, StreamsKept

LEMMA SendKeeps ==
  ASSUME HInv, FInv, NEW c \in Clients, Send(c)
  PROVE  HInv' /\ FInv'
<1>1. PICK s, n, k : s = stream[c] /\ n = sent[c] + 1 /\ k = Len(printed[c])
  OBVIOUS
<1>2. PICK r : r = IF Open(c) THEN s \o Packet(n) ELSE s
  OBVIOUS
<1>3. /\ client[c] = "connected" /\ sent[c] < Packets /\ UNCHANGED <<hostVars, printed, split>>
      /\ sent' = [sent EXCEPT ![c] = n] /\ stream' = [stream EXCEPT ![c] = r]
  BY <1>1, <1>2 DEF Send
<1>4. HInv' /\ \A d : Pending(d)' <=> Pending(d)
  <2>1. faults' \in 0..MaxFaults /\ failed' \subseteq Clients
    BY <1>3 DEF HInv, HostTypeOK, hostVars
  <2> QED BY <1>3, <2>1, LeaveKeepsHInv DEF hostVars, clients
<1>5. /\ s \in Seq(Parts) /\ n \in 1 .. Packets /\ k \in Nat /\ k <= sent[c] /\ n = sent[c] + 1
      /\ printed[c] \in Seq(Buffers) /\ Len(printed[c]) <= Packets
      /\ split \subseteq Clients /\ Stream(c) /\ (Aligned(c) => Follow(s, k))
      /\ sent[c] \in Nat
  BY <1>1, <1>3, OneClientType, FoobarAssumption DEF FInv, FoobarTypeOK
<1>6. /\ s \o Packet(n) \in Seq(Parts) /\ Len(s \o Packet(n)) = Len(s) + 2
      /\ Follow(s, k) /\ Len(s) = 2 * (n - 1 - k) => Follow(s \o Packet(n), k)
  BY <1>5, AddPacket
<1>7. stream'[c] = r /\ printed'[c] = printed[c] /\ sent'[c] = n /\ client'[c] = client[c]
  BY <1>3, OneClientType DEF hostVars, clients
<1>8. r \in Seq(Parts)
  BY <1>2, <1>5, <1>6
<1>9. ASSUME Pending(c) PROVE Aligned(c)'
  <2>1. Aligned(c) /\ Open(c)
    BY <1>5, <1>9, PendingIsOpen DEF Stream
  <2>2. r = s \o Packet(n)
    BY <1>2, <2>1
  <2>3. Len(s) = 2 * (sent[c] - k) /\ Follow(s, k)
    BY <1>1, <1>3, <1>5, <2>1 DEF Aligned
  <2>4. Len(s) = 2 * (n - 1 - k) /\ Len(r) = 2 * (n - k)
    BY <1>5, <1>6, <2>2, <2>3
  <2>5. Follow(r, k)
    BY <1>6, <2>2, <2>3, <2>4
  <2> QED BY <1>1, <1>7, <2>4, <2>5 DEF Aligned, Follow
<1>10. Stream(c)'
  <2>1. Whole(c)' /\ Len(printed'[c]) <= sent'[c]
    BY <1>1, <1>5, <1>7 DEF Stream, Whole
  <2> QED BY <1>3, <1>4, <1>7, <1>9, <2>1 DEF Stream
<1>11. \A p \in Procs \ {0} : pc'[p] = "none"
  BY <1>3 DEF FInv, hostVars, server
<1>12. printed' = [printed EXCEPT ![c] = printed[c]] /\ n \in 0 .. Packets
  BY <1>3, <1>5, OneClientType
<1> QED BY <1>3, <1>4, <1>5, <1>8, <1>10, <1>11, <1>12, OneClient DEF hostVars, clients, HInv

LEMMA SendShortKeeps ==
  ASSUME HInv, FInv, NEW c \in Clients, SendShort(c)
  PROVE  HInv' /\ FInv'
<1>1. PICK s, n, k : s = stream[c] /\ n = sent[c] + 1 /\ k = Len(printed[c])
  OBVIOUS
<1>2. PICK r : r = IF Open(c) THEN Append(s, <<n, 1>>) ELSE s
  OBVIOUS
<1>3. /\ client[c] = "connected" /\ client' = [client EXCEPT ![c] = "quit"] /\ sent[c] < Packets
      /\ UNCHANGED <<server, attempts, standard, failed, sent, printed, split>>
      /\ stream' = [stream EXCEPT ![c] = r] /\ faults' \in 0..MaxFaults
  BY <1>1, <1>2 DEF SendShort, Leave, Fault, HInv, HostTypeOK
<1>4. HInv' /\ \A d : Pending(d)' <=> Pending(d)
  BY <1>3, LeaveKeepsHInv DEF HInv, HostTypeOK
<1>5. /\ s \in Seq(Parts) /\ n \in 1 .. Packets /\ k \in Nat /\ k <= sent[c] /\ n = sent[c] + 1
      /\ printed[c] \in Seq(Buffers) /\ Len(printed[c]) <= Packets
      /\ split \subseteq Clients /\ Stream(c) /\ (Aligned(c) => Follow(s, k))
      /\ sent[c] \in 0 .. Packets
  BY <1>1, <1>3, OneClientType, FoobarAssumption DEF FInv, FoobarTypeOK
<1>6. /\ Append(s, <<n, 1>>) \in Seq(Parts) /\ Len(Append(s, <<n, 1>>)) = Len(s) + 1
      /\ Follow(s, k) /\ 2 * (n - k) + 1 = Len(s) + 3 => Follow(Append(s, <<n, 1>>), k)
  <2>1. 1 \in 1 .. BUFLEN
    BY DEF BUFLEN
  <2> QED BY <1>5, <2>1, AddPart
<1>7. stream'[c] = r /\ printed'[c] = printed[c] /\ sent'[c] = sent[c] /\ client'[c] = "quit"
  BY <1>3, OneClientType DEF HInv, HostTypeOK
<1>8. r \in Seq(Parts)
  BY <1>2, <1>5, <1>6
<1>9. ASSUME Pending(c) PROVE Aligned(c)'
  <2>1. Aligned(c) /\ Open(c)
    BY <1>5, <1>9, PendingIsOpen DEF Stream
  <2>2. r = Append(s, <<n, 1>>)
    BY <1>2, <2>1
  <2>3. Len(s) = 2 * (sent[c] - k) /\ Follow(s, k)
    BY <1>1, <1>3, <1>5, <2>1 DEF Aligned
  <2>4. 2 * (n - k) + 1 = Len(s) + 3 /\ Len(r) = 2 * (sent[c] - k) + 1
    <3>1. PICK x \in Nat : x = sent[c]
      BY <1>5, FoobarAssumption
    <3>2. 2 * ((x + 1) - k) + 1 = 2 * (x - k) + 3
      BY <1>5
    <3> QED BY <1>5, <1>6, <2>2, <2>3, <3>1, <3>2
  <2>5. Follow(r, k)
    BY <1>6, <2>2, <2>3, <2>4
  <2> QED BY <1>1, <1>3, <1>7, <2>4, <2>5 DEF Aligned, Follow
<1>10. Stream(c)'
  <2>1. Whole(c)' /\ Len(printed'[c]) <= sent'[c]
    BY <1>1, <1>5, <1>7 DEF Stream, Whole
  <2> QED BY <1>4, <1>7, <1>9, <2>1 DEF Stream
<1>11. \A p \in Procs \ {0} : pc'[p] = "none"
  BY <1>3 DEF FInv, server
<1>12. /\ printed' = [printed EXCEPT ![c] = printed[c]] /\ sent' = [sent EXCEPT ![c] = sent[c]]
  BY <1>3, OneClientType
<1> QED BY <1>3, <1>4, <1>5, <1>8, <1>10, <1>11, <1>12, OneClient DEF HInv

LEMMA LeavesKeep ==
  ASSUME HInv, FInv, NEW c \in Clients, SendRefused(c) \/ Quit(c)
  PROVE  HInv' /\ FInv'
<1>1. /\ client[c] = "connected" /\ client' = [client EXCEPT ![c] = "quit"]
      /\ UNCHANGED <<server, attempts, faults, standard, failed, foobarVars>>
  BY DEF SendRefused, Quit, Leave
<1>2. HInv' /\ \A d : Pending(d)' <=> Pending(d)
  BY <1>1, LeaveKeepsHInv DEF HInv, HostTypeOK
<1>3. \A p \in Procs \ {0} : pc'[p] = "none"
  BY <1>1 DEF FInv, server
<1>4. \A d \in Clients : client'[d] = client[d] \/ client'[d] = "quit"
  BY <1>1 DEF HInv, HostTypeOK
<1>5. \A d \in Clients : client[d] = "quit" => client'[d] = "quit"
  BY <1>1 DEF HInv, HostTypeOK
<1> QED BY <1>1, <1>2, <1>3, <1>4, <1>5, StreamsKept


LEMMA FoobarStep ==
  ASSUME HInv, CInv, FInv, CInv', FoobarNext
  PROVE  HInv' /\ FInv'
<1>1. \A p \in Procs \ {0} : pc'[p] = "none"
  BY FoobarAlone
<1>2. CASE Listen /\ UNCHANGED foobarVars
  <2>1. PICK S \in SUBSET Procs : Orderly(S)
    BY <1>2, ListenOrderly
  <2>2. HInv' /\ \A c \in Clients : Pending(c)' => Pending(c)
    BY <2>1, OrderlyKeepsHInv
  <2>3. client' = client
    BY <2>1 DEF Orderly, clients
  <2> QED BY <1>1, <1>2, <2>2, <2>3, StreamsKept
<1>3. ASSUME NEW c \in Clients, connect_retry(c), UNCHANGED foobarVars PROVE HInv' /\ FInv'
  <2>1. CASE Connect(c)
    <3>1. HInv' /\ \A d : Pending(d)' <=> Pending(d) \/ d = c
      BY <2>1, ConnectKeepsHInv
    <3>2. client[c] = "connecting" /\ client' = [client EXCEPT ![c] = "connected"]
      BY <2>1 DEF Connect
    <3>3. \A d \in Clients : /\ client'[d] = client[d] \/ client'[d] = "connected"
                             /\ client[d] = "quit" => client'[d] = "quit"
      BY <3>2 DEF HInv, HostTypeOK
    <3> QED BY <1>1, <1>3, <3>1, <3>2, <3>3, StreamsKept
  <2>2. CASE ConnectFails(c) \/ SocketFails(c)
    <3>1. HInv' /\ \A d : Pending(d)' <=> Pending(d)
      BY <2>2, ConnectFailsKeepsHInv
    <3>2. /\ client[c] = "connecting"
          /\ \/ client' = [client EXCEPT ![c] = "gave_up"]
             \/ client' = [client EXCEPT ![c] = client[c]]
      BY <2>2 DEF ConnectFails, SocketFails
    <3>3. \A d \in Clients : /\ client'[d] = client[d] \/ client'[d] = "gave_up"
                             /\ client[d] = "quit" => client'[d] = "quit"
      BY <3>2 DEF HInv, HostTypeOK
    <3> QED BY <1>1, <1>3, <3>1, <3>3, StreamsKept
  <2> QED BY <1>3, <2>1, <2>2 DEF connect_retry
<1>4. ASSUME NEW c \in Clients, serve(c) PROVE HInv' /\ FInv'
  BY <1>1, <1>4, RecvPacketKeeps, RecvShortKeeps, RecvEndKeeps DEF serve
<1>5. ASSUME NEW c \in Clients, interactive(c) PROVE HInv' /\ FInv'
  BY <1>5, SendKeeps, SendShortKeeps, LeavesKeep DEF interactive
<1> QED BY <1>2, <1>3, <1>4, <1>5 DEF FoobarNext
-----------------------------------------------------------------------------
(* The two programs.                                                        *)
LEMMA InitIInv == SocketInit => IInv
<1> SUFFICES ASSUME SocketInit PROVE IInv
  OBVIOUS
<1>1. /\ HostInit /\ UptimeInit /\ FoobarInit /\ program \in {"uptime", "foobar"} /\ Chain
      /\ standard \subseteq 0..2
  BY InitCInv DEF CInv, SocketInit, HostInit
<1>2. HostTypeOK
  <2>1. fds \in [Procs -> [FDs -> Objects]]
    BY <1>1, Names DEF HostInit, NoFiles
  <2>2. backlog \in Seq(Clients) /\ Len(backlog) <= QLEN
    BY <1>1 DEF HostInit
  <2> QED BY <1>1, <2>1, <2>2, Names DEF HostInit, HostTypeOK
<1>3. ASSUME NEW p \in Procs PROVE Tables(p) /\ \A c : ~Serves(p, c)
  <2>1. \A f \in FDs : f > 2 => fds[0][f] = "none"
    BY <1>1, Names DEF HostInit
  <2>2. Room(p)
    BY <1>1, <2>1, Names DEF HostInit, Room
  <2>3. Output(p)
    BY <1>1, Names DEF HostInit, Output
  <2>4. \A c : ~Serves(p, c)
    BY <1>1 DEF HostInit, Serves
  <2> QED BY <2>2, <2>3, <2>4 DEF Tables
<1>4. \A c : ~Pending(c)
  BY <1>1, <1>3 DEF Pending, Waiting, ToSet, HostInit
<1>5. Places
  <2>1. IsInjective(backlog)
    <3>1. backlog = <<>> /\ DOMAIN <<>> = {}
      BY <1>1 DEF HostInit
    <3> QED BY <3>1 DEF IsInjective
  <2>2. \A p \in Procs : pc[p] \notin {"accepted", "child"}
    BY <1>1 DEF HostInit
  <2>3. \A c \in Clients : attempts[c] > 0
    BY <1>1 DEF HostInit
  <2> QED BY <1>3, <1>4, <2>1, <2>2, <2>3 DEF Places
<1>6. UInv
  <2>1. UptimeTypeOK
    BY <1>1, UptimeAssumption DEF UptimeInit, UptimeTypeOK
  <2>2. ASSUME NEW c \in Clients PROVE Answer(c)
    BY <1>1, UptimeAssumption DEF UptimeInit, HostInit, Answer, Fresh
  <2> QED BY <2>1, <2>2 DEF UInv
<1>7. FInv
  <2>1. FoobarTypeOK /\ printed \in [Clients -> Seq(Buffers)]
    BY <1>1, FoobarAssumption DEF FoobarInit, FoobarTypeOK
  <2>2. ASSUME NEW c \in Clients PROVE Stream(c) /\ client[c] # "returned"
    <3>1. stream[c] = <<>> /\ sent[c] = 0 /\ printed[c] = <<>> /\ client[c] = "connecting"
      BY <1>1 DEF FoobarInit, HostInit
    <3>2. Len(<<>>) = 0 /\ DOMAIN <<>> = {}
      OBVIOUS
    <3> QED BY <3>1, <3>2 DEF Stream, Whole, Aligned
  <2>3. \A p \in Procs \ {0} : pc[p] = "none"
    BY <1>1 DEF HostInit
  <2> QED BY <2>1, <2>2, <2>3 DEF FInv
<1> QED BY <1>1, <1>2, <1>3, <1>5, <1>6, <1>7 DEF IInv, HInv

LEMMA StepIInv == IInv /\ [SocketNext]_socketVars => IInv'
<1> SUFFICES ASSUME IInv, [SocketNext]_socketVars PROVE IInv'
  OBVIOUS
<1>1. CInv /\ CInv' /\ HInv
  <2>1. CInv
    BY DEF IInv, HInv, CInv, HostTypeOK, Labels
  <2> QED BY <2>1, StepCInv DEF IInv
<1>2. CASE program = "uptime" /\ program' = program /\ UptimeNext /\ UNCHANGED foobarVars
  <2>1. HInv' /\ UInv'
    BY <1>1, <1>2, UptimeStep DEF IInv
  <2>2. FoobarInit'
    BY <1>2 DEF IInv, FoobarInit, foobarVars
  <2> QED BY <1>2, <2>1, <2>2 DEF IInv
<1>3. CASE program = "foobar" /\ program' = program /\ FoobarNext /\ UNCHANGED uptimeVars
  <2>1. HInv' /\ FInv'
    BY <1>1, <1>3, FoobarStep DEF IInv
  <2>2. UptimeInit'
    BY <1>3 DEF IInv, UptimeInit, uptimeVars
  <2> QED BY <1>3, <2>1, <2>2 DEF IInv
<1>4. CASE UNCHANGED socketVars
  <2>1. UNCHANGED <<server, clients, faults, standard, failed, uptimeVars, foobarVars, program>>
    BY <1>4 DEF socketVars, hostVars
  <2>2. UNCHANGED <<client, attempts, stream, sent, printed, split, data, got, unserved,
                    pc, fds, fd, clfd, addresses, backlog>>
    BY <2>1 DEF clients, uptimeVars, foobarVars, server
  <2>3. HostTypeOK'
    BY <1>1, <2>1, <2>2 DEF HInv, HostTypeOK
  <2>4. HInv' /\ \A c : Pending(c)' <=> Pending(c)
    <3>1. \A c \in Clients :
            client'[c] = "connecting" => client[c] = "connecting" /\ attempts'[c] > 0
      BY <1>1, <2>2 DEF HInv, Places
    <3> QED BY <1>1, <2>1, <2>3, <3>1, IdleKeepsHInv
  <2>5. UInv => UInv'
    BY <2>1, <2>2, <2>4 DEF UInv, UptimeTypeOK, Answer, Fresh
  <2>6. FInv => FInv'
    <3>1. ASSUME FInv PROVE \A p \in Procs \ {0} : pc'[p] = "none"
      BY <2>2, <3>1 DEF FInv
    <3> QED BY <2>1, <2>2, <2>4, <3>1, StreamsKept
  <2>7. (FoobarInit => FoobarInit') /\ (UptimeInit => UptimeInit')
    BY <2>2 DEF FoobarInit, UptimeInit
  <2> QED BY <2>1, <2>4, <2>5, <2>6, <2>7 DEF IInv
<1> QED BY <1>2, <1>3, <1>4 DEF SocketNext

LEMMA IInvHolds == SocketSpec => []IInv
BY InitIInv, StepIInv, PTL DEF SocketSpec

(* The states of the server and of both programs are what they are declared  *)
(* to be: there is a free descriptor whenever one is needed.                *)
THEOREM SocketTypes == SocketSpec => [](HostTypeOK /\ UptimeTypeOK /\ FoobarTypeOK)
<1>1. IInv => HostTypeOK /\ UptimeTypeOK /\ FoobarTypeOK
  <2>1. UptimeInit => UptimeTypeOK
    BY UptimeAssumption DEF UptimeInit, UptimeTypeOK
  <2>2. FoobarInit => FoobarTypeOK
    BY FoobarAssumption DEF FoobarInit, FoobarTypeOK
  <2> QED BY <2>1, <2>2 DEF IInv, HInv, UInv, FInv
<1> QED BY <1>1, IInvHolds, PTL

(* A client no call for whose connection failed has printed the whole text of *)
(* uptime when it ends.                                                     *)
THEOREM AnswersWhole == SocketSpec => []AnswersAreWhole
<1>1. IInv => AnswersAreWhole
  BY DEF IInv, UInv, FInv, Answer, AnswersAreWhole
<1> QED BY <1>1, IInvHolds, PTL

(* What the server prints for a client are whole packets, from the first one  *)
(* the client sent and in their order.                                      *)
THEOREM PacketsWhole == SocketSpec => []PacketsArriveWhole
<1>1. FoobarInit => PacketsArriveWhole
  BY DEF FoobarInit, PacketsArriveWhole
<1>2. FInv => PacketsArriveWhole
  BY DEF FInv, Stream, Whole, PacketsArriveWhole
<1>3. IInv => PacketsArriveWhole
  BY <1>1, <1>2 DEF IInv
<1> QED BY <1>3, IInvHolds, PTL

(* Only one process of the uptime server accepts connections or serves one,   *)
(* however many forks, dup2s and execls fail.                               *)
THEOREM Invariance == SocketSpec => []OneServer
<1>1. CInv => OneServer
  <2> SUFFICES ASSUME CInv, NEW p \in Procs, NEW q \in Procs,
                      pc[p] \in {"accept", "accepted"}, pc[q] \in {"accept", "accepted"}
               PROVE  p = q
    BY DEF OneServer
  <2>1. ~(p < q) /\ ~(q < p)
    BY DEF CInv, Chain
  <2> QED BY <2>1 DEF Procs
<1> QED BY InitCInv, StepCInv, <1>1, PTL DEF SocketSpec
=============================================================================
