--------------------- MODULE ThreadManagerHandshakeProofs ---------------------
(***************************************************************************)
(* For any finite set of workers: until some wait returns by itself, the    *)
(* handshakes of manager_worker/03 order each notification after the wait   *)
(* it is meant for, and an answer means that the request is done.           *)
(*                                                                          *)
(* The invariant says of each worker, in terms of its role in the manager's  *)
(* call, how far it can be with the request.                                *)
(***************************************************************************)
EXTENDS ThreadManagerHandshake, FiniteSetTheorems, SequenceTheorems, TLAPS

USE HandshakeAssumption

(* The roles of a worker in the call: to be notified, its flag raised, about  *)
(* to be notified, notified, waited for, heard, and being joined.           *)
Raised(w) == mpc \in {"sync", "notify"} /\ w = Head(todo)
Called(w) == mpc = "notify" /\ w = Head(todo)
Awaited(w) == mpc \in {"waiting", "awake"} /\ w = Head(pending)
Answered(w) == mpc = "awake" /\ w = Head(pending)
Joined(w) == mpc = "join" /\ Listed(w)

(* Whatever wakes up by itself: the lists fit the manager's place, and only   *)
(* InitWorkers has more than one worker in its call.                        *)
Shape ==
  /\ IsInjective(todo) /\ IsInjective(pending)
  /\ \A w \in Workers : ~(Listed(w) /\ Notified(w))
  /\ mpc \in {"raise", "sync", "notify", "join"} <=> todo # <<>>
  /\ mpc \in {"wait", "waiting", "awake"} => pending # <<>>
  /\ mpc \in {"idle", "join"} => pending = <<>>
  /\ op # "init" => \A u, v \in Workers : InCall(u) /\ InCall(v) => u = v
  /\ op = "new" => mpc \in {"waiting", "awake"}
  /\ mpc = "join" => op # "init"

Sleeping(w) == thread[w] \in {"blocking", "asleep"}

(* A worker at rest, between two calls, sleeps, runs or does not exist.      *)
Waits(w) == /\ Sleeping(w) /\ ~is_running[w] /\ ~to_quit[w]
            /\ is_inited[w] <=> to_init[w]
            /\ is_inited[w] => resume[w] \in {"inner", "run_loop"}
            /\ ~is_inited[w] => resume[w] = "outer"
Runs(w) == /\ thread[w] \in {"run", "run_loop"} /\ is_running[w] /\ is_inited[w]
           /\ to_run[w] /\ to_init[w] /\ ~to_quit[w]
Rests(w) == Waits(w) \/ Runs(w) \/ thread[w] = "none"

(* The calls a worker at rest may be named in.                              *)
Suits(w) == /\ op = "init"   => Waits(w) /\ ~is_inited[w]
            /\ op = "run"    => Waits(w) /\ is_inited[w]
            /\ op = "stop"   => Runs(w)
            /\ op = "deinit" => is_inited[w] /\ thread[w] # "none"
            /\ op = "delete" => thread[w] # "none"

(* Where a worker can be from the request to the answer, call by call.       *)
NewPath(w) ==
  /\ ~is_inited[w] /\ ~is_running[w] /\ ~to_init[w] /\ ~to_run[w] /\ ~to_quit[w]
  /\ resume[w] = "outer"
  /\ Answered(w) => Sleeping(w)
  /\ ~Answered(w) => thread[w] \in {"sync", "tell"}

InitPath(w) ==
  /\ to_init[w] /\ ~to_quit[w] /\ ~is_running[w]
  /\ Raised(w) => Sleeping(w) /\ ~is_inited[w] /\ resume[w] = "outer"
  /\ Answered(w) => Sleeping(w) /\ is_inited[w] /\ resume[w] = "run_loop"
  /\ ~Raised(w) /\ ~Answered(w) =>
       \/ /\ ~is_inited[w] /\ resume[w] = "outer"
          /\ thread[w] \in {"awake", "outer", "inner", "init"}
       \/ is_inited[w] /\ thread[w] \in {"sync", "tell"} /\ resume[w] = "run_loop"

RunPath(w) ==
  /\ to_init[w] /\ to_run[w] /\ ~to_quit[w] /\ is_inited[w]
  /\ Raised(w) => Sleeping(w) /\ ~is_running[w] /\ resume[w] \in {"inner", "run_loop"}
  /\ Answered(w) => thread[w] \in {"run", "run_loop"} /\ is_running[w]
  /\ ~Raised(w) /\ ~Answered(w) =>
       \/ /\ ~is_running[w] /\ resume[w] \in {"inner", "run_loop"}
          /\ thread[w] \in {"awake", "inner", "run_loop", "start"}
       \/ is_running[w] /\ thread[w] \in {"run_sync", "run_tell"}

(* A worker that runs may see the flag and stop before it is notified, and   *)
(* its answer then finds nobody who waits.                                  *)
StopPath(w) ==
  /\ to_init[w] /\ ~to_run[w] /\ ~to_quit[w] /\ is_inited[w]
  /\ \/ is_running[w] /\ thread[w] \in {"run", "run_loop", "stop"} /\ ~Answered(w)
     \/ /\ ~is_running[w] /\ resume[w] = "inner"
        /\ \/ Sleeping(w)
           \/ /\ ~Answered(w)
              /\ thread[w] \in {"sync", "tell", "awake", "inner", "run_loop", "stop"}

DeinitPath(w) ==
  /\ ~to_init[w] /\ ~to_quit[w]
  /\ \/ /\ is_running[w] /\ is_inited[w] /\ to_run[w] /\ ~Answered(w)
        /\ thread[w] \in {"run", "run_loop", "stop", "inner", "deinit"}
     \/ /\ ~is_running[w] /\ is_inited[w] /\ ~Answered(w)
        /\ resume[w] \in {"inner", "run_loop"}
        /\ Sleeping(w) \/ thread[w] \in {"awake", "inner", "run_loop", "stop", "deinit"}
     \/ /\ ~is_running[w] /\ ~is_inited[w] /\ resume[w] = "outer"
        /\ \/ Sleeping(w)
           \/ /\ ~Answered(w)
              /\ thread[w] \in {"sync", "tell", "awake", "outer", "inner", "deinit"}

DeletePath(w) ==
  /\ to_quit[w]
  /\ \/ /\ ~Answered(w)
        /\ is_inited[w] => to_init[w]
        /\ is_running[w] => to_run[w]
        /\ \/ Sleeping(w)
           \/ thread[w] \in {"awake", "outer", "inner", "run_loop", "run", "stop", "deinit",
                             "quit"}
     \/ /\ ~is_inited[w] /\ ~is_running[w]
        /\ \/ thread[w] = "ended"
           \/ ~Answered(w) /\ thread[w] \in {"quit_sync", "quit_tell"}

Path(w) == /\ op = "new"    => NewPath(w)
           /\ op = "init"   => InitPath(w)
           /\ op = "run"    => RunPath(w)
           /\ op = "stop"   => StopPath(w)
           /\ op = "deinit" => DeinitPath(w)
           /\ op = "delete" => DeletePath(w)

(* The mutexes: a worker about to block holds its request mutex, the manager  *)
(* holds the response mutex of whom it has notified and does not wait for.  *)
Mutexes(w) == /\ thread[w] = "blocking" => req[w] # "free"
              /\ Notified(w) /\ ~Awaited(w) => resp[w] = "manager"

(* What those mutexes are for.                                              *)
Handshake(w) ==
  /\ op \in {"init", "run"} /\ Called(w) => thread[w] = "asleep"
  /\ op \in {"new", "init", "run"} /\ Notified(w) /\ thread[w] \in {"tell", "run_tell"} =>
       Awaited(w) /\ ~Answered(w)

Local(w) ==
  /\ Mutexes(w) /\ Handshake(w)
  /\ thread[w] \in {"none", "ended"} /\ ~Raised(w) /\ ~Notified(w) =>
       ~is_inited[w] /\ ~is_running[w]
  /\ Raised(w) \/ Notified(w) => Path(w)
  /\ Joined(w) => thread[w] = "ended"
  /\ ~Raised(w) /\ ~Notified(w) /\ ~Joined(w) => Rests(w) /\ (Listed(w) => Suits(w))

IInv == TypeOK /\ Shape /\ (spurious = 0 => \A w \in Workers : Local(w))
-----------------------------------------------------------------------------
(* The lists of a call, as sets.                                            *)
LEMMA HeadAndTail ==
  ASSUME NEW s \in Seq(Workers), s # <<>>, IsInjective(s)
  PROVE  /\ Head(s) \in Workers /\ Head(s) \in ToSet(s)
         /\ Tail(s) \in Seq(Workers) /\ IsInjective(Tail(s))
         /\ ToSet(Tail(s)) = ToSet(s) \ {Head(s)}
         /\ Len(Tail(s)) = Len(s) - 1
<1>1. /\ Head(s) = s[1] /\ 1 \in DOMAIN s /\ Len(s) \in Nat \ {0}
      /\ \A i \in DOMAIN s : s[i] \in Workers
      /\ Tail(s) \in Seq(Workers) /\ Len(Tail(s)) = Len(s) - 1
      /\ DOMAIN Tail(s) = 1..(Len(s) - 1)
      /\ \A i \in 1..(Len(s) - 1) : Tail(s)[i] = s[i + 1]
  BY HeadTailProperties
<1>2. IsInjective(Tail(s))
  <2> SUFFICES ASSUME NEW i \in DOMAIN Tail(s), NEW j \in DOMAIN Tail(s), Tail(s)[i] = Tail(s)[j]
               PROVE  i = j
    BY DEF IsInjective
  <2>1. i + 1 \in DOMAIN s /\ j + 1 \in DOMAIN s /\ s[i + 1] = s[j + 1]
    BY <1>1
  <2>2. i + 1 = j + 1
    BY <2>1 DEF IsInjective
  <2> QED BY <1>1, <2>2
<1>3. ASSUME NEW x PROVE x \in ToSet(Tail(s)) <=> x \in ToSet(s) /\ x # Head(s)
  <2>1. ASSUME x \in ToSet(Tail(s)) PROVE x \in ToSet(s) /\ x # Head(s)
    <3>1. PICK i \in 1..(Len(s) - 1) : x = s[i + 1]
      BY <1>1, <2>1 DEF ToSet
    <3>2. i + 1 \in DOMAIN s /\ i + 1 # 1
      BY <1>1
    <3> QED BY <1>1, <3>1, <3>2 DEF IsInjective, ToSet
  <2>2. ASSUME x \in ToSet(s), x # Head(s) PROVE x \in ToSet(Tail(s))
    <3>1. PICK i \in DOMAIN s : x = s[i]
      BY <2>2 DEF ToSet
    <3>2. i - 1 \in 1..(Len(s) - 1) /\ (i - 1) + 1 = i
      BY <1>1, <2>2, <3>1
    <3> QED BY <1>1, <3>1, <3>2 DEF ToSet
  <2> QED BY <2>1, <2>2
<1>4. Head(s) \in ToSet(s) /\ Head(s) \in Workers
  BY <1>1 DEF ToSet
<1> QED BY <1>1, <1>2, <1>3, <1>4

LEMMA AppendOne ==
  ASSUME NEW s \in Seq(Workers), IsInjective(s), NEW w \in Workers, w \notin ToSet(s)
  PROVE  /\ Append(s, w) \in Seq(Workers) /\ Append(s, w) # <<>>
         /\ IsInjective(Append(s, w))
         /\ ToSet(Append(s, w)) = ToSet(s) \cup {w}
         /\ Len(Append(s, w)) = Len(s) + 1
<1>1. /\ Append(s, w) \in Seq(Workers) /\ Append(s, w) # <<>>
      /\ Len(Append(s, w)) = Len(s) + 1 /\ Len(s) \in Nat
      /\ DOMAIN s = 1..Len(s) /\ DOMAIN Append(s, w) = 1..(Len(s) + 1)
      /\ \A i \in 1..Len(s) : Append(s, w)[i] = s[i]
      /\ Append(s, w)[Len(s) + 1] = w
  BY AppendProperties
<1>2. \A i \in 1..Len(s) : s[i] # w
  BY <1>1 DEF ToSet
<1>3. IsInjective(Append(s, w))
  <2> SUFFICES ASSUME NEW i \in 1..(Len(s) + 1), NEW j \in 1..(Len(s) + 1),
                      Append(s, w)[i] = Append(s, w)[j]
               PROVE  i = j
    BY <1>1 DEF IsInjective
  <2>1. CASE i \in 1..Len(s) /\ j \in 1..Len(s)
    BY <1>1, <2>1 DEF IsInjective
  <2>2. CASE i = Len(s) + 1 \/ j = Len(s) + 1
    BY <1>1, <1>2, <2>2
  <2> QED BY <1>1, <2>1, <2>2
<1>4. ToSet(Append(s, w)) = ToSet(s) \cup {w}
  <2>1. ASSUME NEW x PROVE x \in ToSet(Append(s, w)) <=> x \in ToSet(s) \/ x = w
    <3>1. ASSUME x \in ToSet(Append(s, w)) PROVE x \in ToSet(s) \/ x = w
      <4>1. PICK i \in 1..(Len(s) + 1) : x = Append(s, w)[i]
        BY <1>1, <3>1 DEF ToSet
      <4>2. i \in 1..Len(s) \/ i = Len(s) + 1
        BY <1>1
      <4> QED BY <1>1, <4>1, <4>2 DEF ToSet
    <3>2. ASSUME x \in ToSet(s) \/ x = w PROVE x \in ToSet(Append(s, w))
      <4>1. CASE x \in ToSet(s)
        <5>1. PICK i \in 1..Len(s) : x = s[i]
          BY <1>1, <4>1 DEF ToSet
        <5>2. i \in 1..(Len(s) + 1)
          BY <1>1
        <5> QED BY <1>1, <5>1, <5>2 DEF ToSet
      <4>2. CASE x = w
        <5>1. Len(s) + 1 \in 1..(Len(s) + 1)
          BY <1>1
        <5> QED BY <1>1, <4>2, <5>1 DEF ToSet
      <4> QED BY <3>2, <4>1, <4>2
    <3> QED BY <3>1, <3>2
  <2> QED BY <2>1
<1> QED BY <1>1, <1>3, <1>4

LEMMA EmptyAndOne ==
  /\ <<>> \in Seq(Workers) /\ IsInjective(<<>>) /\ ToSet(<<>>) = {} /\ Len(<<>>) = 0
  /\ \A w \in Workers : /\ <<w>> \in Seq(Workers) /\ <<w>> # <<>> /\ IsInjective(<<w>>)
                        /\ ToSet(<<w>>) = {w} /\ Head(<<w>>) = w /\ Len(<<w>>) = 1
                        /\ Tail(<<w>>) = <<>>
<1>1. IsInjective(<<>>) /\ ToSet(<<>>) = {}
  BY DEF IsInjective, ToSet
<1>2. ASSUME NEW w \in Workers PROVE IsInjective(<<w>>) /\ ToSet(<<w>>) = {w}
  <2>1. DOMAIN <<w>> = {1} /\ <<w>>[1] = w
    OBVIOUS
  <2> QED BY <2>1 DEF IsInjective, ToSet
<1> QED BY <1>1, <1>2

(* A call of InitWorkers names each worker once.                            *)
LEMMA NamesAreLists ==
  ASSUME NEW names \in SetToAllKPermutations(Workers)
  PROVE  names \in Seq(Workers) /\ IsInjective(names)
<1>1. PICK S \in SUBSET Workers : names \in SetToSeqs(S)
  BY DEF SetToAllKPermutations
<1>2. Cardinality(S) \in Nat
  BY FS_Subset, FS_CardinalityType
<1>3. /\ names \in [1..Cardinality(S) -> S]
      /\ \A i, j \in 1..Cardinality(S) : i # j => names[i] # names[j]
  BY <1>1 DEF SetToSeqs
<1>4. names \in Seq(Workers)
  BY <1>2, <1>3
<1>5. IsInjective(names)
  BY <1>3 DEF IsInjective
<1> QED BY <1>4, <1>5
-----------------------------------------------------------------------------
Threads == {"none", "sync", "tell", "blocking", "asleep", "awake", "outer", "inner", "init",
            "run_loop", "start", "run_sync", "run_tell", "run", "stop", "deinit", "quit",
            "quit_sync", "quit_tell", "ended"}
Mutex == {"free", "manager", "worker"}

Types ==
  /\ to_quit \in [Workers -> BOOLEAN] /\ to_init \in [Workers -> BOOLEAN]
  /\ to_run \in [Workers -> BOOLEAN]
  /\ is_inited \in [Workers -> BOOLEAN] /\ is_running \in [Workers -> BOOLEAN]
  /\ req \in [Workers -> Mutex] /\ resp \in [Workers -> Mutex]
  /\ thread \in [Workers -> Threads]
  /\ resume \in [Workers -> {"outer", "inner", "run_loop"}]
  /\ mpc \in {"idle", "raise", "sync", "notify", "wait", "waiting", "awake", "join"}
  /\ op \in {"none", "new", "init", "run", "stop", "deinit", "delete"}
  /\ todo \in Seq(Workers) /\ pending \in Seq(Workers)
  /\ mpc = "idle" <=> op = "none"
  /\ mpc = "idle" => todo = <<>> /\ pending = <<>>
  /\ spurious \in 0..MaxSpurious

LEMMA TypesOK == /\ TypeOK <=> Types
                 /\ TypeOK' <=> Types'
BY DEF TypeOK, Types, Threads, Mutex

(* What the manager's head of a list is.                                    *)
LEMMA Heads ==
  ASSUME TypeOK, Shape
  PROVE  /\ todo # <<>> => /\ Head(todo) \in Workers /\ Listed(Head(todo))
                           /\ ~Notified(Head(todo))
         /\ pending # <<>> => /\ Head(pending) \in Workers /\ Notified(Head(pending))
                              /\ ~Listed(Head(pending))
         /\ todo = <<>> => \A w \in Workers : ~Listed(w)
         /\ pending = <<>> => \A w \in Workers : ~Notified(w)
<1>1. todo \in Seq(Workers) /\ pending \in Seq(Workers)
  BY TypesOK DEF Types
<1>2. CASE todo # <<>> /\ pending # <<>>
  BY <1>1, <1>2, HeadAndTail DEF Shape, Listed, Notified
<1>3. CASE todo = <<>> /\ pending # <<>>
  BY <1>1, <1>3, HeadAndTail, EmptyAndOne DEF Shape, Listed, Notified
<1>4. CASE todo # <<>> /\ pending = <<>>
  BY <1>1, <1>4, HeadAndTail, EmptyAndOne DEF Shape, Listed, Notified
<1>5. CASE todo = <<>> /\ pending = <<>>
  BY <1>5, EmptyAndOne DEF Listed, Notified
<1> QED BY <1>2, <1>3, <1>4, <1>5

(* The steps of a thread change no list and no call.                        *)
LEMMA ShapeKept ==
  ASSUME Shape, UNCHANGED <<op, todo, pending>>,
         mpc' = mpc \/ (mpc = "waiting" /\ mpc' = "awake")
  PROVE  Shape'
BY DEF Shape, Listed, Notified, InCall

(* Where the steps of the two loops take a thread from and to.               *)
LoopLabels == {"outer", "inner", "run_loop", "run", "init", "start", "stop", "deinit", "quit"}

LEMMA ThreadLoops ==
  ASSUME TypeOK, NEW w \in Workers, Loop(w)
  PROVE  /\ thread[w] \in LoopLabels /\ thread'[w] \in LoopLabels
         /\ \E l \in LoopLabels : thread' = [thread EXCEPT ![w] = l]
<1>0. thread \in [Workers -> Threads]
  BY TypesOK DEF Types
<1>1. PICK l : thread' = [thread EXCEPT ![w] = l] /\ l \in LoopLabels
  BY DEF Loop, Go, LoopLabels
<1>2. thread[w] \in LoopLabels
  BY DEF Loop, Go, LoopLabels
<1> QED BY <1>0, <1>1, <1>2

LEMMA TypeThread ==
  ASSUME TypeOK, NEW w \in Workers, ThreadFunction(w), UNCHANGED spurious
  PROVE  /\ TypeOK' /\ UNCHANGED <<op, todo, pending>>
         /\ mpc' = mpc \/ (mpc = "waiting" /\ mpc' = "awake")
<1> USE TypesOK DEF Types, Threads, Mutex, flags, state, locks, manager, Go, Answer
<1>1. CASE PassRespMutex(w)
  BY <1>1 DEF PassRespMutex
<1>2. CASE Tell(w)
  BY <1>2 DEF Tell, NotifyManager
<1>3. CASE Block(w)
  BY <1>3 DEF Block
<1>4. CASE Resume(w)
  BY <1>4 DEF Resume
<1>5. CASE Loop(w)
  <2>1. PICK l \in LoopLabels : thread' = [thread EXCEPT ![w] = l]
    BY <1>5, ThreadLoops
  <2>2. UNCHANGED <<flags, state, locks, resume, manager>>
    BY <1>5 DEF Loop
  <2> QED BY <2>1, <2>2 DEF LoopLabels
<1>6. CASE InitState(w)
  BY <1>6 DEF InitState
<1>7. CASE RunState(w)
  BY <1>7 DEF RunState
<1>8. CASE StopState(w)
  BY <1>8 DEF StopState
<1>9. CASE DeinitState(w)
  BY <1>9 DEF DeinitState
<1>10. CASE QuitState(w)
  BY <1>10 DEF QuitState
<1> QED BY <1>1, <1>2, <1>3, <1>4, <1>5, <1>6, <1>7, <1>8, <1>9, <1>10 DEF ThreadFunction


(* How the manager's steps change the roles.                                *)
LEMMA CallRoles ==
  ASSUME NEW name, NEW names \in Seq(Workers), IsInjective(names), Call(name, names)
  PROVE  /\ todo' \in Seq(Workers) /\ IsInjective(todo')
         /\ \A v : Listed(v)' <=> v \in ToSet(names)
BY DEF Call, Listed

LEMMA NotifyRoles ==
  ASSUME TypeOK, Shape, NotifyWorker
  PROVE  /\ Head(todo) \in Workers /\ Listed(Head(todo)) /\ ~Notified(Head(todo))
         /\ todo' \in Seq(Workers) /\ IsInjective(todo')
         /\ pending' \in Seq(Workers) /\ IsInjective(pending') /\ pending' # <<>>
         /\ \A v : Listed(v)' <=> (Listed(v) /\ v # Head(todo))
         /\ \A v : Notified(v)' <=> (Notified(v) \/ v = Head(todo))
<1>1. todo \in Seq(Workers) /\ pending \in Seq(Workers) /\ todo # <<>>
  BY TypesOK DEF Types, Shape, NotifyWorker
<1>2. IsInjective(todo) /\ IsInjective(pending)
  BY DEF Shape
<1>3. Head(todo) \in Workers /\ Listed(Head(todo)) /\ ~Notified(Head(todo))
  BY <1>1, Heads
<1>4. todo' = Tail(todo) /\ pending' = Append(pending, Head(todo))
  BY DEF NotifyWorker
<1>5. /\ Tail(todo) \in Seq(Workers) /\ IsInjective(Tail(todo))
      /\ ToSet(Tail(todo)) = ToSet(todo) \ {Head(todo)}
  BY <1>1, <1>2, HeadAndTail
<1>6. /\ Append(pending, Head(todo)) \in Seq(Workers)
      /\ Append(pending, Head(todo)) # <<>>
      /\ IsInjective(Append(pending, Head(todo)))
      /\ ToSet(Append(pending, Head(todo))) = ToSet(pending) \cup {Head(todo)}
  BY <1>1, <1>2, <1>3, AppendOne DEF Notified
<1> QED BY <1>3, <1>4, <1>5, <1>6 DEF Listed, Notified

LEMMA AwakeRoles ==
  ASSUME TypeOK, Shape, Awake
  PROVE  /\ Head(pending) \in Workers /\ Notified(Head(pending)) /\ todo = <<>>
         /\ pending' \in Seq(Workers) /\ IsInjective(pending')
         /\ \A v : ~Listed(v)
         /\ \A v : Notified(v)' <=> (Notified(v) /\ v # Head(pending))
<1>1. pending \in Seq(Workers) /\ pending # <<>> /\ todo = <<>> /\ IsInjective(pending)
  BY TypesOK DEF Types, Shape, Awake
<1>2. Head(pending) \in Workers /\ Notified(Head(pending))
  BY <1>1, Heads
<1>3. pending' = Tail(pending)
  BY DEF Awake
<1>4. /\ Tail(pending) \in Seq(Workers) /\ IsInjective(Tail(pending))
      /\ ToSet(Tail(pending)) = ToSet(pending) \ {Head(pending)}
  BY <1>1, HeadAndTail
<1>5. \A v : ~Listed(v)
  BY <1>1, EmptyAndOne DEF Listed
<1> QED BY <1>1, <1>2, <1>3, <1>4, <1>5 DEF Notified

(* All workers of an InitWorkers are set off before the first is waited for. *)
LEMMA TypeCall ==
  ASSUME TypeOK, Shape, UNCHANGED spurious,
         NEW name \in {"init", "run", "stop", "deinit", "delete"},
         NEW names \in Seq(Workers), names # <<>>, IsInjective(names),
         name = "init" \/ \A u, v \in ToSet(names) : u = v,
         Call(name, names)
  PROVE  TypeOK' /\ Shape'
<1>1. pending = <<>> /\ mpc = "idle"
  BY TypesOK DEF Types, Call
<1>2. todo' = names /\ \A v : Listed(v)' <=> v \in ToSet(names)
  BY CallRoles DEF Call
<1>3. \A v : ~Notified(v) /\ ~Notified(v)'
  BY <1>1, EmptyAndOne DEF Notified, Call
<1>4. TypeOK'
  BY <1>1, TypesOK DEF Types, Call, flags, state, locks, worker
<1>5. Shape'
  BY <1>1, <1>2, <1>3, CallRoles DEF Shape, Call, InCall
<1> QED BY <1>4, <1>5

LEMMA TypeCalls ==
  ASSUME TypeOK, Shape, UNCHANGED spurious,
         \/ InitWorkers
         \/ \E w \in Workers : DeleteWorker(w) \/ DeinitWorker(w) \/ RunWorker(w) \/ StopWorker(w)
  PROVE  TypeOK' /\ Shape'
<1>1. CASE InitWorkers
  <2>1. PICK names \in SetToAllKPermutations(Workers) : names # <<>> /\ Call("init", names)
    BY <1>1 DEF InitWorkers
  <2> QED BY <2>1, NamesAreLists, TypeCall
<1>2. ASSUME NEW w \in Workers,
             DeleteWorker(w) \/ DeinitWorker(w) \/ RunWorker(w) \/ StopWorker(w)
      PROVE  TypeOK' /\ Shape'
  <2>1. /\ <<w>> \in Seq(Workers) /\ <<w>> # <<>> /\ IsInjective(<<w>>)
        /\ \A u, v \in ToSet(<<w>>) : u = v
    BY EmptyAndOne
  <2>2. PICK name \in {"run", "stop", "deinit", "delete"} : Call(name, <<w>>)
    BY <1>2 DEF DeleteWorker, DeinitWorker, RunWorker, StopWorker
  <2> QED BY <2>1, <2>2, TypeCall
<1> QED BY <1>1, <1>2

LEMMA TypeManager ==
  ASSUME TypeOK, Shape, ManagerStep, UNCHANGED spurious
  PROVE  TypeOK' /\ Shape'
<1> USE DEF flags, state, locks, worker
<1>1. CASE Raise
  <2>1. Head(todo) \in Workers /\ todo # <<>>
    BY <1>1, Heads DEF Raise, Shape
  <2>2. TypeOK'
    BY <1>1, <2>1, TypesOK DEF Types, Raise
  <2>3. Shape'
    BY <1>1, <2>1 DEF Raise, Shape, Listed, Notified, InCall
  <2> QED BY <2>2, <2>3
<1>2. CASE PassReqMutex
  <2>1. TypeOK'
    BY <1>2, TypesOK DEF Types, PassReqMutex
  <2>2. Shape'
    BY <1>2 DEF PassReqMutex, Shape, Listed, Notified, InCall
  <2> QED BY <2>1, <2>2
<1>3. CASE NotifyWorker
  <2>1. TypeOK'
    BY <1>3, NotifyRoles, TypesOK DEF Types, Threads, Mutex, NotifyWorker
  <2>2. mpc = "notify" /\ op' = op /\ mpc' = IF todo' = <<>> THEN "wait" ELSE "raise"
    BY <1>3 DEF NotifyWorker
  <2>3. \A v : InCall(v)' => InCall(v)
    BY <1>3, NotifyRoles DEF InCall
  <2>4. Shape'
    BY <1>3, <2>2, <2>3, NotifyRoles DEF Shape
  <2> QED BY <2>1, <2>4
<1>4. CASE Wait
  <2>1. TypeOK'
    BY <1>4, TypesOK DEF Types, Mutex, Wait
  <2>2. Shape'
    BY <1>4 DEF Wait, Shape, Listed, Notified, InCall
  <2> QED BY <2>1, <2>2
<1>5. CASE Awake
  <2>1. \A v : InCall(v)' => InCall(v)
    BY <1>5, AwakeRoles, EmptyAndOne DEF InCall, Listed, Awake
  <2>2. CASE Tail(pending) # <<>>
    <3>1. mpc = "awake" /\ mpc' = "wait" /\ op' = op /\ todo' = todo /\ pending' = Tail(pending)
      BY <1>5, <2>2 DEF Awake
    <3>2. op = "init"
      <4>1. PICK u \in Workers : u \in ToSet(Tail(pending))
        BY <1>5, <2>2, <3>1, AwakeRoles, HeadAndTail
      <4>2. Notified(u)'
        BY <3>1, <4>1 DEF Notified
      <4>3. u # Head(pending) /\ Notified(u)
        BY <1>5, <4>2, AwakeRoles
      <4> QED BY <1>5, <4>1, <4>3, AwakeRoles DEF Shape, InCall
    <3>3. TypeOK'
      BY <1>5, <2>2, AwakeRoles, TypesOK DEF Types, Mutex, Awake
    <3>4. Shape'
      BY <1>5, <2>1, <2>2, <3>1, <3>2, AwakeRoles DEF Shape, Listed
    <3> QED BY <3>3, <3>4
  <2>3. CASE Tail(pending) = <<>>
    <3>1. /\ resp' = [v \in Workers |-> IF resp[v] = "manager" THEN "free" ELSE resp[v]]
          /\ pending' = <<>> /\ mpc = "awake"
          /\ UNCHANGED <<to_quit, to_init, to_run, is_inited, is_running, req, thread, resume>>
          /\ \/ mpc' = "join" /\ todo' = <<Head(pending)>> /\ op' = "delete"
             \/ mpc' = "idle" /\ op' = "none" /\ todo' = todo
      BY <1>5, <2>3 DEF Awake
    <3>2. TypeOK'
      BY <1>5, <3>1, AwakeRoles, EmptyAndOne, TypesOK DEF Types, Mutex
    <3>3. \A v : ~Notified(v)'
      BY <3>1, EmptyAndOne DEF Notified
    <3>4. IsInjective(todo') /\ IsInjective(pending')
      BY <1>5, <3>1, AwakeRoles, EmptyAndOne DEF Shape
    <3>5. \A u, v \in Workers : InCall(u)' /\ InCall(v)' => u = v
      BY <1>5, <3>1, <3>3, AwakeRoles, EmptyAndOne DEF InCall, Listed
    <3>6. Shape'
      BY <1>5, <3>1, <3>3, <3>4, <3>5, AwakeRoles, EmptyAndOne DEF Shape
    <3> QED BY <3>2, <3>6
  <2> QED BY <2>2, <2>3
<1>6. CASE Join
  <2>1. pending = <<>> /\ UNCHANGED pending /\ todo' = <<>> /\ mpc' = "idle" /\ op' = "none"
    BY <1>6 DEF Join, Shape
  <2>2. TypeOK'
    BY <1>6, <2>1, EmptyAndOne, TypesOK DEF Types, Threads, Join
  <2>3. Shape'
    BY <2>1, EmptyAndOne DEF Shape, Listed, Notified, InCall
  <2> QED BY <2>2, <2>3
<1> QED BY <1>1, <1>2, <1>3, <1>4, <1>5, <1>6 DEF ManagerStep


LEMMA TypeNew ==
  ASSUME TypeOK, Shape, NEW w \in Workers, NewWorker(w), UNCHANGED spurious
  PROVE  TypeOK' /\ Shape'
<1>1. mpc = "idle" /\ todo = <<>> /\ todo' = todo /\ pending' = <<w>> /\ mpc' = "waiting"
  BY TypesOK DEF Types, NewWorker
<1>2. TypeOK'
  BY <1>1, EmptyAndOne, TypesOK DEF Types, Threads, NewWorker, state, locks
<1>3. \A u \in Workers : ~Listed(u)' /\ (Notified(u)' <=> u = w)
  BY <1>1, EmptyAndOne DEF Listed, Notified
<1>4. Shape'
  BY <1>1, <1>3, EmptyAndOne DEF Shape, InCall
<1> QED BY <1>2, <1>4

(* Types and lists fit in every step, spurious or not.                      *)
LEMMA TypeStep ==
  ASSUME TypeOK, Shape, [Next]_vars
  PROVE  TypeOK' /\ Shape'
<1>1. CASE SpuriousWakeup
  <2>1. TypeOK'
    BY <1>1, TypesOK DEF Types, Threads, SpuriousWakeup, Go, flags, state, locks
  <2>2. /\ UNCHANGED <<op, todo, pending>>
        /\ mpc' = mpc \/ (mpc = "waiting" /\ mpc' = "awake")
    BY <1>1 DEF SpuriousWakeup
  <2> QED BY <2>1, <2>2, ShapeKept
<1>2. CASE UNCHANGED vars
  <2>1. TypeOK'
    BY <1>2, TypesOK DEF Types, vars, flags, state, locks, worker, manager
  <2>2. UNCHANGED <<op, todo, pending>> /\ mpc' = mpc
    BY <1>2 DEF vars, manager
  <2> QED BY <2>1, <2>2, ShapeKept
<1>3. ASSUME NEW w \in Workers, ThreadFunction(w), UNCHANGED spurious
      PROVE  TypeOK' /\ Shape'
  BY <1>3, TypeThread, ShapeKept
<1> QED BY <1>1, <1>2, <1>3, TypeNew, TypeCalls, TypeManager DEF Next
-----------------------------------------------------------------------------
(* What a step must leave alone so that a worker stays where it is.          *)
Still(v) ==
  /\ to_quit'[v] = to_quit[v] /\ to_init'[v] = to_init[v] /\ to_run'[v] = to_run[v]
  /\ is_inited'[v] = is_inited[v] /\ is_running'[v] = is_running[v]
  /\ req'[v] = req[v]
  /\ thread'[v] = thread[v] /\ resume'[v] = resume[v]

SameRole(v) ==
  /\ Listed(v)' <=> Listed(v)
  /\ Raised(v)' <=> Raised(v)
  /\ Called(v)' <=> Called(v)
  /\ Notified(v)' <=> Notified(v)
  /\ Awaited(v)' <=> Awaited(v)
  /\ Answered(v)' <=> Answered(v)
  /\ Joined(v)' <=> Joined(v)

LEMMA Untouched ==
  ASSUME NEW v \in Workers, Local(v), Still(v), SameRole(v), op' = op,
         resp'[v] = resp[v] \/ ~Notified(v)
  PROVE  Local(v)'
<1> USE DEF Still, SameRole, Sleeping
<1>1. Mutexes(v)' /\ Handshake(v)'
  BY DEF Local, Mutexes, Handshake
<1>2. Path(v) => Path(v)'
  BY DEF Path, NewPath, InitPath, RunPath, StopPath, DeinitPath, DeletePath
<1>3. (Rests(v) => Rests(v)') /\ (Suits(v) => Suits(v)')
  BY DEF Rests, Suits, Waits, Runs
<1> QED BY <1>1, <1>2, <1>3 DEF Local

(* A worker that no call names is at rest, whatever the call.                *)
Idle(v) == ~Listed(v) /\ ~Raised(v) /\ ~Notified(v)

LEMMA Unnamed ==
  ASSUME NEW v \in Workers, Local(v), Still(v), Idle(v), Idle(v)',
         ~Called(v)', ~Joined(v), ~Joined(v)'
  PROVE  Local(v)'
<1> USE DEF Still, Idle, Sleeping
<1>1. Mutexes(v)' /\ Handshake(v)'
  BY DEF Local, Mutexes, Handshake
<1>2. Rests(v)'
  BY DEF Local, Rests, Waits, Runs
<1> QED BY <1>1, <1>2 DEF Local

-----------------------------------------------------------------------------
Fields(w) ==
  /\ to_quit[w] \in BOOLEAN /\ to_init[w] \in BOOLEAN /\ to_run[w] \in BOOLEAN
  /\ is_inited[w] \in BOOLEAN /\ is_running[w] \in BOOLEAN
  /\ thread[w] \in Threads /\ resume[w] \in {"outer", "inner", "run_loop"}

LEMMA FieldTypes == ASSUME TypeOK, NEW w \in Workers PROVE Fields(w)
BY TypesOK DEF Types, Fields

(* A step of the thread of w, of which the manager sees nothing.             *)
Own(w) == /\ op' = op /\ SameRole(w)
          /\ to_quit'[w] = to_quit[w] /\ to_init'[w] = to_init[w] /\ to_run'[w] = to_run[w]
          /\ resp'[w] = resp[w]

LEMMA OwnStep ==
  ASSUME TypeOK, NEW w \in Workers, ThreadFunction(w), ~Tell(w)
  PROVE  Own(w)
<1> USE DEF Own, SameRole, Listed, Raised, Called, Notified, Awaited, Answered, Joined,
            flags, state, locks, manager
<1>1. CASE PassRespMutex(w) \/ Block(w) \/ Resume(w) \/ Loop(w)
  BY <1>1 DEF PassRespMutex, Block, Resume, Loop
<1>2. CASE InitState(w) \/ RunState(w) \/ StopState(w) \/ DeinitState(w) \/ QuitState(w)
  BY <1>2 DEF InitState, RunState, StopState, DeinitState, QuitState
<1> QED BY <1>1, <1>2 DEF ThreadFunction

LEMMA LocalInit ==
  ASSUME TypeOK, NEW w \in Workers, Local(w), InitState(w), Own(w)
  PROVE  Local(w)'
<1>1. /\ thread[w] = "init" /\ thread'[w] = "sync" /\ resume'[w] = "run_loop"
      /\ is_inited'[w] = TRUE /\ is_running'[w] = is_running[w]
  BY TypesOK DEF Types, InitState, Answer, Go
<1>2. Fields(w)
  BY FieldTypes
<1> QED BY <1>1, <1>2 DEF Own, SameRole, Fields, Local, Mutexes, Handshake, Path, NewPath,
        InitPath, RunPath, StopPath, DeinitPath, DeletePath, Rests, Waits, Runs, Sleeping

LEMMA LocalRun ==
  ASSUME TypeOK, NEW w \in Workers, Local(w), RunState(w), Own(w)
  PROVE  Local(w)'
<1>1. /\ thread[w] = "start" /\ thread'[w] = "run_sync" /\ resume'[w] = resume[w]
      /\ is_inited'[w] = is_inited[w] /\ is_running'[w] = TRUE
  BY TypesOK DEF Types, RunState, Go
<1>2. Fields(w)
  BY FieldTypes
<1> QED BY <1>1, <1>2 DEF Own, SameRole, Fields, Local, Mutexes, Handshake, Path, NewPath,
        InitPath, RunPath, StopPath, DeinitPath, DeletePath, Rests, Waits, Runs, Sleeping


LEMMA LocalStop ==
  ASSUME TypeOK, NEW w \in Workers, Local(w), StopState(w), Own(w)
  PROVE  Local(w)'
<1>1. /\ ~to_run[w] /\ is_running[w]
      /\ thread[w] = "stop" /\ thread'[w] = "sync" /\ resume'[w] = "inner"
      /\ is_inited'[w] = is_inited[w] /\ is_running'[w] = FALSE
  BY TypesOK DEF Types, StopState, Answer, Go
<1>2. Fields(w)
  BY FieldTypes
<1> QED BY <1>1, <1>2 DEF Own, SameRole, Fields, Local, Mutexes, Handshake, Path, NewPath,
        InitPath, RunPath, StopPath, DeinitPath, DeletePath, Rests, Waits, Runs, Sleeping

LEMMA LocalDeinit ==
  ASSUME TypeOK, NEW w \in Workers, Local(w), DeinitState(w), Own(w)
  PROVE  Local(w)'
<1>1. /\ ~to_init[w] /\ is_inited[w]
      /\ thread[w] = "deinit" /\ thread'[w] = "sync" /\ resume'[w] = "outer"
      /\ is_inited'[w] = FALSE /\ is_running'[w] = FALSE
  BY TypesOK DEF Types, DeinitState, Answer, Go
<1>2. Fields(w)
  BY FieldTypes
<1> QED BY <1>1, <1>2 DEF Own, SameRole, Fields, Local, Mutexes, Handshake, Path, NewPath,
        InitPath, RunPath, StopPath, DeinitPath, DeletePath, Rests, Waits, Runs, Sleeping

LEMMA LocalQuit ==
  ASSUME TypeOK, NEW w \in Workers, Local(w), QuitState(w), Own(w)
  PROVE  Local(w)'
<1>1. /\ thread[w] = "quit" /\ thread'[w] = "quit_sync" /\ resume'[w] = resume[w]
      /\ is_inited'[w] = FALSE /\ is_running'[w] = FALSE
  BY TypesOK DEF Types, QuitState, Go
<1>2. Fields(w)
  BY FieldTypes
<1> QED BY <1>1, <1>2 DEF Own, SameRole, Fields, Local, Mutexes, Handshake, Path, NewPath,
        InitPath, RunPath, StopPath, DeinitPath, DeletePath, Rests, Waits, Runs, Sleeping

LEMMA LocalBlock ==
  ASSUME TypeOK, NEW w \in Workers, Local(w), Block(w) \/ Resume(w), Own(w)
  PROVE  Local(w)'
<1>1. /\ \/ thread[w] = "blocking" /\ thread'[w] = "asleep"
         \/ thread[w] = "awake" /\ thread'[w] = resume[w]
      /\ resume'[w] = resume[w]
      /\ is_inited'[w] = is_inited[w] /\ is_running'[w] = is_running[w]
  BY TypesOK DEF Types, Block, Resume, Go, state
<1>2. Fields(w)
  BY FieldTypes
<1>3. CASE ~Raised(w) /\ ~Notified(w)
  BY <1>1, <1>2, <1>3 DEF Own, SameRole, Fields, Local, Mutexes, Handshake, Rests,
     Suits, Waits, Runs, Sleeping
<1>4. CASE Raised(w) \/ Notified(w)
  <2>1. Path(w)
    BY <1>4 DEF Local
  <2>2. NewPath(w)' \/ op # "new"
    BY <1>1, <1>2, <1>4, <2>1 DEF Own, SameRole, Fields, Local, Mutexes, Handshake,
       Path, NewPath, Sleeping
  <2>3. InitPath(w)' \/ op # "init"
    BY <1>1, <1>2, <1>4, <2>1 DEF Own, SameRole, Fields, Local, Mutexes, Handshake,
       Path, InitPath, Sleeping
  <2>4. RunPath(w)' \/ op # "run"
    BY <1>1, <1>2, <1>4, <2>1 DEF Own, SameRole, Fields, Local, Mutexes, Handshake,
       Path, RunPath, Sleeping
  <2>5. StopPath(w)' \/ op # "stop"
    BY <1>1, <1>2, <1>4, <2>1 DEF Own, SameRole, Fields, Local, Mutexes, Handshake,
       Path, StopPath, Sleeping
  <2>6. DeinitPath(w)' \/ op # "deinit"
    BY <1>1, <1>2, <1>4, <2>1 DEF Own, SameRole, Fields, Local, Mutexes, Handshake,
       Path, DeinitPath, Sleeping
  <2>7. DeletePath(w)' \/ op # "delete"
    BY <1>1, <1>2, <1>4, <2>1 DEF Own, SameRole, Fields, Local, Mutexes, Handshake,
       Path, DeletePath, Sleeping
  <2>8. Path(w)'
    BY <1>1, <1>2, <2>2, <2>3, <2>4, <2>5, <2>6, <2>7 DEF Own, SameRole, Path
  <2>9. Mutexes(w)' /\ Handshake(w)'
    BY <1>1, <1>2, <1>4, <2>1 DEF Own, SameRole, Fields, Local, Mutexes, Handshake,
       Path, NewPath, InitPath, RunPath, Sleeping
  <2> QED BY <1>1, <1>2, <1>4, <2>8, <2>9 DEF Own, SameRole, Local
<1> QED BY <1>3, <1>4

(* Past the response mutex, the manager waits if it waits at all.            *)
LEMMA LocalPass ==
  ASSUME TypeOK, NEW w \in Workers, Local(w), PassRespMutex(w), Own(w)
  PROVE  Local(w)'
<1>1. /\ \/ thread[w] = "sync" /\ thread'[w] = "tell"
         \/ thread[w] = "run_sync" /\ thread'[w] = "run_tell"
         \/ thread[w] = "quit_sync" /\ thread'[w] = "quit_tell"
      /\ resume'[w] = resume[w] /\ resp[w] = "free"
      /\ is_inited'[w] = is_inited[w] /\ is_running'[w] = is_running[w]
  BY TypesOK DEF Types, PassRespMutex, Go, state
<1>2. Fields(w)
  BY FieldTypes
<1> QED BY <1>1, <1>2 DEF Own, SameRole, Fields, Local, Mutexes, Handshake, Path, NewPath,
        InitPath, RunPath, StopPath, DeinitPath, DeletePath, Rests, Waits, Runs, Sleeping

LEMMA LocalLoop ==
  ASSUME TypeOK, NEW w \in Workers, Local(w), Loop(w), Own(w)
  PROVE  Local(w)'
<1>1. /\ resume'[w] = resume[w]
      /\ is_inited'[w] = is_inited[w] /\ is_running'[w] = is_running[w]
  BY DEF Loop, state
<1>2. Fields(w)
  BY FieldTypes
<1>3. CASE Go(w, "outer", IF to_quit[w] THEN "quit" ELSE "inner")
  <2>1. thread[w] = "outer" /\ thread'[w] = IF to_quit[w] THEN "quit" ELSE "inner"
    BY <1>3, TypesOK DEF Types, Go
  <2> QED BY <1>1, <1>2, <2>1 DEF Own, SameRole, Fields, Local, Mutexes, Handshake, Path,
         NewPath, InitPath, RunPath, StopPath, DeinitPath, DeletePath, Rests, Waits, Runs, Sleeping
<1>4. CASE Go(w, "inner", IF ~to_init[w] \/ to_quit[w] THEN "deinit"
                          ELSE IF is_inited[w] THEN "run_loop" ELSE "init")
  <2>1. thread[w] = "inner" /\ thread'[w] = IF ~to_init[w] \/ to_quit[w] THEN "deinit"
                                            ELSE IF is_inited[w] THEN "run_loop" ELSE "init"
    BY <1>4, TypesOK DEF Types, Go
  <2> QED BY <1>1, <1>2, <2>1 DEF Own, SameRole, Fields, Local, Mutexes, Handshake, Path,
         NewPath, InitPath, RunPath, StopPath, DeinitPath, DeletePath, Rests, Waits, Runs, Sleeping
<1>5. CASE Go(w, "run_loop", IF ~to_run[w] \/ ~to_init[w] \/ to_quit[w] THEN "stop"
                             ELSE IF is_running[w] THEN "run" ELSE "start")
  <2>1. thread[w] = "run_loop"
        /\ thread'[w] = IF ~to_run[w] \/ ~to_init[w] \/ to_quit[w] THEN "stop"
                        ELSE IF is_running[w] THEN "run" ELSE "start"
    BY <1>5, TypesOK DEF Types, Go
  <2>2. CASE ~Raised(w) /\ ~Notified(w)
    BY <1>1, <1>2, <2>1, <2>2 DEF Own, SameRole, Fields, Local, Mutexes, Handshake,
       Rests, Suits, Waits, Runs, Sleeping
  <2>3. CASE Raised(w) \/ Notified(w)
    <3>1. Path(w)
      BY <2>3 DEF Local
    <3>2. NewPath(w)' \/ op # "new"
      BY <1>1, <1>2, <2>1, <2>3, <3>1 DEF Own, SameRole, Fields, Local, Mutexes,
         Handshake, Path, NewPath, Sleeping
    <3>3. InitPath(w)' \/ op # "init"
      BY <1>1, <1>2, <2>1, <2>3, <3>1 DEF Own, SameRole, Fields, Local, Mutexes,
         Handshake, Path, InitPath, Sleeping
    <3>4. RunPath(w)' \/ op # "run"
      BY <1>1, <1>2, <2>1, <2>3, <3>1 DEF Own, SameRole, Fields, Local, Mutexes,
         Handshake, Path, RunPath, Sleeping
    <3>5. StopPath(w)' \/ op # "stop"
      BY <1>1, <1>2, <2>1, <2>3, <3>1 DEF Own, SameRole, Fields, Local, Mutexes,
         Handshake, Path, StopPath, Sleeping
    <3>6. DeinitPath(w)' \/ op # "deinit"
      BY <1>1, <1>2, <2>1, <2>3, <3>1 DEF Own, SameRole, Fields, Local, Mutexes,
         Handshake, Path, DeinitPath, Sleeping
    <3>7. DeletePath(w)' \/ op # "delete"
      BY <1>1, <1>2, <2>1, <2>3, <3>1 DEF Own, SameRole, Fields, Local, Mutexes,
         Handshake, Path, DeletePath, Sleeping
    <3>8. Path(w)'
      BY <1>1, <1>2, <2>1, <3>2, <3>3, <3>4, <3>5, <3>6, <3>7 DEF Own, SameRole, Path
    <3>9. Mutexes(w)' /\ Handshake(w)'
      BY <1>1, <1>2, <2>1, <2>3, <3>1 DEF Own, SameRole, Fields, Local, Mutexes,
         Handshake, Path, NewPath, InitPath, RunPath, Sleeping
    <3> QED BY <1>1, <1>2, <2>1, <2>3, <3>8, <3>9 DEF Own, SameRole, Local
  <2> QED BY <2>2, <2>3
<1>6. CASE Go(w, "run", "run_loop")
  <2>1. thread[w] = "run" /\ thread'[w] = "run_loop"
    BY <1>6, TypesOK DEF Types, Go
  <2>2. CASE ~Raised(w) /\ ~Notified(w)
    BY <1>1, <1>2, <2>1, <2>2 DEF Own, SameRole, Fields, Local, Mutexes, Handshake,
       Rests, Suits, Waits, Runs, Sleeping
  <2>3. CASE Raised(w) \/ Notified(w)
    <3>1. Path(w)
      BY <2>3 DEF Local
    <3>2. NewPath(w)' \/ op # "new"
      BY <1>1, <1>2, <2>1, <2>3, <3>1 DEF Own, SameRole, Fields, Local, Mutexes,
         Handshake, Path, NewPath, Sleeping
    <3>3. InitPath(w)' \/ op # "init"
      BY <1>1, <1>2, <2>1, <2>3, <3>1 DEF Own, SameRole, Fields, Local, Mutexes,
         Handshake, Path, InitPath, Sleeping
    <3>4. RunPath(w)' \/ op # "run"
      BY <1>1, <1>2, <2>1, <2>3, <3>1 DEF Own, SameRole, Fields, Local, Mutexes,
         Handshake, Path, RunPath, Sleeping
    <3>5. StopPath(w)' \/ op # "stop"
      BY <1>1, <1>2, <2>1, <2>3, <3>1 DEF Own, SameRole, Fields, Local, Mutexes,
         Handshake, Path, StopPath, Sleeping
    <3>6. DeinitPath(w)' \/ op # "deinit"
      BY <1>1, <1>2, <2>1, <2>3, <3>1 DEF Own, SameRole, Fields, Local, Mutexes,
         Handshake, Path, DeinitPath, Sleeping
    <3>7. DeletePath(w)' \/ op # "delete"
      BY <1>1, <1>2, <2>1, <2>3, <3>1 DEF Own, SameRole, Fields, Local, Mutexes,
         Handshake, Path, DeletePath, Sleeping
    <3>8. Path(w)'
      BY <1>1, <1>2, <2>1, <3>2, <3>3, <3>4, <3>5, <3>6, <3>7 DEF Own, SameRole, Path
    <3>9. Mutexes(w)' /\ Handshake(w)'
      BY <1>1, <1>2, <2>1, <2>3, <3>1 DEF Own, SameRole, Fields, Local, Mutexes,
         Handshake, Path, NewPath, InitPath, RunPath, Sleeping
    <3> QED BY <1>1, <1>2, <2>1, <2>3, <3>8, <3>9 DEF Own, SameRole, Local
  <2> QED BY <2>2, <2>3
<1>7. CASE (to_run[w] \/ ~is_running[w]) /\ Go(w, "stop", "inner")
  <2>1. (to_run[w] \/ ~is_running[w]) /\ thread[w] = "stop" /\ thread'[w] = "inner"
    BY <1>7, TypesOK DEF Types, Go
  <2> QED BY <1>1, <1>2, <2>1 DEF Own, SameRole, Fields, Local, Mutexes, Handshake, Path,
         NewPath, InitPath, RunPath, StopPath, DeinitPath, DeletePath, Rests, Waits, Runs, Sleeping
<1>8. CASE (to_init[w] \/ ~is_inited[w]) /\ Go(w, "deinit", "outer")
  <2>1. (to_init[w] \/ ~is_inited[w]) /\ thread[w] = "deinit" /\ thread'[w] = "outer"
    BY <1>8, TypesOK DEF Types, Go
  <2> QED BY <1>1, <1>2, <2>1 DEF Own, SameRole, Fields, Local, Mutexes, Handshake, Path,
         NewPath, InitPath, RunPath, StopPath, DeinitPath, DeletePath, Rests, Waits, Runs, Sleeping
<1> QED BY <1>3, <1>4, <1>5, <1>6, <1>7, <1>8 DEF Loop

(* An answer reaches the manager if the manager waits for it.                *)
LEMMA LocalTell ==
  ASSUME TypeOK, Shape, NEW w \in Workers, Local(w), Tell(w)
  PROVE  Local(w)'
<1>1. /\ \/ /\ thread[w] = "tell" /\ thread'[w] = "blocking" /\ req'[w] = "worker"
         \/ thread[w] = "run_tell" /\ thread'[w] = "run"
         \/ thread[w] = "quit_tell" /\ thread'[w] = "ended"
      /\ resume'[w] = resume[w] /\ resp'[w] = resp[w] /\ op' = op
      /\ to_quit'[w] = to_quit[w] /\ to_init'[w] = to_init[w] /\ to_run'[w] = to_run[w]
      /\ is_inited'[w] = is_inited[w] /\ is_running'[w] = is_running[w]
  BY TypesOK DEF Types, Tell, Go, state, flags
<1>2. Fields(w)
  BY FieldTypes
<1>3. /\ Listed(w)' <=> Listed(w)
      /\ Raised(w)' <=> Raised(w)
      /\ Called(w)' <=> Called(w)
      /\ Notified(w)' <=> Notified(w)
      /\ Awaited(w)' <=> Awaited(w)
      /\ Answered(w)' <=> Awaited(w)
      /\ Joined(w)' <=> Joined(w)
  BY DEF Tell, NotifyManager, Listed, Raised, Called, Notified, Awaited, Answered, Joined
<1>4. (Answered(w) => Awaited(w)) /\ (op = "new" => ~Raised(w))
  BY DEF Answered, Awaited, Raised, Shape
<1>5. CASE ~Raised(w) /\ ~Notified(w)
  BY <1>1, <1>2, <1>3, <1>4, <1>5 DEF Fields, Local, Mutexes, Handshake, Rests, Suits,
     Waits, Runs, Sleeping
<1>6. CASE Raised(w) \/ Notified(w)
  <2>1. Path(w)
    BY <1>6 DEF Local
  <2>2. NewPath(w)' \/ op # "new"
    BY <1>1, <1>2, <1>3, <1>4, <1>6, <2>1 DEF Fields, Local, Mutexes, Handshake, Path,
       NewPath, Sleeping
  <2>3. InitPath(w)' \/ op # "init"
    BY <1>1, <1>2, <1>3, <1>4, <1>6, <2>1 DEF Fields, Local, Mutexes, Handshake, Path,
       InitPath, Sleeping
  <2>4. RunPath(w)' \/ op # "run"
    BY <1>1, <1>2, <1>3, <1>4, <1>6, <2>1 DEF Fields, Local, Mutexes, Handshake, Path,
       RunPath, Sleeping
  <2>5. StopPath(w)' \/ op # "stop"
    BY <1>1, <1>2, <1>3, <1>4, <1>6, <2>1 DEF Fields, Local, Mutexes, Handshake, Path,
       StopPath, Sleeping
  <2>6. DeinitPath(w)' \/ op # "deinit"
    BY <1>1, <1>2, <1>3, <1>4, <1>6, <2>1 DEF Fields, Local, Mutexes, Handshake, Path,
       DeinitPath, Sleeping
  <2>7. DeletePath(w)' \/ op # "delete"
    BY <1>1, <1>2, <1>3, <1>4, <1>6, <2>1 DEF Fields, Local, Mutexes, Handshake, Path,
       DeletePath, Sleeping
  <2>8. Path(w)'
    BY <1>1, <1>2, <1>3, <1>4, <2>2, <2>3, <2>4, <2>5, <2>6, <2>7 DEF Path
  <2>9. Mutexes(w)' /\ Handshake(w)'
    BY <1>1, <1>2, <1>3, <1>4, <1>6, <2>1 DEF Fields, Local, Mutexes, Handshake, Path,
       NewPath, InitPath, RunPath, Sleeping
  <2> QED BY <1>1, <1>2, <1>3, <1>4, <1>6, <2>8, <2>9 DEF Local
<1> QED BY <1>5, <1>6


LEMMA LocalThread ==
  ASSUME TypeOK, Shape, NEW w \in Workers, Local(w), ThreadFunction(w)
  PROVE  Local(w)'
<1>1. CASE Tell(w)
  BY <1>1, LocalTell
<1>2. CASE ~Tell(w)
  <2>1. Own(w)
    BY <1>2, OwnStep
  <2> QED BY <1>2, <2>1, LocalInit, LocalRun, LocalStop, LocalDeinit, LocalQuit, LocalBlock,
             LocalPass, LocalLoop DEF ThreadFunction
<1> QED BY <1>1, <1>2

LEMMA OthersStill ==
  ASSUME TypeOK, NEW w \in Workers, NEW v \in Workers, v # w, ThreadFunction(w)
  PROVE  Still(v) /\ resp'[v] = resp[v]
<1> USE TypesOK DEF Types, Still, flags, state, locks, Go, Answer
<1>1. CASE PassRespMutex(w) \/ Block(w) \/ Resume(w)
  BY <1>1 DEF PassRespMutex, Block, Resume
<1>2. CASE Loop(w)
  BY <1>2 DEF Loop
<1>3. CASE InitState(w) \/ RunState(w) \/ StopState(w)
  BY <1>3 DEF InitState, RunState, StopState
<1>4. CASE DeinitState(w) \/ QuitState(w)
  BY <1>4 DEF DeinitState, QuitState
<1>5. CASE Tell(w)
  BY <1>5 DEF Tell
<1> QED BY <1>1, <1>2, <1>3, <1>4, <1>5 DEF ThreadFunction

(* The thread of one worker leaves the others where they are.                *)
LEMMA LocalOthers ==
  ASSUME TypeOK, NEW w \in Workers, NEW v \in Workers, v # w, Local(v), ThreadFunction(w)
  PROVE  Local(v)'
<1>1. Still(v) /\ resp'[v] = resp[v]
  BY OthersStill
<1>2. SameRole(v) /\ op' = op
  <2>1. CASE Tell(w)
    BY <2>1 DEF Tell, NotifyManager, SameRole, Listed, Raised, Called, Notified, Awaited,
                Answered, Joined
  <2>2. CASE ~Tell(w)
    <3>1. UNCHANGED manager
      BY <2>2 DEF ThreadFunction, PassRespMutex, Block, Resume, Loop, InitState, RunState,
                  StopState, DeinitState, QuitState
    <3> QED BY <3>1 DEF manager, SameRole, Listed, Raised, Called, Notified, Awaited,
                        Answered, Joined
  <2> QED BY <2>1, <2>2
<1> QED BY <1>1, <1>2, Untouched
-----------------------------------------------------------------------------
LEMMA LocalNew ==
  ASSUME TypeOK, Shape, NEW w \in Workers, NEW v \in Workers, Local(v), NewWorker(w), Local(w)
  PROVE  Local(v)'
<1>1. /\ mpc = "idle" /\ todo = <<>> /\ pending = <<>> /\ todo' = todo /\ pending' = <<w>>
      /\ mpc' = "waiting" /\ op' = "new"
  BY TypesOK DEF Types, NewWorker
<1>2. /\ ~Listed(v) /\ ~Notified(v) /\ ~Raised(v) /\ ~Joined(v)
      /\ ~Listed(v)' /\ (Notified(v)' <=> v = w) /\ ~Raised(v)' /\ ~Joined(v)' /\ ~Called(v)'
      /\ (Awaited(v)' <=> v = w) /\ ~Answered(v)'
  BY <1>1, EmptyAndOne DEF Listed, Notified, Raised, Joined, Called, Awaited, Answered
<1>3. CASE v = w
  <2>1. /\ thread[w] = "none" /\ thread'[w] = "sync" /\ resume'[w] = "outer"
        /\ ~to_quit'[w] /\ ~to_init'[w] /\ ~to_run'[w]
        /\ is_inited'[w] = is_inited[w] /\ is_running'[w] = is_running[w]
    BY TypesOK DEF Types, NewWorker, state
  <2> QED BY <1>1, <1>2, <1>3, <2>1 DEF Local, Mutexes, Handshake, Path, NewPath
<1>4. CASE v # w
  <2>1. Still(v)
    BY <1>4, TypesOK DEF Types, NewWorker, Still, state, locks
  <2> QED BY <1>2, <1>4, <2>1, Unnamed DEF Idle
<1> QED BY <1>3, <1>4

(* A call names workers at rest in a state that suits it.                    *)
LEMMA LocalCall ==
  ASSUME TypeOK, Shape, NEW v \in Workers, Local(v), NEW name, NEW names \in Seq(Workers),
         Call(name, names),
         v \in ToSet(names) /\ Rests(v) =>
           /\ name = "init"   => Waits(v) /\ ~is_inited[v]
           /\ name = "run"    => Waits(v) /\ is_inited[v]
           /\ name = "stop"   => Runs(v)
           /\ name = "deinit" => is_inited[v] /\ thread[v] # "none"
           /\ name = "delete" => thread[v] # "none"
  PROVE  Local(v)'
<1>1. /\ mpc = "idle" /\ pending = <<>> /\ todo = <<>> /\ pending' = pending
      /\ mpc' = "raise" /\ op' = name
  BY TypesOK DEF Types, Call
<1>2. /\ ~Listed(v) /\ ~Notified(v) /\ ~Raised(v) /\ ~Joined(v)
      /\ ~Notified(v)' /\ ~Raised(v)' /\ ~Joined(v)' /\ ~Called(v)'
      /\ Listed(v)' <=> v \in ToSet(names)
  BY <1>1, EmptyAndOne DEF Listed, Notified, Raised, Joined, Called, Call
<1>3. Still(v)
  BY DEF Call, Still, flags, state, locks, worker
<1>4. Rests(v) /\ Mutexes(v)
  BY <1>2 DEF Local
<1>5. Mutexes(v)' /\ Handshake(v)'
  BY <1>2, <1>3, <1>4 DEF Mutexes, Handshake, Still
<1>6. Rests(v)' /\ (Waits(v) => Waits(v)') /\ (Runs(v) => Runs(v)')
  BY <1>3, <1>4 DEF Rests, Waits, Runs, Sleeping, Still
<1>7. Listed(v)' => Suits(v)'
  BY <1>1, <1>2, <1>3, <1>4, <1>6 DEF Suits, Still
<1>8. thread'[v] \in {"none", "ended"} => ~is_inited'[v] /\ ~is_running'[v]
  BY <1>2, <1>3 DEF Local, Still
<1> QED BY <1>2, <1>5, <1>6, <1>7, <1>8 DEF Local

LEMMA LocalCalls ==
  ASSUME TypeOK, Shape, NEW v \in Workers, Local(v),
         \/ InitWorkers
         \/ \E w \in Workers : DeleteWorker(w) \/ DeinitWorker(w) \/ RunWorker(w) \/ StopWorker(w)
  PROVE  Local(v)'
<1>0. is_running[v] \in BOOLEAN /\ is_inited[v] \in BOOLEAN
  BY FieldTypes DEF Fields
<1>1. CASE InitWorkers
  <2>1. PICK names \in SetToAllKPermutations(Workers) :
          Call("init", names) /\ \A w \in ToSet(names) : Exists(w) /\ ~is_inited[w]
    BY <1>1 DEF InitWorkers
  <2>2. names \in Seq(Workers)
    BY NamesAreLists
  <2>3. v \in ToSet(names) /\ Rests(v) => Waits(v) /\ ~is_inited[v]
    BY <2>1 DEF Rests, Runs, Exists
  <2> QED BY <2>1, <2>2, <2>3, LocalCall
<1>2. ASSUME NEW w \in Workers, DeleteWorker(w) \/ DeinitWorker(w) \/ RunWorker(w) \/ StopWorker(w)
      PROVE  Local(v)'
  <2>1. <<w>> \in Seq(Workers) /\ ToSet(<<w>>) = {w}
    BY EmptyAndOne
  <2>2. CASE DeleteWorker(w)
    BY <2>1, <2>2, LocalCall DEF DeleteWorker, Exists
  <2>3. CASE DeinitWorker(w)
    BY <2>1, <2>3, LocalCall DEF DeinitWorker, Exists
  <2>4. CASE RunWorker(w)
    <3>1. v \in ToSet(<<w>>) /\ Rests(v) => Waits(v) /\ is_inited[v]
      BY <2>1, <2>4 DEF RunWorker, Exists, Rests, Runs
    <3> QED BY <2>1, <2>4, <3>1, LocalCall DEF RunWorker
  <2>5. CASE StopWorker(w)
    <3>1. v \in ToSet(<<w>>) /\ Rests(v) => Runs(v)
      BY <2>1, <2>5 DEF StopWorker, Exists, Rests, Waits
    <3> QED BY <2>1, <2>5, <3>1, LocalCall DEF StopWorker
  <2> QED BY <1>2, <2>2, <2>3, <2>4, <2>5
<1> QED BY <1>1, <1>2

-----------------------------------------------------------------------------
LEMMA LocalRaise ==
  ASSUME TypeOK, Shape, NEW v \in Workers, Local(v), Raise
  PROVE  Local(v)'
<1>1. /\ mpc = "raise" /\ mpc' = "sync" /\ todo # <<>>
      /\ UNCHANGED <<op, todo, pending, thread, resume, req, resp, is_inited, is_running>>
  BY DEF Raise, Shape, state, locks, worker
<1>2. /\ Head(todo) \in Workers /\ Listed(Head(todo)) /\ ~Notified(Head(todo))
      /\ op # "new" /\ op # "none"
  BY <1>1, Heads, TypesOK DEF Types, Shape
<1>3. /\ ~Raised(v) /\ ~Joined(v) /\ ~Awaited(v) /\ ~Answered(v) /\ ~Called(v)
      /\ ~Joined(v)' /\ ~Awaited(v)' /\ ~Answered(v)' /\ ~Called(v)'
      /\ (Listed(v)' <=> Listed(v)) /\ (Notified(v)' <=> Notified(v))
      /\ Raised(v)' <=> v = Head(todo)
  BY <1>1 DEF Listed, Notified, Raised, Joined, Called, Awaited, Answered
<1>4. CASE v = Head(todo)
  <2>1. Rests(v) /\ Suits(v) /\ Mutexes(v)
    BY <1>2, <1>3, <1>4 DEF Local
  <2>2. /\ to_quit'[v] = (to_quit[v] \/ op = "delete")
        /\ to_init'[v] = ((to_init[v] \/ op = "init") /\ op # "deinit")
        /\ to_run'[v] = ((to_run[v] \/ op = "run") /\ op # "stop")
    BY <1>4, TypesOK DEF Types, Raise
  <2>3. Fields(v)
    BY FieldTypes
  <2>4. Mutexes(v)' /\ Handshake(v)'
    BY <1>1, <1>2, <1>3, <1>4, <2>1 DEF Mutexes, Handshake
  <2>5. Path(v)'
    BY <1>1, <1>2, <1>3, <1>4, <2>1, <2>2, <2>3 DEF Fields, Rests, Suits, Waits, Runs,
       Sleeping,
       Path, InitPath, RunPath, StopPath, DeinitPath, DeletePath
  <2> QED BY <1>3, <1>4, <2>4, <2>5 DEF Local
<1>5. CASE v # Head(todo)
  <2>1. Still(v)
    BY <1>1, <1>2, <1>5, TypesOK DEF Types, Raise, Still
  <2>2. SameRole(v)
    BY <1>3, <1>5 DEF SameRole
  <2> QED BY <1>1, <2>1, <2>2, Untouched
<1> QED BY <1>4, <1>5

(* Past the request mutex, a worker that has answered sleeps.                *)
LEMMA LocalPassReq ==
  ASSUME TypeOK, Shape, NEW v \in Workers, Local(v), PassReqMutex
  PROVE  Local(v)'
<1>1. /\ mpc = "sync" /\ mpc' = "notify" /\ req[Head(todo)] = "free"
      /\ UNCHANGED <<flags, state, locks, worker, op, todo, pending>>
  BY DEF PassReqMutex
<1>2. Still(v) /\ resp'[v] = resp[v]
  BY <1>1 DEF Still, flags, state, locks, worker
<1>3. /\ (Listed(v)' <=> Listed(v)) /\ (Notified(v)' <=> Notified(v))
      /\ (Raised(v)' <=> Raised(v)) /\ ~Called(v) /\ (Called(v)' <=> Raised(v))
      /\ ~Joined(v) /\ ~Joined(v)' /\ ~Awaited(v) /\ ~Awaited(v)'
      /\ ~Answered(v) /\ ~Answered(v)'
      /\ Raised(v) => req[v] = "free"
  BY <1>1 DEF Listed, Notified, Raised, Joined, Called, Awaited, Answered
<1>4. CASE Raised(v)
  <2>1. Path(v) /\ Mutexes(v) /\ Handshake(v)
    BY <1>4 DEF Local
  <2>2. op \in {"init", "run"} => thread[v] = "asleep"
    BY <1>3, <1>4, <2>1 DEF Mutexes, Path, InitPath, RunPath, Sleeping
  <2>3. Mutexes(v)' /\ Handshake(v)'
    BY <1>1, <1>2, <1>3, <2>1, <2>2 DEF Mutexes, Handshake, Still
  <2>4. Path(v)'
    BY <1>1, <1>2, <1>3, <2>1 DEF Still, Path, NewPath, InitPath, RunPath, StopPath,
       DeinitPath, DeletePath, Sleeping
  <2> QED BY <1>3, <1>4, <2>3, <2>4 DEF Local
<1>5. CASE ~Raised(v)
  <2>1. SameRole(v)
    BY <1>3, <1>5 DEF SameRole
  <2> QED BY <1>1, <1>2, <2>1, Untouched
<1> QED BY <1>4, <1>5

LEMMA LocalNotify ==
  ASSUME TypeOK, Shape, NEW v \in Workers, Local(v), NotifyWorker
  PROVE  Local(v)'
<1>1. /\ mpc = "notify" /\ mpc' \in {"wait", "raise"} /\ op' = op /\ op # "new" /\ op # "none"
      /\ UNCHANGED <<to_quit, to_init, to_run, is_inited, is_running, req, resume>>
  BY TypesOK DEF Types, NotifyWorker, Shape, flags, state
<1>2. /\ Head(todo) \in Workers /\ ~Notified(Head(todo))
      /\ (Listed(v)' <=> (Listed(v) /\ v # Head(todo)))
      /\ (Notified(v)' <=> (Notified(v) \/ v = Head(todo)))
  BY NotifyRoles
<1>3. /\ (Raised(v) <=> v = Head(todo)) /\ (Called(v) <=> v = Head(todo))
      /\ ~Raised(v)' /\ ~Called(v)'
      /\ ~Joined(v) /\ ~Joined(v)' /\ ~Awaited(v) /\ ~Awaited(v)'
      /\ ~Answered(v) /\ ~Answered(v)'
  BY <1>1 DEF Raised, Joined, Called, Awaited, Answered
<1>4. CASE v = Head(todo)
  <2>1. Path(v) /\ Mutexes(v) /\ Handshake(v)
    BY <1>3, <1>4 DEF Local
  <2>2. resp'[v] = "manager" /\ thread'[v] = IF thread[v] = "asleep" THEN "awake" ELSE thread[v]
    BY <1>4, TypesOK DEF Types, NotifyWorker
  <2>3. Fields(v)
    BY FieldTypes
  <2>4. op \in {"init", "run"} => thread[v] = "asleep"
    BY <1>3, <1>4, <2>1 DEF Handshake
  <2>5. Mutexes(v)' /\ Handshake(v)'
    BY <1>1, <1>2, <1>3, <1>4, <2>1, <2>2, <2>4 DEF Mutexes, Handshake
  <2>6. Path(v)'
    BY <1>1, <1>2, <1>3, <1>4, <2>1, <2>2, <2>3, <2>4 DEF Fields, Path, InitPath, RunPath,
       StopPath, DeinitPath, DeletePath, Sleeping
  <2> QED BY <1>2, <1>3, <1>4, <2>5, <2>6 DEF Local
<1>5. CASE v # Head(todo)
  <2>1. Still(v) /\ resp'[v] = resp[v]
    BY <1>1, <1>2, <1>5, TypesOK DEF Types, NotifyWorker, Still
  <2>2. SameRole(v)
    BY <1>2, <1>3, <1>5 DEF SameRole
  <2> QED BY <1>1, <2>1, <2>2, Untouched
<1> QED BY <1>4, <1>5

LEMMA LocalWait ==
  ASSUME TypeOK, Shape, NEW v \in Workers, Local(v), Wait
  PROVE  Local(v)'
<1>1. /\ mpc = "wait" /\ mpc' = "waiting" /\ pending # <<>> /\ op # "new"
      /\ UNCHANGED <<flags, state, req, worker, op, todo, pending>>
  BY DEF Wait, Shape
<1>2. Still(v)
  BY <1>1 DEF Still, flags, state, worker
<1>3. Head(pending) \in Workers /\ Notified(Head(pending))
  BY <1>1, Heads
<1>4. /\ (Listed(v)' <=> Listed(v)) /\ (Notified(v)' <=> Notified(v))
      /\ ~Raised(v) /\ ~Raised(v)' /\ ~Called(v) /\ ~Called(v)'
      /\ ~Joined(v) /\ ~Joined(v)' /\ ~Answered(v) /\ ~Answered(v)'
      /\ ~Awaited(v) /\ (Awaited(v)' <=> v = Head(pending))
  BY <1>1 DEF Listed, Notified, Raised, Joined, Called, Awaited, Answered
<1>5. CASE v = Head(pending)
  <2>1. Path(v) /\ Mutexes(v) /\ Handshake(v)
    BY <1>3, <1>5 DEF Local
  <2>2. Mutexes(v)' /\ Handshake(v)'
    BY <1>1, <1>2, <1>3, <1>4, <1>5, <2>1 DEF Mutexes, Handshake, Still
  <2>3. Path(v)'
    BY <1>1, <1>2, <1>4, <2>1 DEF Still, Path, NewPath, InitPath, RunPath, StopPath,
       DeinitPath, DeletePath, Sleeping
  <2> QED BY <1>3, <1>4, <1>5, <2>2, <2>3 DEF Local
<1>6. CASE v # Head(pending)
  <2>1. resp'[v] = resp[v]
    BY <1>3, <1>6, TypesOK DEF Types, Wait
  <2>2. SameRole(v)
    BY <1>4, <1>6 DEF SameRole
  <2> QED BY <1>1, <1>2, <2>1, <2>2, Untouched
<1> QED BY <1>5, <1>6

(* A worker that has been heard is at rest again, in the state it was asked   *)
(* for, or ended.                                                           *)
LEMMA HeardRests ==
  ASSUME Shape, TypeOK, NEW v \in Workers, Local(v), Answered(v), Notified(v)
  PROVE  /\ op # "delete" => Rests(v)
         /\ op = "delete" => thread[v] = "ended"
         /\ thread[v] \in {"none", "ended"} => ~is_inited[v] /\ ~is_running[v]
<1>1. Path(v)
  BY DEF Local
<1>2. Fields(v) /\ ~Raised(v) /\ op # "none"
  BY FieldTypes, TypesOK DEF Types, Answered, Raised
<1>3. op \in {"new", "init", "run", "stop", "deinit", "delete"}
  BY <1>2, TypesOK DEF Types
<1> QED BY <1>1, <1>2, <1>3 DEF Fields, Path, NewPath, InitPath, RunPath, StopPath,
           DeinitPath,
        DeletePath, Rests, Waits, Runs, Sleeping

LEMMA LocalAwake ==
  ASSUME TypeOK, Shape, NEW v \in Workers, Local(v), Awake
  PROVE  Local(v)'
<1>1. mpc = "awake" /\ UNCHANGED <<flags, state, req, worker>> /\ mpc' \in {"wait", "join", "idle"}
  BY DEF Awake
<1>2. Still(v)
  BY <1>1 DEF Still, flags, state, worker
<1>3. /\ Head(pending) \in Workers /\ Notified(Head(pending)) /\ todo = <<>> /\ ~Listed(v)
      /\ (Notified(v)' <=> (Notified(v) /\ v # Head(pending)))
  BY AwakeRoles
<1>4. /\ ~Raised(v) /\ ~Raised(v)' /\ ~Called(v) /\ ~Called(v)'
      /\ ~Joined(v) /\ (Answered(v) <=> v = Head(pending))
      /\ (Awaited(v) <=> v = Head(pending)) /\ ~Answered(v)' /\ ~Awaited(v)'
  BY <1>1 DEF Raised, Joined, Called, Awaited, Answered
<1>5. CASE Tail(pending) # <<>>
  <2>1. mpc' = "wait" /\ op' = op /\ todo' = todo
    BY <1>5 DEF Awake
  <2>2. ~Listed(v)' /\ ~Joined(v)'
    BY <1>3, <2>1 DEF Listed, Joined
  <2>3. CASE v = Head(pending)
    <3>1. op = "init"
      <4>1. PICK u \in Workers : u \in ToSet(Tail(pending))
        BY <1>1, <1>5, HeadAndTail, AwakeRoles, TypesOK DEF Types, Shape
      <4>2. u \in ToSet(pending) /\ u # Head(pending)
        BY <1>1, <1>5, <4>1, HeadAndTail, TypesOK DEF Types, Shape
      <4> QED BY <1>3, <4>1, <4>2 DEF Shape, InCall, Notified
    <3>2. Rests(v) /\ (thread[v] \in {"none", "ended"} => ~is_inited[v] /\ ~is_running[v])
      BY <1>3, <1>4, <2>3, <3>1, HeardRests
    <3>3. Rests(v)' /\ (thread'[v] \in {"none", "ended"} => ~is_inited'[v] /\ ~is_running'[v])
      BY <1>2, <3>2 DEF Still, Rests, Waits, Runs, Sleeping
    <3>4. Mutexes(v)' /\ Handshake(v)'
      BY <1>2, <1>3, <1>4, <2>3 DEF Local, Mutexes, Handshake, Still
    <3> QED BY <1>3, <1>4, <2>2, <2>3, <3>3, <3>4 DEF Local
  <2>4. CASE v # Head(pending)
    <3>1. resp'[v] = resp[v]
      BY <1>3, <1>5, <2>4, TypesOK DEF Types, Awake
    <3>2. SameRole(v)
      BY <1>3, <1>4, <2>2, <2>4 DEF SameRole
    <3> QED BY <1>2, <2>1, <3>1, <3>2, Untouched
  <2> QED BY <2>3, <2>4
<1>6. CASE Tail(pending) = <<>>
  <2>1. /\ pending' = <<>>
        /\ \/ op = "delete" /\ mpc' = "join" /\ todo' = <<Head(pending)>>
           \/ op # "delete" /\ mpc' = "idle" /\ todo' = todo
    BY <1>6 DEF Awake
  <2>2. /\ ~Notified(v)' /\ (Notified(v) <=> v = Head(pending))
        /\ Listed(v)' <=> (op = "delete" /\ v = Head(pending))
        /\ Joined(v)' <=> (op = "delete" /\ v = Head(pending))
    BY <1>3, <2>1, EmptyAndOne DEF Notified, Listed, Joined
  <2>3. CASE v = Head(pending)
    <3>1. /\ op # "delete" => Rests(v)
          /\ op = "delete" => thread[v] = "ended"
          /\ thread[v] \in {"none", "ended"} => ~is_inited[v] /\ ~is_running[v]
      BY <1>3, <1>4, <2>3, HeardRests
    <3>2. /\ op # "delete" => Rests(v)'
          /\ op = "delete" => thread'[v] = "ended"
          /\ thread'[v] \in {"none", "ended"} => ~is_inited'[v] /\ ~is_running'[v]
      BY <1>2, <3>1 DEF Still, Rests, Waits, Runs, Sleeping
    <3>3. Mutexes(v)' /\ Handshake(v)'
      BY <1>2, <1>4, <2>2 DEF Local, Mutexes, Handshake, Still
    <3> QED BY <1>4, <2>2, <2>3, <3>2, <3>3 DEF Local
  <2>4. CASE v # Head(pending)
    BY <1>2, <1>3, <1>4, <2>2, <2>4, Unnamed DEF Idle
  <2> QED BY <2>3, <2>4
<1> QED BY <1>5, <1>6

LEMMA LocalJoin ==
  ASSUME TypeOK, Shape, NEW v \in Workers, Local(v), Join
  PROVE  Local(v)'
<1>1. /\ mpc = "join" /\ mpc' = "idle" /\ pending = <<>> /\ pending' = pending /\ todo' = <<>>
      /\ todo # <<>> /\ op # "init"
      /\ UNCHANGED <<flags, state, locks, resume>> /\ thread[Head(todo)] = "ended"
  BY DEF Join, Shape
<1>2. Head(todo) \in Workers /\ Listed(Head(todo))
  BY <1>1, Heads
<1>3. /\ ~Raised(v) /\ ~Raised(v)' /\ ~Called(v)' /\ ~Notified(v) /\ ~Notified(v)'
      /\ ~Listed(v)' /\ ~Joined(v)' /\ (Joined(v) <=> Listed(v))
  BY <1>1, EmptyAndOne DEF Raised, Joined, Called, Notified, Listed
<1>4. CASE v = Head(todo)
  <2>1. thread'[v] = "none" /\ ~is_inited[v] /\ ~is_running[v]
    BY <1>1, <1>2, <1>3, <1>4, TypesOK DEF Types, Join, Local
  <2> QED BY <1>1, <1>3, <2>1 DEF Local, Mutexes, Handshake, Rests, state
<1>5. CASE v # Head(todo)
  <2>1. Still(v)
    BY <1>1, <1>5, TypesOK DEF Types, Join, Still, flags, state, locks
  <2>2. ~Listed(v)
    BY <1>1, <1>2, <1>5 DEF Shape, InCall
  <2> QED BY <1>3, <2>1, <2>2, Unnamed DEF Idle
<1> QED BY <1>4, <1>5


LEMMA LocalManager ==
  ASSUME TypeOK, Shape, NEW v \in Workers, Local(v), ManagerStep
  PROVE  Local(v)'
BY LocalRaise, LocalPassReq, LocalNotify, LocalWait, LocalAwake, LocalJoin DEF ManagerStep
-----------------------------------------------------------------------------
LEMMA InitIInv == Init => IInv
<1> SUFFICES ASSUME Init PROVE IInv
  OBVIOUS
<1>1. TypeOK
  BY EmptyAndOne, TypesOK DEF Types, Init, AllFalse, AllFree, Threads, Mutex
<1>2. \A w \in Workers : ~Listed(w) /\ ~Notified(w)
  BY EmptyAndOne DEF Init, Listed, Notified
<1>3. Shape
  BY <1>2, EmptyAndOne DEF Init, Shape, InCall
<1>4. ASSUME NEW w \in Workers PROVE Local(w)
  BY <1>2, <1>4 DEF Init, AllFalse, Local, Mutexes, Handshake, Raised, Called, Joined, Rests
<1> QED BY <1>1, <1>3, <1>4 DEF IInv

(* A step that is not the first spurious wakeup keeps all workers in place.  *)
LEMMA StepIInv == IInv /\ [Next]_vars => IInv'
<1> SUFFICES ASSUME IInv, [Next]_vars PROVE IInv'
  OBVIOUS
<1>1. TypeOK /\ Shape /\ TypeOK' /\ Shape'
  BY TypeStep DEF IInv
<1>2. ASSUME spurious' = 0, NEW v \in Workers PROVE Local(v)'
  <2>1. spurious = 0 /\ ~SpuriousWakeup
    BY <1>1, <1>2, TypesOK DEF Types, Next, SpuriousWakeup, vars
  <2>2. \A w \in Workers : Local(w)
    BY <2>1 DEF IInv
  <2>3. CASE UNCHANGED vars
    <3>1. Still(v) /\ resp'[v] = resp[v] /\ op' = op
      BY <2>3 DEF vars, Still, flags, state, locks, worker, manager
    <3>2. SameRole(v)
      BY <2>3 DEF vars, manager, SameRole, Listed, Raised, Called, Notified, Awaited,
         Answered,
                  Joined
    <3> QED BY <2>2, <3>1, <3>2, Untouched
  <2>4. ASSUME NEW w \in Workers, ThreadFunction(w) PROVE Local(v)'
    BY <1>1, <2>2, <2>4, LocalThread, LocalOthers
  <2>5. ASSUME NEW w \in Workers, NewWorker(w) PROVE Local(v)'
    BY <1>1, <2>2, <2>5, LocalNew
  <2>6. CASE ManagerStep
    BY <1>1, <2>2, <2>6, LocalManager
  <2>7. CASE \/ InitWorkers
             \/ \E w \in Workers : DeleteWorker(w) \/ DeinitWorker(w) \/ RunWorker(w)
                                   \/ StopWorker(w)
    BY <1>1, <2>2, <2>7, LocalCalls
  <2> QED BY <2>1, <2>3, <2>4, <2>5, <2>6, <2>7 DEF Next
<1> QED BY <1>1, <1>2 DEF IInv

LEMMA HandshakeFromIInv == IInv => HandshakeHolds
<1> SUFFICES ASSUME IInv, op \in {"new", "init", "run"}, spurious = 0
             PROVE  /\ mpc = "notify" => thread[Head(todo)] = "asleep"
                    /\ \A w \in ToSet(pending) :
                         thread[w] \in {"tell", "run_tell"} =>
                           mpc = "waiting" /\ Head(pending) = w
  BY DEF HandshakeHolds
<1>1. TypeOK /\ Shape /\ \A w \in Workers : Local(w)
  BY DEF IInv
<1>2. ASSUME mpc = "notify" PROVE thread[Head(todo)] = "asleep"
  <2>1. Head(todo) \in Workers /\ op # "new"
    BY <1>1, <1>2, Heads DEF Shape
  <2> QED BY <1>1, <1>2, <2>1 DEF Local, Handshake, Called
<1>3. ASSUME NEW w \in ToSet(pending), thread[w] \in {"tell", "run_tell"}
      PROVE  mpc = "waiting" /\ Head(pending) = w
  <2>1. w \in Workers
    BY <1>1, TypesOK DEF Types, ToSet
  <2> QED BY <1>1, <1>3, <2>1 DEF Local, Handshake, Notified, Awaited, Answered
<1> QED BY <1>2, <1>3

LEMMA DoneFromIInv == IInv => NotifiedMeansDone
<1> SUFFICES ASSUME IInv, spurious = 0, mpc = "awake" PROVE Done(Head(pending))
  BY DEF NotifiedMeansDone, AnswerMeansDone
<1>1. TypeOK /\ Shape /\ \A w \in Workers : Local(w)
  BY DEF IInv
<1>2. PICK w \in Workers : w = Head(pending) /\ Notified(w)
  BY <1>1, Heads DEF Shape
<1>3. Answered(w) /\ ~Raised(w) /\ Path(w)
  BY <1>1, <1>2 DEF Answered, Raised, Local
<1>4. op \in {"new", "init", "run", "stop", "deinit", "delete"}
  BY <1>1, TypesOK DEF Types
<1>5. Fields(w)
  BY <1>1, FieldTypes
<1>6. Done(w)
  BY <1>3, <1>4, <1>5 DEF Fields, Done, Path, NewPath, InitPath, RunPath, StopPath,
     DeinitPath,
     DeletePath
<1> QED BY <1>2, <1>6

(* However many workers there are, until a wait returns by itself: whom the   *)
(* manager notifies sleeps, whom a worker answers waits for it, and an       *)
(* answer means that the request is done.                                   *)
THEOREM Invariance == Spec => [](TypeOK /\ HandshakeHolds /\ NotifiedMeansDone)
<1>1. IInv => TypeOK /\ HandshakeHolds /\ NotifiedMeansDone
  BY HandshakeFromIInv, DoneFromIInv DEF IInv
<1> QED BY InitIInv, StepIInv, <1>1, PTL DEF Spec

(* The guarantee of ThreadManager.cpp:143-148 for every call and worker.     *)
THEOREM HandshakesHold == Spec => []HandshakeHolds
BY Invariance, PTL

(* An answer that is notified is the answer to the request.                  *)
THEOREM AnswersMeanDone == Spec => []NotifiedMeansDone
BY Invariance, PTL
-----------------------------------------------------------------------------
(* ObedientWorkers: the steps of the instance from what a step does to each   *)
(* worker.                                                                  *)
SameLife(v) == Life(v)' = Life(v)
SameView(v) == SameLife(v) /\ Wish(v)' = Wish(v) /\ (Outstanding(v)' <=> Outstanding(v))

LEMMA StutterStep ==
  ASSUME \A v \in Workers : SameView(v)
  PROVE  UNCHANGED Obedient!vars
<1>1. LifeOf' = LifeOf
  BY DEF LifeOf, SameView, SameLife
<1>2. WishOf' = WishOf
  BY DEF WishOf, SameView
<1>3. OutstandingSet' = OutstandingSet
  BY DEF OutstandingSet, SameView
<1> QED BY <1>1, <1>2, <1>3 DEF Obedient!vars

LEMMA LifeChange ==
  ASSUME NEW w \in Workers, \A v \in Workers : v # w => SameLife(v)
  PROVE  LifeOf' = [LifeOf EXCEPT ![w] = Life(w)']
BY DEF LifeOf, SameLife

LEMMA WishChange ==
  ASSUME NEW w \in Workers, \A v \in Workers : v # w => Wish(v)' = Wish(v)
  PROVE  WishOf' = [WishOf EXCEPT ![w] = Wish(w)']
BY DEF WishOf

LEMMA ValuesAt ==
  ASSUME NEW w \in Workers
  PROVE  LifeOf[w] = Life(w) /\ WishOf[w] = Wish(w) /\ (w \in OutstandingSet <=> Outstanding(w))
BY DEF LifeOf, WishOf, OutstandingSet

LEMMA ObeyStep ==
  ASSUME NEW w \in Workers, \A v \in Workers : v # w => SameView(v),
         Life(w) # Wish(w), Life(w)' = Wish(w), Wish(w)' = Wish(w),
         Outstanding(w)' <=> Outstanding(w)
  PROVE  Obedient!Next
<1>1. LifeOf' = [LifeOf EXCEPT ![w] = WishOf[w]]
  BY LifeChange, ValuesAt DEF SameView
<1>2. WishOf' = WishOf /\ OutstandingSet' = OutstandingSet
  BY DEF WishOf, OutstandingSet, SameView
<1>3. Obedient!Obey(w)
  BY <1>1, <1>2, ValuesAt DEF Obedient!Obey
<1> QED BY <1>3 DEF Obedient!Next

LEMMA CreateStep ==
  ASSUME NEW w \in Workers, \A v \in Workers : v # w => SameLife(v) /\ Wish(v)' = Wish(v),
         \A v \in Workers : ~Outstanding(v) /\ (Outstanding(v)' <=> v = w),
         Life(w) = "none", Life(w)' = "New", Wish(w)' = "New"
  PROVE  Obedient!Next
<1>1. LifeOf' = [LifeOf EXCEPT ![w] = "New"]
  BY LifeChange
<1>2. WishOf' = [WishOf EXCEPT ![w] = "New"]
  BY WishChange
<1>3. OutstandingSet = {} /\ OutstandingSet' = {w}
  BY DEF OutstandingSet
<1>4. Obedient!Create(w)
  BY <1>1, <1>2, <1>3, ValuesAt DEF Obedient!Create
<1> QED BY <1>4 DEF Obedient!Next

LEMMA DeleteStep ==
  ASSUME NEW w \in Workers, \A v \in Workers : v # w => SameLife(v) /\ Wish(v)' = Wish(v),
         \A v \in Workers : ~Outstanding(v) /\ ~Outstanding(v)',
         Life(w) = "End", Life(w)' = "none", Wish(w)' = "none"
  PROVE  Obedient!Next
<1>1. LifeOf' = [LifeOf EXCEPT ![w] = "none"]
  BY LifeChange
<1>2. WishOf' = [WishOf EXCEPT ![w] = "none"]
  BY WishChange
<1>3. OutstandingSet = {} /\ OutstandingSet' = {}
  BY DEF OutstandingSet
<1>4. Obedient!Delete(w)
  BY <1>1, <1>2, <1>3, ValuesAt DEF Obedient!Delete
<1> QED BY <1>4 DEF Obedient!Next

LEMMA ReturnStep ==
  ASSUME NEW w \in Workers, \A v \in Workers : SameLife(v) /\ Wish(v)' = Wish(v),
         \A v \in Workers : Outstanding(v)' <=> (Outstanding(v) /\ v # w),
         Outstanding(w), Life(w) = Wish(w)
  PROVE  Obedient!Next
<1>1. LifeOf' = LifeOf /\ WishOf' = WishOf
  BY DEF LifeOf, WishOf, SameLife
<1>2. OutstandingSet' = OutstandingSet \ {w}
  BY DEF OutstandingSet
<1>3. Obedient!Return(w)
  BY <1>1, <1>2, ValuesAt DEF Obedient!Return
<1> QED BY <1>3 DEF Obedient!Next

LEMMA RequestStep ==
  ASSUME NEW S \in SUBSET Workers, NEW s \in {"New", "Inited", "Running", "End"}, S # {},
         \A v \in Workers : /\ SameLife(v)
                            /\ ~Outstanding(v) /\ (Outstanding(v)' <=> v \in S)
                            /\ Wish(v)' = IF v \in S THEN s ELSE Wish(v),
         \A v \in S : /\ Life(v) \in Obedient!Before(s)
                      /\ Wish(v) # "End" /\ Wish(v) = Life(v)
  PROVE  Obedient!Next
<1>1. LifeOf' = LifeOf
  BY DEF LifeOf, SameLife
<1>2. WishOf' = [v \in Workers |-> IF v \in S THEN s ELSE WishOf[v]]
  BY DEF WishOf
<1>3. OutstandingSet = {} /\ OutstandingSet' = S
  BY DEF OutstandingSet
<1>4. Obedient!Request(S, s)
  BY <1>1, <1>2, <1>3, ValuesAt DEF Obedient!Request
<1> QED BY <1>4 DEF Obedient!Next
-----------------------------------------------------------------------------
(* What a worker is follows from three of its fields.                        *)
LEMMA LifeFields ==
  ASSUME NEW v, is_inited'[v] = is_inited[v], is_running'[v] = is_running[v],
         \/ thread'[v] = thread[v]
         \/ /\ thread[v] \notin {"none", "quit_sync", "quit_tell", "ended"}
            /\ thread'[v] \notin {"none", "quit_sync", "quit_tell", "ended"}
         \/ /\ thread[v] \in {"quit_sync", "quit_tell"}
            /\ thread'[v] \in {"quit_tell", "ended"}
  PROVE  SameLife(v)
BY DEF SameLife, Life

LEMMA SameCall ==
  ASSUME NEW v, SameLife(v), UNCHANGED <<op, todo, pending>>,
         mpc' = "join" <=> mpc = "join"
  PROVE  SameView(v)
BY DEF SameView, SameLife, Wish, Goal, InCall, Listed, Notified, Outstanding

(* A worker becomes nothing but what its call has asked of it.               *)
LEMMA BecomesGoal ==
  ASSUME TypeOK, Shape, NEW w \in Workers, Local(w), ThreadFunction(w)
  PROVE  SameLife(w) \/ (InCall(w) /\ Life(w)' = Goal)
<1> USE TypesOK DEF Types, Go, Answer, state
<1>1. CASE PassRespMutex(w)
  BY <1>1, LifeFields DEF PassRespMutex
<1>2. CASE Tell(w)
  BY <1>2, LifeFields DEF Tell
<1>3. CASE Block(w)
  BY <1>3, LifeFields DEF Block
<1>4. CASE Resume(w)
  <2>1. resume[w] \in {"outer", "inner", "run_loop"}
    OBVIOUS
  <2> QED BY <1>4, <2>1, LifeFields DEF Resume
<1>5. CASE Loop(w)
  <2>1. UNCHANGED state
    BY <1>5 DEF Loop
  <2>2. thread[w] \in LoopLabels /\ thread'[w] \in LoopLabels
    BY <1>5, ThreadLoops
  <2> QED BY <2>1, <2>2, LifeFields DEF LoopLabels
<1>6. ASSUME thread[w] \in {"init", "start", "quit"} \/ (thread[w] \in {"stop", "deinit"} /\ ~Rests(w))
      PROVE  InCall(w) /\ Path(w)
  <2>1. ~Joined(w) /\ ~Rests(w)
    BY <1>6 DEF Local, Rests, Waits, Runs, Sleeping
  <2>2. Raised(w) \/ Notified(w)
    BY <2>1 DEF Local
  <2>3. Raised(w) => Listed(w)
    BY Heads DEF Raised, Shape
  <2> QED BY <2>2, <2>3 DEF Local, InCall
<1>7. Fields(w) /\ op \in {"none", "new", "init", "run", "stop", "deinit", "delete"}
  BY FieldTypes
<1>8. op # "none" \/ ~InCall(w)
  BY Heads DEF InCall
<1>9. CASE InitState(w)
  <2>1. /\ thread[w] = "init" /\ thread'[w] = "sync"
        /\ is_inited'[w] = TRUE /\ is_running'[w] = is_running[w]
    BY <1>9 DEF InitState
  <2>2. op = "init" /\ ~is_running[w] /\ InCall(w)
    BY <1>6, <1>7, <1>8, <2>1 DEF Path, NewPath, InitPath, RunPath, StopPath, DeinitPath,
       DeletePath, Sleeping
  <2> QED BY <2>1, <2>2 DEF Life, Goal
<1>10. CASE RunState(w)
  <2>1. thread[w] = "start" /\ thread'[w] = "run_sync" /\ is_running'[w] = TRUE
    BY <1>10 DEF RunState
  <2>2. op = "run" /\ InCall(w)
    BY <1>6, <1>7, <1>8, <2>1 DEF Path, NewPath, InitPath, RunPath, StopPath, DeinitPath,
       DeletePath, Sleeping
  <2> QED BY <2>1, <2>2 DEF Life, Goal
<1>11. CASE StopState(w)
  <2>1. /\ thread[w] = "stop" /\ thread'[w] = "sync" /\ is_running[w] /\ ~to_run[w]
        /\ is_inited'[w] = is_inited[w] /\ is_running'[w] = FALSE
    BY <1>11 DEF StopState
  <2>2. op = "stop" /\ is_inited[w] /\ InCall(w)
    BY <1>6, <1>7, <1>8, <2>1 DEF Path, NewPath, InitPath, RunPath, StopPath, DeinitPath,
       DeletePath, Sleeping, Rests, Waits, Runs
  <2> QED BY <2>1, <2>2 DEF Life, Goal
<1>12. CASE DeinitState(w)
  <2>1. /\ thread[w] = "deinit" /\ thread'[w] = "sync" /\ is_inited[w] /\ ~to_init[w]
        /\ is_inited'[w] = FALSE /\ is_running'[w] = FALSE
    BY <1>12 DEF DeinitState
  <2>2. op = "deinit" /\ InCall(w)
    BY <1>6, <1>7, <1>8, <2>1 DEF Path, NewPath, InitPath, RunPath, StopPath, DeinitPath,
       DeletePath, Sleeping, Rests, Waits, Runs
  <2> QED BY <2>1, <2>2 DEF Life, Goal
<1>13. CASE QuitState(w)
  <2>1. thread[w] = "quit" /\ thread'[w] = "quit_sync"
    BY <1>13 DEF QuitState
  <2>2. op = "delete" /\ InCall(w)
    BY <1>6, <1>7, <1>8, <2>1 DEF Path, NewPath, InitPath, RunPath, StopPath, DeinitPath,
       DeletePath, Sleeping
  <2> QED BY <2>1, <2>2 DEF Life, Goal
<1> QED BY <1>1, <1>2, <1>3, <1>4, <1>5, <1>9, <1>10, <1>11, <1>12, <1>13 DEF ThreadFunction

LEMMA ThreadObeys ==
  ASSUME TypeOK, Shape, NEW w \in Workers, Local(w), ThreadFunction(w), UNCHANGED spurious
  PROVE  Obedient!Next \/ UNCHANGED Obedient!vars
<1>1. UNCHANGED <<op, todo, pending>> /\ (mpc' = "join" <=> mpc = "join")
  BY TypeThread
<1>2. ASSUME NEW v \in Workers, v # w PROVE SameView(v)
  <2>1. SameLife(v)
    BY <1>2, OthersStill, LifeFields DEF Still
  <2> QED BY <1>1, <2>1, SameCall
<1>3. CASE SameLife(w)
  BY <1>1, <1>2, <1>3, SameCall, StutterStep
<1>4. CASE ~SameLife(w)
  <2>1. InCall(w) /\ Life(w)' = Goal /\ Life(w) # Goal
    BY <1>4, BecomesGoal DEF SameLife
  <2>2. InCall(w)' /\ Goal' = Goal /\ (Outstanding(w)' <=> Outstanding(w))
    BY <1>1, <2>1 DEF InCall, Listed, Notified, Goal, Outstanding
  <2>3. Wish(w) = Goal /\ Wish(w)' = Goal
    BY <2>1, <2>2 DEF Wish
  <2> QED BY <1>2, <2>1, <2>2, <2>3, ObeyStep
<1> QED BY <1>3, <1>4

LEMMA NewObeys ==
  ASSUME TypeOK, Shape, NEW w \in Workers, Local(w), NewWorker(w)
  PROVE  Obedient!Next
<1>1. /\ mpc = "idle" /\ todo = <<>> /\ pending = <<>> /\ todo' = todo /\ pending' = <<w>>
      /\ mpc' = "waiting" /\ op' = "new"
  BY TypesOK DEF Types, NewWorker
<1>2. \A v \in Workers : ~InCall(v) /\ (InCall(v)' <=> v = w)
  BY <1>1, EmptyAndOne DEF InCall, Listed, Notified
<1>3. \A v \in Workers : ~Outstanding(v) /\ (Outstanding(v)' <=> v = w)
  BY <1>1, <1>2 DEF Outstanding
<1>4. ASSUME NEW v \in Workers, v # w PROVE SameLife(v) /\ Wish(v)' = Wish(v)
  <2>1. SameLife(v)
    BY <1>4, LifeFields, TypesOK DEF Types, NewWorker, state
  <2> QED BY <1>2, <1>4, <2>1 DEF SameLife, Wish
<1>5. thread[w] = "none" /\ ~is_inited[w] /\ ~is_running[w]
  BY <1>1, <1>2 DEF NewWorker, Local, Raised, InCall
<1>6. Life(w) = "none" /\ Life(w)' = "New"
  BY <1>5, TypesOK DEF Types, NewWorker, Life, state
<1>7. Wish(w)' = "New"
  BY <1>1, <1>2 DEF Wish, Goal
<1> QED BY <1>3, <1>4, <1>6, <1>7, CreateStep

(* A call names workers from whose state its goal can be asked.              *)
LEMMA CallObeys ==
  ASSUME TypeOK, Shape, \A v \in Workers : Local(v),
         NEW names \in Seq(Workers), IsInjective(names), names # <<>>,
         NEW name \in {"init", "run", "stop", "deinit", "delete"}, Call(name, names),
         \A v \in ToSet(names) :
           /\ Exists(v)
           /\ name = "init"   => ~is_inited[v]
           /\ name = "run"    => is_inited[v] /\ ~is_running[v]
           /\ name = "stop"   => is_running[v]
           /\ name = "deinit" => is_inited[v]
  PROVE  Obedient!Next
<1>1. /\ mpc = "idle" /\ todo = <<>> /\ pending = <<>> /\ todo' = names /\ pending' = <<>>
      /\ mpc' = "raise" /\ op' = name /\ UNCHANGED <<flags, state, locks, worker>>
  BY TypesOK DEF Types, Call
<1>2. \A v \in Workers : ~InCall(v) /\ (InCall(v)' <=> v \in ToSet(names))
  BY <1>1, EmptyAndOne DEF InCall, Listed, Notified
<1>3. \A v \in Workers : ~Outstanding(v) /\ (Outstanding(v)' <=> v \in ToSet(names))
  BY <1>1, <1>2 DEF Outstanding
<1>4. \A v \in Workers : SameLife(v)
  BY <1>1 DEF SameLife, Life, state, worker
<1>5. \A v \in Workers : Wish(v)' = IF v \in ToSet(names) THEN Goal' ELSE Wish(v)
  BY <1>2, <1>4 DEF SameLife, Wish
<1>6. Goal' \in {"New", "Inited", "Running", "End"}
  BY <1>1 DEF Goal
<1>7. ToSet(names) \in SUBSET Workers /\ ToSet(names) # {}
  BY HeadAndTail, SeqDef DEF ToSet
<1>8. ASSUME NEW v \in ToSet(names)
      PROVE  Life(v) \in Obedient!Before(Goal') /\ Wish(v) # "End" /\ Wish(v) = Life(v)
  <2>1. v \in Workers
    BY <1>7
  <2>2. Rests(v)
    BY <1>1, <1>2, <2>1 DEF Local, Raised, Joined, InCall
  <2>3. Waits(v) \/ Runs(v)
    BY <2>2 DEF Rests, Exists
  <2>4. Life(v) = IF is_running[v] THEN "Running" ELSE IF is_inited[v] THEN "Inited" ELSE "New"
    BY <2>3 DEF Life, Waits, Runs, Sleeping
  <2>5. Wish(v) = Life(v)
    BY <1>2, <2>1 DEF Wish
  <2>6. is_running[v] => is_inited[v]
    BY <2>3 DEF Waits, Runs
  <2>7. Life(v) \in Obedient!Before(Goal')
    <3> USE DEF Goal, Obedient!Before
    <3>1. CASE name = "init"
      BY <1>1, <2>4, <2>6, <3>1
    <3>2. CASE name = "run"
      BY <1>1, <2>4, <3>2
    <3>3. CASE name = "stop"
      BY <1>1, <2>4, <3>3
    <3>4. CASE name = "deinit"
      BY <1>1, <2>4, <3>4
    <3>5. CASE name = "delete"
      BY <1>1, <2>4, <3>5
    <3> QED BY <3>1, <3>2, <3>3, <3>4, <3>5
  <2> QED BY <2>4, <2>5, <2>7
<1> QED BY <1>3, <1>4, <1>5, <1>6, <1>7, <1>8, RequestStep

LEMMA CallsObey ==
  ASSUME TypeOK, Shape, \A v \in Workers : Local(v),
         \/ InitWorkers
         \/ \E w \in Workers : DeleteWorker(w) \/ DeinitWorker(w) \/ RunWorker(w) \/ StopWorker(w)
  PROVE  Obedient!Next
<1>1. CASE InitWorkers
  <2>1. PICK names \in SetToAllKPermutations(Workers) :
          /\ names # <<>> /\ Call("init", names)
          /\ \A w \in ToSet(names) : Exists(w) /\ ~is_inited[w]
    BY <1>1 DEF InitWorkers
  <2>2. names \in Seq(Workers) /\ IsInjective(names)
    BY NamesAreLists
  <2> QED BY <2>1, <2>2, CallObeys
<1>2. ASSUME NEW w \in Workers, DeleteWorker(w) \/ DeinitWorker(w) \/ RunWorker(w) \/ StopWorker(w)
      PROVE  Obedient!Next
  <2>1. <<w>> \in Seq(Workers) /\ ToSet(<<w>>) = {w} /\ IsInjective(<<w>>) /\ <<w>> # <<>>
    BY EmptyAndOne
  <2>2. CASE DeleteWorker(w)
    BY <2>1, <2>2, CallObeys DEF DeleteWorker
  <2>3. CASE DeinitWorker(w)
    BY <2>1, <2>3, CallObeys DEF DeinitWorker
  <2>4. CASE RunWorker(w)
    BY <2>1, <2>4, CallObeys DEF RunWorker
  <2>5. CASE StopWorker(w)
    BY <2>1, <2>5, CallObeys DEF StopWorker
  <2> QED BY <1>2, <2>2, <2>3, <2>4, <2>5
<1> QED BY <1>1, <1>2

(* A worker that has been heard is what it was asked to become.              *)
LEMMA HeardObeys ==
  ASSUME TypeOK, Shape, NEW w \in Workers, Local(w), Answered(w), Notified(w)
  PROVE  Life(w) = Goal
<1>1. Path(w) /\ ~Raised(w)
  BY DEF Local, Answered, Raised
<1>2. Fields(w)
  BY FieldTypes
<1>3. op \in {"new", "init", "run", "stop", "deinit", "delete"}
  BY TypesOK DEF Types, Answered
<1> USE DEF Path, Sleeping, Life, Goal
<1>4. CASE op \in {"new", "deinit"}
  BY <1>1, <1>4 DEF NewPath, DeinitPath
<1>5. CASE op \in {"init", "stop"}
  BY <1>1, <1>5 DEF InitPath, StopPath
<1>6. CASE op = "run"
  BY <1>1, <1>6 DEF RunPath
<1>7. CASE op = "delete"
  BY <1>1, <1>7 DEF DeletePath
<1> QED BY <1>3, <1>4, <1>5, <1>6, <1>7

LEMMA AwakeObeys ==
  ASSUME TypeOK, Shape, \A v \in Workers : Local(v), Awake
  PROVE  Obedient!Next
<1> DEFINE w == Head(pending)
<1>1. /\ mpc = "awake" /\ UNCHANGED <<flags, state, req, worker>>
      /\ w \in Workers /\ Notified(w) /\ todo = <<>>
      /\ \A v \in Workers : ~Listed(v) /\ (Notified(v)' <=> (Notified(v) /\ v # w))
  BY AwakeRoles DEF Awake
<1>2. \A v \in Workers : SameLife(v)
  BY <1>1 DEF SameLife, Life, state, worker
<1>3. Life(w) = Goal /\ Wish(w) = Goal /\ Outstanding(w)
  BY <1>1, HeardObeys DEF Answered, Wish, InCall, Outstanding
<1>4. CASE Tail(pending) # <<>> \/ op # "delete"
  <2>1. /\ mpc' # "join" /\ todo' = todo
        /\ op' = op \/ (op' = "none" /\ pending' = <<>>)
    BY <1>4 DEF Awake
  <2>2. \A v \in Workers : ~Listed(v)'
    BY <1>1, <2>1 DEF Listed
  <2>3. \A v \in Workers : /\ InCall(v)' <=> (InCall(v) /\ v # w)
                           /\ Outstanding(v)' <=> (Outstanding(v) /\ v # w)
    BY <1>1, <2>1, <2>2 DEF InCall, Outstanding
  <2>4. \A v \in Workers : InCall(v)' => Goal' = Goal
    BY <2>1, <2>2, EmptyAndOne DEF InCall, Notified, Goal
  <2>5. \A v \in Workers : Wish(v)' = Wish(v)
    BY <1>1, <1>2, <1>3, <2>3, <2>4 DEF Wish, SameLife
  <2> QED BY <1>1, <1>2, <1>3, <2>3, <2>5, ReturnStep
<1>5. CASE Tail(pending) = <<>> /\ op = "delete"
  <2>1. mpc' = "join" /\ todo' = <<w>> /\ op' = op /\ pending' = <<>>
    BY <1>5 DEF Awake
  <2>2. \A v \in Workers : (Listed(v)' <=> v = w) /\ ~Notified(v)'
    BY <1>1, <2>1, EmptyAndOne DEF Listed, Notified
  <2>3. \A v \in Workers : /\ InCall(v)' <=> InCall(v)
                           /\ ~Outstanding(v)' /\ (Outstanding(v) <=> v = w)
    BY <1>1, <2>1, <2>2 DEF InCall, Outstanding
  <2>4. Goal' = Goal
    BY <2>1 DEF Goal
  <2>5. \A v \in Workers : Wish(v)' = Wish(v)
    BY <1>2, <2>3, <2>4 DEF Wish, SameLife
  <2> QED BY <1>1, <1>2, <1>3, <2>3, <2>5, ReturnStep
<1> QED BY <1>4, <1>5

LEMMA JoinObeys ==
  ASSUME TypeOK, Shape, Join
  PROVE  Obedient!Next
<1>0. PICK w : w = Head(todo)
  OBVIOUS
<1>1. /\ mpc = "join" /\ mpc' = "idle" /\ pending = <<>> /\ pending' = pending /\ todo' = <<>>
      /\ todo # <<>> /\ op # "init"
      /\ UNCHANGED <<flags, state, locks, resume>> /\ thread[w] = "ended"
      /\ thread' = [thread EXCEPT ![w] = "none"]
  BY <1>0 DEF Join, Shape
<1>2. w \in Workers /\ Listed(w)
  BY <1>0, <1>1, Heads
<1>3. \A v \in Workers : /\ InCall(v) <=> v = w
                         /\ ~InCall(v)' /\ ~Outstanding(v) /\ ~Outstanding(v)'
  BY <1>1, <1>2, EmptyAndOne DEF Shape, InCall, Listed, Notified, Outstanding
<1>4. ASSUME NEW v \in Workers, v # w PROVE SameLife(v) /\ Wish(v)' = Wish(v)
  <2>1. SameLife(v)
    BY <1>1, <1>4, LifeFields, TypesOK DEF Types, state
  <2> QED BY <1>3, <1>4, <2>1 DEF SameLife, Wish
<1>5. Life(w) = "End" /\ Life(w)' = "none"
  BY <1>1, <1>2, TypesOK DEF Types, Life
<1>6. Wish(w)' = "none"
  BY <1>2, <1>3, <1>5 DEF Wish
<1> QED BY <1>2, <1>3, <1>4, <1>5, <1>6, DeleteStep

LEMMA ManagerObeys ==
  ASSUME TypeOK, Shape, \A v \in Workers : Local(v), ManagerStep
  PROVE  Obedient!Next \/ UNCHANGED Obedient!vars
<1>1. CASE Raise \/ PassReqMutex \/ Wait
  <2>1. /\ UNCHANGED <<op, todo, pending, state, worker>>
        /\ mpc # "join" /\ mpc' # "join"
    BY <1>1 DEF Raise, PassReqMutex, Wait
  <2>2. \A v \in Workers : SameView(v)
    <3>1. \A v \in Workers : SameLife(v)
      BY <2>1 DEF SameLife, Life, state, worker
    <3> QED BY <2>1, <3>1, SameCall
  <2> QED BY <2>2, StutterStep
<1>2. CASE NotifyWorker
  <2>1. /\ mpc = "notify" /\ mpc' \in {"wait", "raise"} /\ op' = op
        /\ UNCHANGED <<is_inited, is_running>>
    BY <1>2 DEF NotifyWorker, state
  <2>2. \A v \in Workers : SameLife(v)
    BY <1>2, <2>1, LifeFields, NotifyRoles, TypesOK DEF Types, NotifyWorker
  <2>3. \A v \in Workers : InCall(v)' <=> InCall(v)
    BY <1>2, NotifyRoles DEF InCall
  <2>4. Goal' = Goal
    BY <2>1 DEF Goal
  <2>5. \A v \in Workers : SameView(v)
    BY <2>1, <2>2, <2>3, <2>4 DEF SameView, SameLife, Wish, Outstanding
  <2> QED BY <2>5, StutterStep
<1> QED BY <1>1, <1>2, AwakeObeys, JoinObeys DEF ManagerStep

(* The promise of ObedientWorkers, which the manager of 03 keeps for any      *)
(* finite set of workers until a wait returns by itself: requests are         *)
(* followed one after the other, and a call, InitWorkers of many workers      *)
(* included, returns once all its workers are what it asked for.             *)
THEOREM WorkersAreObedient == Spec => ObeysUntilSpurious
<1>1. Init => Obedient!Init
  <2> SUFFICES ASSUME Init PROVE Obedient!Init
    OBVIOUS
  <2>1. \A v \in Workers : ~InCall(v) /\ Life(v) = "none" /\ Wish(v) = "none"
    BY EmptyAndOne DEF Init, InCall, Listed, Notified, Life, Wish
  <2> QED BY <2>1 DEF Obedient!Init, LifeOf, WishOf, OutstandingSet, Outstanding
<1>2. IInv /\ [Next]_vars => [spurious' = 0 => Obedient!Next]_(Obedient!vars)
  <2> SUFFICES ASSUME IInv, [Next]_vars, spurious' = 0
               PROVE  Obedient!Next \/ UNCHANGED Obedient!vars
    OBVIOUS
  <2>1. TypeOK /\ Shape
    BY DEF IInv
  <2>2. spurious = 0 /\ ~SpuriousWakeup
    BY <2>1, TypesOK DEF Types, Next, SpuriousWakeup, vars
  <2>3. \A w \in Workers : Local(w)
    BY <2>2 DEF IInv
  <2>4. CASE UNCHANGED vars
    <3>1. \A v \in Workers : SameLife(v)
      BY <2>4 DEF vars, SameLife, Life, state, worker
    <3>2. \A v \in Workers : SameView(v)
      BY <2>4, <3>1, SameCall DEF vars, manager
    <3> QED BY <3>2, StutterStep
  <2>5. ASSUME NEW w \in Workers, ThreadFunction(w), UNCHANGED spurious
        PROVE  Obedient!Next \/ UNCHANGED Obedient!vars
    BY <2>1, <2>3, <2>5, ThreadObeys
  <2>6. ASSUME NEW w \in Workers, NewWorker(w) PROVE Obedient!Next
    BY <2>1, <2>3, <2>6, NewObeys
  <2>7. CASE ManagerStep
    BY <2>1, <2>3, <2>7, ManagerObeys
  <2>8. CASE \/ InitWorkers
             \/ \E w \in Workers : DeleteWorker(w) \/ DeinitWorker(w) \/ RunWorker(w)
                                   \/ StopWorker(w)
    BY <2>1, <2>3, <2>8, CallsObey
  <2> QED BY <2>2, <2>4, <2>5, <2>6, <2>7, <2>8 DEF Next
<1>3. Spec => []IInv
  BY InitIInv, StepIInv, PTL DEF Spec
<1> QED BY <1>1, <1>2, <1>3, PTL DEF Spec, ObeysUntilSpurious
=============================================================================
