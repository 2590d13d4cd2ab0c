----------------------- MODULE ThreadManagerSemProofs -----------------------
(***************************************************************************)
(* For any set of workers: the joint states of the semaphore protocol are   *)
(* the ones JointStates lists, and from them no stop credit is stale, no    *)
(* flag is raised under the eyes of a worker, and the workers implement     *)
(* their lifecycle.                                                         *)
(***************************************************************************)
EXTENDS ThreadManagerSem, TLAPS

(* JointStates is inductive by itself given the types: it says of each      *)
(* request which flags are up, which credits exist and where the worker is. *)
IInv == TypeOK /\ JointStates

(* A worker no variable of which changes stays in its joint state.          *)
Untouched(w) ==
  /\ req'[w] = req[w] /\ to_run'[w] = to_run[w] /\ to_quit'[w] = to_quit[w]
  /\ state'[w] = state[w] /\ sem_op'[w] = sem_op[w]
  /\ sem_stop'[w] = sem_stop[w] /\ wpc'[w] = wpc[w] /\ Phase(w)' = Phase(w)

LEMMA UntouchedKeepsJointState ==
  ASSUME NEW w, JointState(w), Untouched(w)
  PROVE  JointState(w)'
BY DEF JointState, Untouched, NotCreated, Waiting, Busy, Leaving, Credits

(* The types are kept.                                                      *)
LEMMA TypeInvariant == IInv /\ [Next]_vars => TypeOK'
<1> SUFFICES ASSUME IInv, [Next]_vars PROVE TypeOK'
  OBVIOUS
<1> USE DEF IInv, TypeOK, Requests, States, WorkerLabels, ManagerLabels,
            object, manager, At, Call, Goto
<1>1. CASE UNCHANGED vars
  BY <1>1 DEF vars
<1>2. ASSUME NEW w \in Workers, NewWorker(w) PROVE TypeOK'
  BY <1>2 DEF NewWorker
<1>3. ASSUME NEW w \in Workers, RunWorker(w) PROVE TypeOK'
  BY <1>3 DEF RunWorker
<1>4. ASSUME NEW w \in Workers, StopWorker(w) PROVE TypeOK'
  BY <1>4 DEF StopWorker, StopRequest
<1>5. ASSUME NEW w \in Workers, QuitWorker(w) PROVE TypeOK'
  BY <1>5 DEF QuitWorker, StopRequest
<1>6. ASSUME NEW w \in Workers, DeleteWorker(w) PROVE TypeOK'
  BY <1>6 DEF DeleteWorker
<1>7. CASE RunPost
  BY <1>7 DEF RunPost
<1>8. CASE StopReturn
  BY <1>8 DEF StopReturn, StopWait
<1>9. CASE QuitStopReturn
  BY <1>9 DEF QuitStopReturn, StopWait
<1>10. CASE QuitRaise
  BY <1>10 DEF QuitRaise
<1>11. CASE QuitPost
  BY <1>11 DEF QuitPost
<1>12. CASE DeleteErase
  BY <1>12 DEF DeleteErase
<1>13. ASSUME NEW w \in Workers, ThreadFunction(w) PROVE TypeOK'
  <2>1. CASE InitCallback(w)
    BY <1>13, <2>1 DEF ThreadFunction, InitCallback
  <2>2. CASE OpWait(w)
    BY <1>13, <2>2 DEF ThreadFunction, OpWait
  <2>3. CASE Quitting(w)
    BY <1>13, <2>3 DEF ThreadFunction, Quitting
  <2>4. CASE Inited(w)
    BY <1>13, <2>4 DEF ThreadFunction, Inited
  <2>5. CASE Running(w)
    BY <1>13, <2>5 DEF ThreadFunction, Running
  <2>6. CASE RunCallback(w)
    BY <1>13, <2>6 DEF ThreadFunction, RunCallback
  <2>7. CASE NotRunning(w)
    BY <1>13, <2>7 DEF ThreadFunction, NotRunning
  <2>8. CASE StopCallback(w)
    BY <1>13, <2>8 DEF ThreadFunction, StopCallback
  <2>9. CASE StopPost(w)
    BY <1>13, <2>9 DEF ThreadFunction, StopPost
  <2>10. CASE DeinitCallback(w)
    BY <1>13, <2>10 DEF ThreadFunction, DeinitCallback
  <2> QED BY <1>13, <2>1, <2>2, <2>3, <2>4, <2>5, <2>6, <2>7, <2>8, <2>9, <2>10 DEF ThreadFunction
<1> QED BY <1>1, <1>2, <1>3, <1>4, <1>5, <1>6, <1>7, <1>8, <1>9, <1>10, <1>11, <1>12, <1>13
        DEF Next, ManagerCall, ManagerStep

(* A call or a step about one worker leaves the others where they are.      *)
LEMMA JointStatesInvariant == IInv /\ [Next]_vars => JointStates'
<1> SUFFICES ASSUME IInv, [Next]_vars PROVE JointStates'
  OBVIOUS
<1>0. TypeOK /\ \A w \in Workers : JointState(w)
  BY DEF IInv, JointStates
<1> SUFFICES ASSUME NEW v \in Workers PROVE JointState(v)'
  BY DEF JointStates
<1> USE DEF object, manager
<1>1. CASE UNCHANGED vars
  BY <1>0, <1>1, UntouchedKeepsJointState DEF vars, Untouched, Phase
<1>2. ASSUME NEW w \in Workers, NewWorker(w) PROVE JointState(v)'
  <2>1. CASE v = w
    BY <1>0, <1>2, <2>1 DEF TypeOK, NewWorker, Call,
       JointState, NotCreated, Waiting, Busy, Leaving, Credits, Phase
  <2>2. CASE v # w
    <3>1. Untouched(v)
      BY <1>0, <1>2, <2>2 DEF TypeOK, NewWorker, Call, Untouched, Phase
    <3> QED BY <1>0, <3>1, UntouchedKeepsJointState
  <2> QED BY <2>1, <2>2
<1>3. ASSUME NEW w \in Workers, RunWorker(w) PROVE JointState(v)'
  <2>1. CASE v = w
    BY <1>0, <1>3, <2>1 DEF TypeOK, RunWorker, Call,
       JointState, NotCreated, Waiting, Busy, Leaving, Credits, Phase
  <2>2. CASE v # w
    <3>1. Untouched(v)
      BY <1>0, <1>3, <2>2 DEF TypeOK, RunWorker, Call, Untouched, Phase
    <3> QED BY <1>0, <3>1, UntouchedKeepsJointState
  <2> QED BY <2>1, <2>2
<1>4. ASSUME NEW w \in Workers, StopWorker(w) PROVE JointState(v)'
  <2>1. CASE v = w
    BY <1>0, <1>4, <2>1 DEF TypeOK, StopWorker, StopRequest, Call,
       JointState, NotCreated, Waiting, Busy, Leaving, Credits, Phase
  <2>2. CASE v # w
    <3>1. Untouched(v)
      BY <1>0, <1>4, <2>2 DEF TypeOK, StopWorker, StopRequest, Call, Untouched, Phase
    <3> QED BY <1>0, <3>1, UntouchedKeepsJointState
  <2> QED BY <2>1, <2>2
<1>5. ASSUME NEW w \in Workers, QuitWorker(w) PROVE JointState(v)'
  <2>1. CASE v = w
    BY <1>0, <1>5, <2>1 DEF TypeOK, QuitWorker, StopRequest, Call,
       JointState, NotCreated, Waiting, Busy, Leaving, Credits, Phase
  <2>2. CASE v # w
    <3>1. Untouched(v)
      BY <1>0, <1>5, <2>2 DEF TypeOK, QuitWorker, StopRequest, Call, Untouched, Phase
    <3> QED BY <1>0, <3>1, UntouchedKeepsJointState
  <2> QED BY <2>1, <2>2
<1>6. ASSUME NEW w \in Workers, DeleteWorker(w) PROVE JointState(v)'
  <2>1. CASE v = w
    BY <1>0, <1>6, <2>1 DEF TypeOK, DeleteWorker, Call,
       JointState, NotCreated, Waiting, Busy, Leaving, Credits, Phase
  <2>2. CASE v # w
    <3>1. Untouched(v)
      BY <1>0, <1>6, <2>2 DEF TypeOK, DeleteWorker, Call, Untouched, Phase
    <3> QED BY <1>0, <3>1, UntouchedKeepsJointState
  <2> QED BY <2>1, <2>2
<1>7. CASE RunPost
  <2>1. CASE v = cur
    BY <1>0, <1>7, <2>1 DEF TypeOK, RunPost, At,
       JointState, NotCreated, Waiting, Busy, Leaving, Credits, Phase
  <2>2. CASE v # cur
    <3>1. Untouched(v)
      BY <1>0, <1>7, <2>2 DEF TypeOK, RunPost, At, Untouched, Phase
    <3> QED BY <1>0, <3>1, UntouchedKeepsJointState
  <2> QED BY <2>1, <2>2
<1>8. CASE StopReturn
  <2>1. CASE v = cur
    BY <1>0, <1>8, <2>1 DEF TypeOK, StopReturn, StopWait, At,
       JointState, NotCreated, Waiting, Busy, Leaving, Credits, Phase
  <2>2. CASE v # cur
    <3>1. Untouched(v)
      BY <1>0, <1>8, <2>2 DEF TypeOK, StopReturn, StopWait, At, Untouched, Phase
    <3> QED BY <1>0, <3>1, UntouchedKeepsJointState
  <2> QED BY <2>1, <2>2
<1>9. CASE QuitStopReturn
  <2>1. CASE v = cur
    BY <1>0, <1>9, <2>1 DEF TypeOK, QuitStopReturn, StopWait, At,
       JointState, NotCreated, Waiting, Busy, Leaving, Credits, Phase
  <2>2. CASE v # cur
    <3>1. Untouched(v)
      BY <1>0, <1>9, <2>2 DEF TypeOK, QuitStopReturn, StopWait, At, Untouched, Phase
    <3> QED BY <1>0, <3>1, UntouchedKeepsJointState
  <2> QED BY <2>1, <2>2
<1>10. CASE QuitRaise
  <2>1. CASE v = cur
    BY <1>0, <1>10, <2>1 DEF TypeOK, QuitRaise, At,
       JointState, NotCreated, Waiting, Busy, Leaving, Credits, Phase
  <2>2. CASE v # cur
    <3>1. Untouched(v)
      BY <1>0, <1>10, <2>2 DEF TypeOK, QuitRaise, At, Untouched, Phase
    <3> QED BY <1>0, <3>1, UntouchedKeepsJointState
  <2> QED BY <2>1, <2>2
<1>11. CASE QuitPost
  <2>1. CASE v = cur
    BY <1>0, <1>11, <2>1 DEF TypeOK, QuitPost, At,
       JointState, NotCreated, Waiting, Busy, Leaving, Credits, Phase
  <2>2. CASE v # cur
    <3>1. Untouched(v)
      BY <1>0, <1>11, <2>2 DEF TypeOK, QuitPost, At, Untouched, Phase
    <3> QED BY <1>0, <3>1, UntouchedKeepsJointState
  <2> QED BY <2>1, <2>2
<1>12. CASE DeleteErase
  <2>1. CASE v = cur
    BY <1>0, <1>12, <2>1 DEF TypeOK, DeleteErase, At,
       JointState, NotCreated, Waiting, Busy, Leaving, Credits, Phase
  <2>2. CASE v # cur
    <3>1. Untouched(v)
      BY <1>0, <1>12, <2>2 DEF TypeOK, DeleteErase, At, Untouched, Phase
    <3> QED BY <1>0, <3>1, UntouchedKeepsJointState
  <2> QED BY <2>1, <2>2
<1>13. ASSUME NEW w \in Workers, ThreadFunction(w) PROVE JointState(v)'
  <2>1. CASE v # w
    <3>1. Untouched(v)
      BY <1>0, <1>13, <2>1
         DEF TypeOK, ThreadFunction, Goto, Untouched, Phase,
             InitCallback, OpWait, Quitting, Inited, Running, RunCallback,
             NotRunning, StopCallback, StopPost, DeinitCallback
    <3> QED BY <1>0, <3>1, UntouchedKeepsJointState
  <2>2. CASE v = w /\ InitCallback(w)
    BY <1>0, <1>13, <2>2 DEF TypeOK, ThreadFunction, Goto, InitCallback,
       JointState, NotCreated, Waiting, Busy, Leaving, Credits, Phase
  <2>3. CASE v = w /\ OpWait(w)
    BY <1>0, <1>13, <2>3 DEF TypeOK, ThreadFunction, Goto, OpWait,
       JointState, NotCreated, Waiting, Busy, Leaving, Credits, Phase
  <2>4. CASE v = w /\ Quitting(w)
    BY <1>0, <1>13, <2>4 DEF TypeOK, ThreadFunction, Goto, Quitting,
       JointState, NotCreated, Waiting, Busy, Leaving, Credits, Phase
  <2>5. CASE v = w /\ Inited(w)
    BY <1>0, <1>13, <2>5 DEF TypeOK, ThreadFunction, Goto, Inited,
       JointState, NotCreated, Waiting, Busy, Leaving, Credits, Phase
  <2>6. CASE v = w /\ Running(w)
    BY <1>0, <1>13, <2>6 DEF TypeOK, ThreadFunction, Goto, Running,
       JointState, NotCreated, Waiting, Busy, Leaving, Credits, Phase
  <2>7. CASE v = w /\ RunCallback(w)
    BY <1>0, <1>13, <2>7 DEF TypeOK, ThreadFunction, Goto, RunCallback,
       JointState, NotCreated, Waiting, Busy, Leaving, Credits, Phase
  <2>8. CASE v = w /\ NotRunning(w)
    <3>1. Busy(w)
      BY <1>0, <2>8 DEF NotRunning, Goto, JointState, NotCreated, Waiting, Leaving
    <3>2. Busy(w)'
      BY <1>0, <1>13, <2>8, <3>1
         DEF TypeOK, States, ThreadFunction, Goto, NotRunning, Busy, Credits, Phase
    <3> QED BY <2>8, <3>2 DEF JointState
  <2>9. CASE v = w /\ StopCallback(w)
    BY <1>0, <1>13, <2>9 DEF TypeOK, ThreadFunction, Goto, StopCallback,
       JointState, NotCreated, Waiting, Busy, Leaving, Credits, Phase
  <2>10. CASE v = w /\ StopPost(w)
    BY <1>0, <1>13, <2>10 DEF TypeOK, ThreadFunction, Goto, StopPost,
       JointState, NotCreated, Waiting, Busy, Leaving, Credits, Phase
  <2>11. CASE v = w /\ DeinitCallback(w)
    BY <1>0, <1>13, <2>11 DEF TypeOK, ThreadFunction, Goto, DeinitCallback,
       JointState, NotCreated, Waiting, Busy, Leaving, Credits, Phase
  <2> QED BY <1>13, <2>1, <2>2, <2>3, <2>4, <2>5, <2>6, <2>7, <2>8, <2>9, <2>10, <2>11 DEF ThreadFunction
<1> QED BY <1>1, <1>2, <1>3, <1>4, <1>5, <1>6, <1>7, <1>8, <1>9, <1>10, <1>11, <1>12, <1>13
        DEF Next, ManagerCall, ManagerStep

(* The inductive invariant holds in every reachable state.                  *)
THEOREM Invariance == Spec => []IInv
<1>1. Init => IInv
  BY DEF Init, IInv, TypeOK, JointStates, JointState, NotCreated, Credits, Phase,
         Requests, States, WorkerLabels, ManagerLabels
<1>2. IInv /\ [Next]_vars => IInv'
  BY TypeInvariant, JointStatesInvariant DEF IInv
<1> QED BY <1>1, <1>2, PTL DEF Spec

(* Whatever the user calls, manager and workers stay in the joint states.   *)
THEOREM ProtocolStates == Spec => []JointStates
BY Invariance, PTL DEF IInv

(* No StopWorker can return on the credit of an earlier run.                *)
THEOREM StopCreditIsFresh == Spec => []NoStaleStopCredit
<1>1. ASSUME IInv, NEW w \in Workers, sem_stop[w] > 0
      PROVE  sem_stop[w] = 1 /\ Phase(w) \in {"stop_wait", "quit_stop_wait"}
  <2>1. JointState(w)
    BY <1>1 DEF IInv, JointStates
  <2>2. CASE NotCreated(w)
    BY <1>1, <2>2 DEF NotCreated, Credits
  <2>3. CASE Waiting(w)
    BY <1>1, <2>3 DEF Waiting, Credits
  <2>4. CASE Busy(w)
    BY <1>1, <2>4 DEF Busy, Credits
  <2>5. CASE Leaving(w)
    BY <1>1, <2>5 DEF Leaving, Credits
  <2> QED BY <2>1, <2>2, <2>3, <2>4, <2>5 DEF JointState
<1>2. IInv => NoStaleStopCredit
  BY <1>1 DEF NoStaleStopCredit
<1> QED BY <1>2, Invariance, PTL

(* The manager raises a flag only while the worker is short of its credit.   *)
THEOREM RaisesAreSafe == Spec => RaisesAreUnobserved
<1> DEFINE Unobserved(w) ==
      (~to_run[w] /\ to_run'[w]) \/ (~to_quit[w] /\ to_quit'[w])
        => wpc[w] \in {"none", "init", "op_wait"}
<1>1. ASSUME IInv, [Next]_vars, NEW w \in Workers PROVE Unobserved(w)
  <2>0. TypeOK /\ \A u \in Workers : JointState(u)
    BY <1>1 DEF IInv, JointStates
  <2> USE DEF object, manager
  <2>1. CASE UNCHANGED vars
    BY <2>1 DEF vars
  <2>2. CASE ManagerCall
    <3>1. PICK u \in Workers : \/ NewWorker(u) \/ RunWorker(u) \/ StopWorker(u)
                               \/ QuitWorker(u) \/ DeleteWorker(u)
      BY <2>2 DEF ManagerCall
    <3>2. CASE RunWorker(u)
      <4>1. JointState(u) /\ (u # w => UNCHANGED <<to_run[w], to_quit[w]>>)
        BY <2>0, <3>2 DEF RunWorker, TypeOK
      <4>2. wpc[u] \in {"none", "init", "op_wait"}
        BY <4>1, <3>2 DEF RunWorker, JointState, NotCreated, Waiting, Busy, Leaving
      <4> QED BY <4>1, <4>2
    <3> QED BY <2>0, <3>1, <3>2
            DEF NewWorker, StopWorker, StopRequest, QuitWorker, DeleteWorker, TypeOK
  <2>3. CASE ManagerStep
    <3>1. CASE QuitRaise
      <4>1. JointState(cur) /\ (cur # w => UNCHANGED <<to_run[w], to_quit[w]>>)
        BY <2>0, <3>1 DEF QuitRaise, TypeOK
      <4>2. wpc[cur] \in {"none", "init", "op_wait"}
        BY <4>1, <3>1 DEF QuitRaise, At, JointState, NotCreated, Waiting, Busy,
                          Leaving, Phase
      <4> QED BY <4>1, <4>2
    <3> QED BY <2>3, <3>1 DEF ManagerStep, RunPost, StopReturn, QuitStopReturn,
                              StopWait, QuitPost, DeleteErase
  <2>4. ASSUME NEW u \in Workers, ThreadFunction(u)
        PROVE  UNCHANGED <<to_run, to_quit>>
    BY <2>4 DEF ThreadFunction, InitCallback, OpWait, Quitting, Inited, Running,
                RunCallback, NotRunning, StopCallback, StopPost, DeinitCallback
  <2> QED BY <1>1, <2>1, <2>2, <2>3, <2>4 DEF Next
<1>2. IInv /\ [Next]_vars => [\A w \in Workers : Unobserved(w)]_vars
  BY <1>1
<1> QED BY <1>2, Invariance, PTL DEF Spec, RaisesAreUnobserved
-----------------------------------------------------------------------------
(* A step that changes the request, the label or the state of one worker    *)
(* changes the abstract variables for that worker only.                     *)
LEMMA LifeOfOne ==
  ASSUME TypeOK, NEW w \in Workers,
         \A u \in Workers \ {w} : wpc'[u] = wpc[u] /\ state'[u] = state[u]
  PROVE  LifeOf' = [LifeOf EXCEPT ![w] = Life(w)']
<1>1. \A u \in Workers \ {w} : Life(u)' = Life(u)
  BY DEF Life
<1> QED BY <1>1 DEF LifeOf

LEMMA AskedOfOne ==
  ASSUME TypeOK, NEW w \in Workers,
         \A u \in Workers \ {w} : req'[u] = req[u]
  PROVE  AskedOf' = [AskedOf EXCEPT ![w] = Asked(w)']
<1>1. \A u \in Workers \ {w} : Asked(u)' = Asked(u)
  BY DEF Asked
<1> QED BY <1>1 DEF AskedOf

(* A move of the worker's thread is a move between two abstract states, or   *)
(* none.                                                                    *)
LEMMA LiveStep ==
  ASSUME TypeOK, NEW w \in Workers, NEW before, Life(w) \in before,
         \A u \in Workers \ {w} : wpc'[u] = wpc[u] /\ state'[u] = state[u]
  PROVE  Lifecycle!Live(w, before, Life(w)')
<1>1. LifeOf[w] = Life(w)
  BY DEF LifeOf
<1> QED BY <1>1, LifeOfOne DEF Lifecycle!Live

LEMMA AskStep ==
  ASSUME TypeOK, NEW w \in Workers, NEW before, Asked(w) \in before,
         \A u \in Workers \ {w} : req'[u] = req[u]
  PROVE  Lifecycle!Ask(w, before, Asked(w)')
<1>1. AskedOf[w] = Asked(w)
  BY DEF AskedOf
<1> QED BY <1>1, AskedOfOne DEF Lifecycle!Ask

(* The manager's side: each request is granted in one abstract step.         *)
LEMMA ManagerImplementsLifecycle ==
  ASSUME IInv, ManagerCall \/ ManagerStep
  PROVE  [Lifecycle!Next]_(Lifecycle!vars)
<1>0. TypeOK /\ \A w \in Workers : JointState(w)
  BY DEF IInv, JointStates
<1>c. PICK c \in Workers : c = cur
  BY <1>0 DEF TypeOK
<1> USE DEF object, manager
<1>1. ASSUME NEW w \in Workers, NewWorker(w) PROVE Lifecycle!New(w)
  <2>1. JointState(w) /\ req[w] = "absent"
    BY <1>0, <1>1 DEF NewWorker
  <2>2. Life(w) = "none" /\ Asked(w) = "none"
    BY <2>1 DEF JointState, NotCreated, Waiting, Busy, Leaving, Life, Asked
  <2>3. Life(w)' = "Initing" /\ Asked(w)' = "New"
    BY <1>0, <1>1 DEF NewWorker, TypeOK, Life, Asked
  <2>4. \A u \in Workers \ {w} :
          wpc'[u] = wpc[u] /\ state'[u] = state[u] /\ req'[u] = req[u]
    BY <1>0, <1>1 DEF NewWorker, TypeOK
  <2> QED BY <1>0, <2>2, <2>3, <2>4, LiveStep, AskStep DEF Lifecycle!New
<1>2. ASSUME NEW w \in Workers,
             RunWorker(w) \/ StopWorker(w) \/ QuitWorker(w) \/ DeleteWorker(w)
      PROVE  UNCHANGED Lifecycle!vars
  BY <1>2 DEF RunWorker, StopWorker, StopRequest, QuitWorker, DeleteWorker,
              Lifecycle!vars, LifeOf, AskedOf, Life, Asked
<1>3. ASSUME RunPost PROVE Lifecycle!Run(c)
  <2>1. Asked(c) \in {"New", "Stop"}
    BY <1>0, <1>c, <1>3 DEF RunPost, At, JointState, NotCreated, Waiting, Busy,
                            Leaving, Phase, Asked
  <2>2. Asked(c)' = "Run" /\ \A u \in Workers \ {c} : req'[u] = req[u]
    BY <1>0, <1>c, <1>3 DEF RunPost, At, TypeOK, Asked
  <2>3. UNCHANGED LifeOf
    BY <1>3 DEF RunPost, LifeOf, Life
  <2> QED BY <1>0, <1>c, <2>1, <2>2, <2>3, AskStep DEF Lifecycle!Run
<1>4. ASSUME StopReturn \/ QuitStopReturn PROVE Lifecycle!Stop(c)
  <2>1. JointState(c) /\ sem_stop[c] # 0 /\ Phase(c) \in {"stop_wait", "quit_stop_wait"}
    BY <1>0, <1>c, <1>4 DEF StopReturn, QuitStopReturn, StopWait, At, Phase
  <2>2. Asked(c) = "Run" /\ LifeOf[c] = "Inited"
    BY <1>c, <2>1 DEF JointState, NotCreated, Waiting, Busy, Leaving, Credits,
                      Asked, LifeOf, Life
  <2>3. Asked(c)' = "Stop" /\ \A u \in Workers \ {c} : req'[u] = req[u]
    BY <1>0, <1>c, <1>4 DEF StopReturn, QuitStopReturn, StopWait, At, TypeOK, Asked
  <2>4. UNCHANGED LifeOf
    BY <1>4 DEF StopReturn, QuitStopReturn, StopWait, LifeOf, Life
  <2> QED BY <1>0, <1>c, <2>2, <2>3, <2>4, AskStep DEF Lifecycle!Stop
<1>5. ASSUME QuitRaise PROVE Lifecycle!Quit(c)
  <2>1. Asked(c) \in {"New", "Stop"}
    BY <1>0, <1>c, <1>5 DEF QuitRaise, At, JointState, NotCreated, Waiting, Busy,
                            Leaving, Phase, Asked
  <2>2. Asked(c)' = "Quit" /\ \A u \in Workers \ {c} : req'[u] = req[u]
    BY <1>0, <1>c, <1>5 DEF QuitRaise, At, TypeOK, Asked
  <2>3. UNCHANGED LifeOf
    BY <1>5 DEF QuitRaise, LifeOf, Life
  <2> QED BY <1>0, <1>c, <2>1, <2>2, <2>3, AskStep DEF Lifecycle!Quit
<1>6. ASSUME QuitPost PROVE UNCHANGED Lifecycle!vars
  BY <1>6 DEF QuitPost, Lifecycle!vars, LifeOf, AskedOf, Life, Asked
<1>7. ASSUME DeleteErase PROVE Lifecycle!Delete(c)
  <2>1. Asked(c) = "Quit" /\ Life(c) = "END"
    BY <1>0, <1>c, <1>7 DEF DeleteErase, At, JointState, NotCreated, Waiting, Busy,
                            Leaving, Phase, Asked, Life
  <2>2. Asked(c)' = "none" /\ Life(c)' = "none"
    BY <1>0, <1>c, <1>7 DEF DeleteErase, At, TypeOK, Asked, Life
  <2>3. \A u \in Workers \ {c} :
          wpc'[u] = wpc[u] /\ state'[u] = state[u] /\ req'[u] = req[u]
    BY <1>0, <1>c, <1>7 DEF DeleteErase, TypeOK
  <2> QED BY <1>0, <1>c, <2>1, <2>2, <2>3, LiveStep, AskStep DEF Lifecycle!Delete
<1> QED BY <1>c, <1>1, <1>2, <1>3, <1>4, <1>5, <1>6, <1>7
        DEF ManagerCall, ManagerStep, Lifecycle!Next

(* The worker's side: only four of its steps are visible, and each of them   *)
(* happens on a request for it.                                             *)
LEMMA WorkerImplementsLifecycle ==
  ASSUME IInv, NEW w \in Workers, ThreadFunction(w)
  PROVE  [Lifecycle!Next]_(Lifecycle!vars)
<1>0. /\ TypeOK /\ JointState(w)
      /\ UNCHANGED AskedOf
      /\ Asked(w) = AskedOf[w]
  BY DEF IInv, JointStates, ThreadFunction, manager, AskedOf, Asked
<1>1. \A u \in Workers \ {w} : wpc'[u] = wpc[u] /\ state'[u] = state[u]
  BY <1>0 DEF TypeOK, object, ThreadFunction, Goto, InitCallback, OpWait, Quitting,
         Inited, Running, RunCallback, NotRunning, StopCallback, StopPost,
         DeinitCallback
<1>2. ASSUME Life(w)' = Life(w) PROVE UNCHANGED Lifecycle!vars
  <2>1. LifeOf' = LifeOf
    BY <1>0, <1>1, <1>2, LifeOfOne DEF LifeOf
  <2> QED BY <1>0, <2>1 DEF Lifecycle!vars
<1> USE DEF object
<1>3. CASE InitCallback(w) \/ OpWait(w) \/ RunCallback(w) \/ StopPost(w)
           \/ DeinitCallback(w) \/ NotRunning(w)
  <2>1. Life(w)' = Life(w)
    BY <1>0, <1>3 DEF TypeOK, Goto, InitCallback, OpWait, RunCallback, StopPost,
                      DeinitCallback, NotRunning, Life
  <2> QED BY <1>2, <2>1
<1>4. CASE Quitting(w)
  <2>1. Asked(w) = "Quit" /\ Life(w) \in {"Initing", "Inited"}
    BY <1>0, <1>4 DEF Quitting, Goto, JointState, NotCreated, Waiting, Busy, Leaving,
                      TypeOK, States, Asked, Life
  <2>2. Life(w)' = "END"
    BY <1>0, <1>4 DEF Quitting, Goto, TypeOK, Life
  <2>3. Lifecycle!End(w)
    BY <1>0, <1>1, <2>1, <2>2, LiveStep DEF Lifecycle!End
  <2> QED BY <1>0, <2>3 DEF Lifecycle!Next
<1>5. CASE Inited(w)
  <2>1. Asked(w) = "Run" /\ Life(w) \in {"Initing", "Inited"}
    BY <1>0, <1>5 DEF Inited, Goto, JointState, NotCreated, Waiting, Busy, Leaving,
                      TypeOK, States, Asked, Life
  <2>2. Life(w)' = "Inited"
    BY <1>0, <1>5 DEF Inited, Goto, TypeOK, Life
  <2>3. CASE Life(w) = "Initing"
    <3>1. Lifecycle!InitDone(w)
      BY <1>0, <1>1, <2>1, <2>2, <2>3, LiveStep DEF Lifecycle!InitDone
    <3> QED BY <1>0, <3>1 DEF Lifecycle!Next
  <2> QED BY <1>2, <2>1, <2>2, <2>3
<1>6. CASE Running(w)
  <2>1. Asked(w) = "Run" /\ Life(w) \in {"Inited", "Running"}
    BY <1>0, <1>6 DEF Running, Goto, JointState, NotCreated, Waiting, Busy, Leaving,
                      TypeOK, States, Asked, Life
  <2>2. Life(w)' = "Running"
    BY <1>0, <1>6 DEF Running, Goto, TypeOK, Life
  <2>3. CASE Life(w) = "Inited"
    <3>1. Lifecycle!ToRun(w)
      BY <1>0, <1>1, <2>1, <2>2, <2>3, LiveStep DEF Lifecycle!ToRun
    <3> QED BY <1>0, <3>1 DEF Lifecycle!Next
  <2> QED BY <1>2, <2>1, <2>2, <2>3
<1>7. CASE StopCallback(w)
  <2>1. Asked(w) = "Run" /\ Life(w) = "Running"
    BY <1>0, <1>7 DEF StopCallback, Goto, JointState, NotCreated, Waiting, Busy,
                      Leaving, Asked, Life
  <2>2. Life(w)' = "Inited"
    BY <1>0, <1>7 DEF StopCallback, Goto, TypeOK, Life
  <2>3. Lifecycle!Stopped(w)
    BY <1>0, <1>1, <2>1, <2>2, LiveStep DEF Lifecycle!Stopped
  <2> QED BY <1>0, <2>3 DEF Lifecycle!Next
<1> QED BY <1>3, <1>4, <1>5, <1>6, <1>7 DEF ThreadFunction

(* The two-semaphore protocol implements the state diagram of the README.    *)
THEOREM Refinement == Spec => ImplementsLifecycle
<1>1. Init => Lifecycle!Init
  BY DEF Init, Lifecycle!Init, LifeOf, AskedOf, Life, Asked
<1>2. IInv /\ [Next]_vars => [Lifecycle!Next]_(Lifecycle!vars)
  <2>1. ASSUME UNCHANGED vars PROVE UNCHANGED Lifecycle!vars
    BY <2>1 DEF vars, object, manager, Lifecycle!vars, LifeOf, AskedOf, Life, Asked
  <2> QED BY <2>1, ManagerImplementsLifecycle, WorkerImplementsLifecycle DEF Next
<1> QED BY <1>1, <1>2, Invariance, PTL
        DEF Spec, ImplementsLifecycle, Lifecycle!Spec
=============================================================================
