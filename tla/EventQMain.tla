----------------------------- MODULE EventQMain -----------------------------
(***************************************************************************)
(* 13_EventQ/main.cpp: the menu, and the producer and consumer threads that *)
(* serve it through Put and Get of EventQueue, one value at a time in the    *)
(* code (Batch = 1), which nothing here relies on.  Every request travels    *)
(* through one flag, new_request, shared by both kinds of threads, under a  *)
(* mutex of main's whose critical sections are one step each here.          *)
(* Calls, the bound of EventQueue, is how many requests the user enters.    *)
(***************************************************************************)
EXTENDS EventQueue

VARIABLES new_request, to_exit,
          at,        \* at[t]: where t stands in its own loop
          menu,      \* where main stands: the choice it is serving, or "choose"
          chosen     \* history: the choices of each kind

mainVars == <<new_request, to_exit, at, menu, chosen>>
allVars == <<queueVars, mainVars>>

Places == {"loop", "wait", "asleep", "exit?", "transfer", "done"}
Kinds == {"put", "get"}
Side(kind) == IF kind = "put" THEN Producers ELSE Consumers
Asleep(side) == {t \in side : at[t] = "asleep"}

MainInit == /\ QueueInit
            /\ new_request = FALSE /\ to_exit = FALSE
            /\ at = [t \in Threads |-> "loop"]
            /\ menu = "choose"
            /\ chosen = [kind \in Kinds |-> 0]

Move(t, before, after) == at[t] = before /\ at' = [at EXCEPT ![t] = after]

(* while (!to_exit), read without the mutex.                                *)
Loop(t) == /\ Move(t, "loop", IF to_exit THEN "done" ELSE "wait")
           /\ UNCHANGED <<queueVars, new_request, to_exit, menu, chosen>>

(* Seeded bug: the flag stays up.                                           *)
TakeRequestKept(t) ==
  /\ Move(t, "wait", "exit?")
  /\ new_request \/ to_exit
  /\ UNCHANGED <<queueVars, new_request, to_exit, menu, chosen>>

(* cv.wait with its predicate, and the flag taken down on the way out.      *)
TakeRequest(t) ==
  /\ Move(t, "wait", "exit?")
  /\ new_request \/ to_exit
  /\ new_request' = FALSE
  /\ UNCHANGED <<queueVars, to_exit, menu, chosen>>

Sleep(t) == /\ Move(t, "wait", "asleep")
            /\ ~new_request /\ ~to_exit
            /\ UNCHANGED <<queueVars, new_request, to_exit, menu, chosen>>

WakeUnasked(t) == /\ Move(t, "asleep", "wait")
                  /\ UNCHANGED <<queueVars, new_request, to_exit, menu, chosen>>

Leave(t) == /\ Move(t, "exit?", "done")
            /\ to_exit
            /\ UNCHANGED <<queueVars, new_request, to_exit, menu, chosen>>

Depart(t) == /\ Move(t, "exit?", "transfer")
             /\ ~to_exit
             /\ Call(t)
             /\ UNCHANGED <<new_request, to_exit, menu, chosen>>

InTransfer(t) == /\ at[t] = "transfer" /\ pc[t] # "idle"
                 /\ Run(t)
                 /\ UNCHANGED mainVars

Return(t) == /\ Move(t, "transfer", "loop")
             /\ pc[t] = "idle"
             /\ UNCHANGED <<queueVars, new_request, to_exit, menu, chosen>>

Thread(t) == \/ Loop(t) \/ TakeRequest(t) \/ Sleep(t) \/ Leave(t)
             \/ Depart(t) \/ InTransfer(t) \/ Return(t)

(* Choices 1 and 2: raise the flag under the mutex, notify one after it.    *)
Choose(kind) ==
  /\ menu = "choose" /\ menu' = kind
  /\ chosen["put"] + chosen["get"] < Calls
  /\ chosen' = [chosen EXCEPT ![kind] = @ + 1]
  /\ new_request' = TRUE
  /\ UNCHANGED <<queueVars, to_exit, at>>

(* Seeded bug: nobody is notified of the request.                           *)
NotifyNobody(kind) == /\ menu = kind /\ menu' = "choose"
                      /\ UNCHANGED <<queueVars, new_request, to_exit, at, chosen>>

Notify(kind) ==
  /\ menu = kind /\ menu' = "choose"
  /\ IF Asleep(Side(kind)) = {} THEN UNCHANGED at
     ELSE \E t \in Asleep(Side(kind)) : at' = [at EXCEPT ![t] = "wait"]
  /\ UNCHANGED <<queueVars, new_request, to_exit, chosen>>

(* Choice 0: tell all threads to exit, and return from main.                *)
Quit == /\ menu = "choose" /\ menu' = "quit"
        /\ to_exit' = TRUE
        /\ UNCHANGED <<queueVars, new_request, at, chosen>>

NotifyAll == /\ menu = "quit" /\ menu' = "returned"
             /\ at' = [t \in Threads |-> IF at[t] = "asleep" THEN "wait" ELSE at[t]]
             /\ UNCHANGED <<queueVars, new_request, to_exit, chosen>>

(* The threads are joinable still: main's return destroys their std::thread *)
(* objects, which terminates the process wherever they stand.               *)
Process == \/ \E t \in Threads : \/ Thread(t) \/ WakeUnasked(t)
                                 \/ SpuriousWakeup(t) /\ UNCHANGED mainVars
           \/ \E kind \in Kinds : Choose(kind) \/ Notify(kind)
           \/ Quit \/ NotifyAll

Terminated == menu = "returned" /\ UNCHANGED allVars

MainNext == (menu # "returned" /\ Process) \/ Terminated

(* A thread that can run does, one that wants the mutex of the queue gets it *)
(* if it is free again and again, and main finishes a choice it has begun.   *)
(* Nothing obliges the user to choose.                                      *)
MainSpec ==
  /\ MainInit /\ [][MainNext]_allVars
  /\ \A t \in Threads :
       /\ WF_allVars(menu # "returned" /\ Thread(t))
       /\ SF_allVars(menu # "returned" /\ Lock(t) /\ UNCHANGED mainVars)
  /\ WF_allVars((\E kind \in Kinds : Notify(kind)) \/ NotifyAll)
-----------------------------------------------------------------------------
MainTypeOK == /\ QueueTypeOK
              /\ new_request \in BOOLEAN /\ to_exit \in BOOLEAN
              /\ at \in [Threads -> Places]
              /\ menu \in Kinds \cup {"choose", "quit", "returned"}
              /\ chosen \in [Kinds -> 0..Calls]

Served(kind) == Called(Side(kind))

(* A request is served at most once, although every thread tests the flag    *)
(* and any number of them may be awake: a thread on its way to a transfer     *)
(* and the flag still up stand for a choice of the user each (main.cpp:32).   *)
ServedOnce ==
  Served("put") + Served("get") + (IF new_request THEN 1 ELSE 0)
      + Cardinality({t \in Threads : at[t] = "exit?" /\ ~to_exit})
    <= chosen["put"] + chosen["get"]

(* Raising the flag and notifying one thread is enough (main.cpp:96): some     *)
(* thread takes the request, unless threads hang in Put or Get, of which the  *)
(* menu warns, or the user quits.                                           *)
RequestIsTaken ==
  new_request ~> \/ ~new_request \/ to_exit
                 \/ \E t \in Threads : pc[t] = "blocked"

(* main.cpp:52 "wait for user new put request or exit", main.cpp:30 "wait    *)
(* for user new get request or exit": a thread serves requests of its kind.  *)
ServesItsKind == \A kind \in Kinds : Served(kind) <= chosen[kind]

(* main.cpp:78 offers "0. Quit": the threads have left when main returns.    *)
QuitWaitsForThreads == menu = "returned" => \A t \in Threads : at[t] = "done"
=============================================================================
