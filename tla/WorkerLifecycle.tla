-------------------------- MODULE WorkerLifecycle --------------------------
(***************************************************************************)
(* What a thread manager promises of its workers: the state diagram of      *)
(* 05_cache_req_during_init_sem/README.md together with the requests that   *)
(* drive it.  A worker enters a state only on a request for it; a request   *)
(* to stop is granted only once the worker is out of Running; the worker is *)
(* deleted only after it has ended.                                         *)
(***************************************************************************)
CONSTANT Workers

VARIABLES life,     \* life[w]: the state of w in the diagram
          asked     \* asked[w]: the last request of the user granted for w

vars == <<life, asked>>

Init == /\ life = [w \in Workers |-> "none"]
        /\ asked = [w \in Workers |-> "none"]

Ask(w, before, after) == /\ asked[w] \in before
                         /\ asked' = [asked EXCEPT ![w] = after]

Live(w, before, after) == /\ life[w] \in before
                          /\ life' = [life EXCEPT ![w] = after]

New(w)    == Ask(w, {"none"}, "New") /\ Live(w, {"none"}, "Initing")
Delete(w) == Ask(w, {"Quit"}, "none") /\ Live(w, {"END"}, "none")

Run(w)    == Ask(w, {"New", "Stop"}, "Run") /\ UNCHANGED life
Quit(w)   == Ask(w, {"New", "Stop"}, "Quit") /\ UNCHANGED life
Stop(w)   == /\ Ask(w, {"Run"}, "Stop")
             /\ life[w] = "Inited"
             /\ UNCHANGED life

InitDone(w) == asked[w] = "Run"  /\ Live(w, {"Initing"}, "Inited")
ToRun(w)    == asked[w] = "Run"  /\ Live(w, {"Inited"}, "Running")
Stopped(w)  == asked[w] = "Run"  /\ Live(w, {"Running"}, "Inited")
End(w)      == asked[w] = "Quit" /\ Live(w, {"Initing", "Inited"}, "END")

Next == \E w \in Workers :
          \/ New(w) \/ Delete(w) \/ Run(w) \/ Quit(w) \/ Stop(w)
          \/ (InitDone(w) \/ ToRun(w) \/ Stopped(w) \/ End(w)) /\ UNCHANGED asked

Spec == Init /\ [][Next]_vars
=============================================================================
