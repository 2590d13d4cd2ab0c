------------------------------- MODULE Player -------------------------------
(***************************************************************************)
(* 08_Thread/player.cpp: main reads commands and passes them to the thread  *)
(* that plays the animation.  main raises a flag and notifies g_cv_send;    *)
(* the thread takes it up, changes the state and notifies g_cv_resp, on     *)
(* which main waits for the state it asked for.                             *)
(*                                                                          *)
(* The flags are written, and the conditions of both waits tested, under    *)
(* g_lock_send; the thread changes the state under g_lock_resp, which main  *)
(* never takes and which is therefore left out.  What the thread does under *)
(* g_lock_send is one step.  main's wait is two, since the state may change *)
(* after main has tested it and before main blocks.  g_hide, which is only  *)
(* ever written, is left out, so that command 4 has no effect.              *)
(***************************************************************************)
VARIABLES g_end, g_to_init, g_to_deinit, g_inited, g_to_start, g_started,
          menu,          \* where main stands
          command,       \* what main has been asked
          thread,        \* where the thread stands
          to_start, to_deinit,  \* the thread's copies of the flags
          missed         \* history: main was notified between its test and its sleep

flags == <<g_end, g_to_init, g_to_deinit, g_to_start>>
state == <<g_inited, g_started>>
copies == <<to_start, to_deinit, missed>>
playerVars == <<flags, state, menu, command, thread, copies>>

PlayerInit == /\ g_end = FALSE
              /\ g_to_init = FALSE /\ g_to_deinit = FALSE /\ g_to_start = FALSE
              /\ g_inited = FALSE /\ g_started = FALSE
              /\ menu = "choose" /\ command = "none"
              /\ thread = "loop"
              /\ to_start = FALSE /\ to_deinit = FALSE /\ missed = FALSE

(* main holds g_lock_send from a failed test of its condition until it blocks. *)
SendLockFree == menu # "blocking"

Main(before, after) == menu = before /\ menu' = after
-----------------------------------------------------------------------------
Raise(c) == /\ Main("choose", "notify") /\ command' = c
            /\ g_to_init'   = (g_to_init \/ c = "init")
            /\ g_to_deinit' = (g_to_deinit \/ c = "deinit")
            /\ g_to_start'  = (g_to_start \/ c = "start")
            /\ g_end'       = (g_end \/ c = "end")
            /\ missed' = FALSE
            /\ UNCHANGED <<state, thread, to_start, to_deinit>>

(* Seeded bug: the thread is not notified.                                  *)
NotifyNobody ==
  /\ Main("notify", IF command = "end" THEN "join" ELSE "test")
  /\ UNCHANGED <<flags, state, command, thread, copies>>

NotifyThread ==
  /\ Main("notify", IF command = "end" THEN "join" ELSE "test")
  /\ thread' = CASE thread = "init_wait"  -> "init_test"
                 [] thread = "start_wait" -> "start_test"
                 [] OTHER                 -> thread
  /\ UNCHANGED <<flags, state, command, copies>>

Reached == CASE command = "init"   -> g_inited
             [] command = "deinit" -> ~g_inited
             [] command = "start"  -> g_started

Test == \/ /\ Main("test", "choose") /\ Reached
           /\ g_to_init'   = (g_to_init /\ command # "init")
           /\ g_to_deinit' = (g_to_deinit /\ command # "deinit")
           /\ g_to_start'  = (g_to_start /\ command # "start")
           /\ command' = "none"
           /\ UNCHANGED <<g_end, state, thread, copies>>
        \/ /\ Main("test", "blocking") /\ ~Reached
           /\ UNCHANGED <<flags, state, command, thread, copies>>

Block == Main("blocking", "wait") /\ UNCHANGED <<flags, state, command, thread, copies>>

Stop == /\ menu = "choose"
        /\ g_started' = FALSE
        /\ UNCHANGED <<flags, g_inited, menu, command, thread, copies>>

Join == /\ Main("join", "returned") /\ thread = "ended"
        /\ UNCHANGED <<flags, state, command, thread, copies>>
-----------------------------------------------------------------------------
Thread(before, after) == thread = before /\ thread' = after

(* Seeded bug: a stopped animation does not go round to wait again.         *)
PlayOn == /\ Thread("play", IF g_started /\ ~g_end THEN "play"
                            ELSE IF g_end THEN "loop" ELSE "if_started")
          /\ UNCHANGED <<flags, state, menu, command, copies>>

Loop == /\ Thread("loop", IF g_end THEN "ended"
                          ELSE IF g_inited THEN "if_started" ELSE "init_test")
        /\ UNCHANGED <<flags, state, menu, command, copies>>

InitTest == /\ Thread("init_test", IF g_end THEN "ended"
                                   ELSE IF g_to_init THEN "init" ELSE "init_wait")
            /\ SendLockFree
            /\ UNCHANGED <<flags, state, menu, command, copies>>

InitPlayer == /\ Thread("init", "init_notify")
              /\ g_inited' = TRUE
              /\ UNCHANGED <<flags, g_started, menu, command, copies>>

IfStarted == /\ Thread("if_started", IF g_started THEN "play" ELSE "start_test")
             /\ UNCHANGED <<flags, state, menu, command, copies>>

(* Seeded bug: the second wait does not heed g_end.                         *)
StartTestNoEnd == /\ Thread("start_test", IF g_to_start \/ g_to_deinit THEN "act"
                                           ELSE "start_wait")
                  /\ SendLockFree
                  /\ to_start' = g_to_start /\ to_deinit' = g_to_deinit
                  /\ UNCHANGED <<flags, state, menu, command, missed>>

StartTest == /\ Thread("start_test", IF g_end THEN "ended"
                                     ELSE IF g_to_start \/ g_to_deinit THEN "act"
                                     ELSE "start_wait")
             /\ SendLockFree
             /\ to_start' = g_to_start /\ to_deinit' = g_to_deinit
             /\ UNCHANGED <<flags, state, menu, command, missed>>

Act == /\ Thread("act", "act_notify")
       /\ IF to_start THEN g_started' = TRUE /\ UNCHANGED g_inited
                      ELSE g_inited' = FALSE /\ UNCHANGED g_started
       /\ UNCHANGED <<flags, menu, command, copies>>

NotifyMain == /\ \/ Thread("init_notify", "if_started")
                 \/ Thread("act_notify", "play")
              /\ menu' = IF menu = "wait" THEN "test" ELSE menu
              /\ missed' = (missed \/ menu = "blocking")
              /\ UNCHANGED <<flags, state, command, to_start, to_deinit>>

Play == /\ Thread("play", IF g_started /\ ~g_end THEN "play" ELSE "loop")
        /\ UNCHANGED <<flags, state, menu, command, copies>>

play_animation == \/ Loop \/ InitTest \/ InitPlayer \/ IfStarted \/ StartTest
                  \/ Act \/ NotifyMain \/ Play

Spurious == /\ \/ Thread("init_wait", "init_test") /\ UNCHANGED menu
               \/ Thread("start_wait", "start_test") /\ UNCHANGED menu
               \/ Main("wait", "test") /\ UNCHANGED thread
            /\ UNCHANGED <<flags, state, command, copies>>

PlayerNext == \/ \E c \in {"init", "deinit", "start", "end"} : Raise(c)
              \/ NotifyThread \/ Test \/ Block \/ Stop \/ Join
              \/ play_animation \/ Spurious

(* The threads run, and the lock is not kept from one that asks for it.  No  *)
(* command need ever be given, and nothing wakes a thread for no reason.     *)
PlayerSpec == /\ PlayerInit /\ [][PlayerNext]_playerVars
              /\ SF_playerVars(NotifyThread \/ Test \/ Block \/ Join)
              /\ SF_playerVars(play_animation)
-----------------------------------------------------------------------------
PlayerTypeOK == /\ menu = "choose" <=> command = "none"
                /\ g_end \in BOOLEAN /\ g_to_init \in BOOLEAN /\ g_to_deinit \in BOOLEAN
                /\ g_to_start \in BOOLEAN /\ g_inited \in BOOLEAN /\ g_started \in BOOLEAN
                /\ to_start \in BOOLEAN /\ to_deinit \in BOOLEAN /\ missed \in BOOLEAN
                /\ menu \in {"choose", "notify", "test", "blocking", "wait", "join", "returned"}
                /\ command \in {"none", "init", "deinit", "start", "end"}
                /\ thread \in {"loop", "init_test", "init_wait", "init", "init_notify",
                               "if_started", "start_test", "start_wait", "act", "act_notify",
                               "play", "ended"}

(* The thread does not sleep on a request it waits for.                      *)
NoLostRequest ==
  /\ thread = "init_wait" /\ (g_to_init \/ g_end) => menu = "notify"
  /\ thread = "start_wait" /\ (g_to_start \/ g_to_deinit \/ g_end) => menu = "notify"

(* A command the thread heeds in the state it is in, an init at any time, a   *)
(* start once inited, a deinit unless it plays, is answered and main goes    *)
(* on, unless the notification came between main's test and its sleep.       *)
HeededCommandReturns ==
  (\/ command = "init"
   \/ command = "start" /\ g_inited
   \/ command = "deinit" /\ ~g_started) ~> (command = "none" \/ missed)

(* An end always ends the program.                                          *)
EndReturns == (command = "end") ~> (menu = "returned")

(* player.cpp:169, "wait inited": main waits until the player is inited, and *)
(* then goes on.                                                             *)
InitReturns == (command = "init") ~> (command = "none")

(* player.cpp:180, "to deinit": the command deinitialises the player.        *)
DeinitTakesEffect == (command = "deinit") ~> ~g_inited
=============================================================================
