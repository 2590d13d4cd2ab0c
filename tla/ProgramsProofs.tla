---------------------------- MODULE ProgramsProofs ----------------------------
(***************************************************************************)
(* Four programs that stand alone.  The logger of 04_condition.cpp never     *)
(* sleeps while a code is queued, for any set of workers; nor does the       *)
(* thread of player.cpp on a request.  The fifo and the table of             *)
(* parrot_driver.c stay in step, for any numbers of processes and any sizes: *)
(* each read returns one message, whole and in order.  And the loops and     *)
(* tables of reference.cpp count the ones of words of any width.            *)
(***************************************************************************)
EXTENDS ConditionLogger, Player, ParrotDriver, BitLoops, Integers, SequenceTheorems,
        FiniteSetTheorems, NaturalsInduction, WellFoundedInduction, TLAPS

(* The logger drains the queue only while it holds the mutex.               *)
MutexOK == logger = "drain" <=> g_lockqueue = "logger"

IInv == TypeOK /\ MutexOK /\ NoSleepOnACode

LEMMA InitIInv == Init => IInv
<1> SUFFICES ASSUME Init PROVE IInv
  OBVIOUS
<1>1. g_codes \in Seq(Workers) /\ printed \in Seq(Workers)
  BY DEF Init
<1>2. \A w \in Workers : worker[w] = "push" <=> g_lockqueue = w
  BY ConditionLoggerAssumption DEF Init
<1> QED BY <1>1, <1>2, ConditionLoggerAssumption
        DEF Init, IInv, TypeOK, MutexOK, NoSleepOnACode

(* The worker that pushes raises the flag and wakes the logger in one go;   *)
(* the logger goes to sleep only where it finds the flag down, and takes it *)
(* down only where it has found the queue empty, both under the mutex.      *)
LEMMA StepIInv == IInv /\ [Next]_vars => IInv'
<1> SUFFICES ASSUME IInv, [Next]_vars PROVE IInv'
  OBVIOUS
<1> USE ConditionLoggerAssumption DEF IInv, TypeOK, MutexOK, NoSleepOnACode
<1>1. ASSUME NEW w \in Workers, LockQueue(w) PROVE IInv'
  BY <1>1 DEF LockQueue
<1>2. ASSUME NEW w \in Workers, PushCode(w) PROVE IInv'
  <2>1. g_codes' \in Seq(Workers)
    BY <1>2 DEF PushCode
  <2> QED BY <1>2, <2>1 DEF PushCode, NotifyLogger
<1>3. ASSUME LoopTest PROVE IInv'
  BY <1>3 DEF LoopTest
<1>4. ASSUME Check PROVE IInv'
  BY <1>4 DEF Check
<1>5. ASSUME PrintCode PROVE IInv'
  <2>1. g_codes' \in Seq(Workers) /\ printed' \in Seq(Workers)
    BY <1>5 DEF PrintCode
  <2> QED BY <1>5, <2>1 DEF PrintCode
<1>6. ASSUME Drained PROVE IInv'
  BY <1>6 DEF Drained
<1>7. ASSUME SpuriousWakeup PROVE IInv'
  BY <1>7 DEF SpuriousWakeup
<1>8. ASSUME SetDone PROVE IInv'
  BY <1>8 DEF SetDone
<1>9. ASSUME JoinLogger PROVE IInv'
  BY <1>9 DEF JoinLogger
<1>10. CASE UNCHANGED vars
  BY <1>10 DEF vars
<1> QED BY <1>1, <1>2, <1>3, <1>4, <1>5, <1>6, <1>7, <1>8, <1>9, <1>10
        DEF Next, workerfunc, loggerfunc

(* 04_condition.cpp keeps its types, and the logger does not sleep on a      *)
(* code, however many workers push.                                         *)
THEOREM Invariance == Spec => [](TypeOK /\ NoSleepOnACode)
<1>1. IInv => TypeOK /\ NoSleepOnACode
  BY DEF IInv
<1> QED BY InitIInv, StepIInv, <1>1, PTL DEF Spec
-----------------------------------------------------------------------------
PInv == PlayerTypeOK /\ NoLostRequest

LEMMA PlayerInitPInv == PlayerInit => PInv
BY DEF PlayerInit, PInv, PlayerTypeOK, NoLostRequest

(* A flag goes up only on main's way to its notification, which wakes the   *)
(* thread; and the thread tests all its flags in the step that puts it to   *)
(* sleep.                                                                   *)
LEMMA PlayerStepPInv == PInv /\ [PlayerNext]_playerVars => PInv'
<1> SUFFICES ASSUME PInv, [PlayerNext]_playerVars PROVE PInv'
  OBVIOUS
<1> USE DEF PInv, PlayerTypeOK, NoLostRequest, Main, Thread, flags, state, copies
<1>1. ASSUME NEW c \in {"init", "deinit", "start", "end"}, Raise(c) PROVE PInv'
  BY <1>1 DEF Raise
<1>2. ASSUME NotifyThread PROVE PInv'
  BY <1>2 DEF NotifyThread
<1>3. ASSUME Test PROVE PInv'
  <2>1. CASE menu' = "choose"
    <3>1. /\ g_to_init' \in BOOLEAN /\ (g_to_init' => g_to_init)
          /\ g_to_deinit' \in BOOLEAN /\ (g_to_deinit' => g_to_deinit)
          /\ g_to_start' \in BOOLEAN /\ (g_to_start' => g_to_start)
      BY <1>3, <2>1 DEF Test
    <3>2. UNCHANGED <<g_end, state, thread, copies>> /\ command' = "none" /\ menu = "test"
      BY <1>3, <2>1 DEF Test
    <3> QED BY <2>1, <3>1, <3>2
  <2>2. CASE menu' = "blocking"
    BY <1>3, <2>2 DEF Test
  <2> QED BY <1>3, <2>1, <2>2 DEF Test
<1>4. ASSUME Block \/ Stop \/ Join PROVE PInv'
  <2>1. CASE Block BY <2>1 DEF Block
  <2>2. CASE Stop
    <3>1. g_started' \in BOOLEAN /\ UNCHANGED <<g_inited, menu, command, thread>>
      BY <2>2 DEF Stop
    <3>2. /\ g_end' = g_end /\ g_to_init' = g_to_init /\ g_to_deinit' = g_to_deinit
          /\ g_to_start' = g_to_start /\ to_start' = to_start /\ to_deinit' = to_deinit
          /\ missed' = missed
      BY <2>2 DEF Stop
    <3> QED BY <3>1, <3>2
  <2>3. CASE Join BY <2>3 DEF Join
  <2> QED BY <1>4, <2>1, <2>2, <2>3
<1>5. ASSUME Loop \/ IfStarted \/ Play \/ InitPlayer PROVE PInv'
  <2>1. CASE Loop BY <2>1 DEF Loop
  <2>2. CASE IfStarted BY <2>2 DEF IfStarted
  <2>3. CASE Play BY <2>3 DEF Play
  <2>4. CASE InitPlayer BY <2>4 DEF InitPlayer
  <2> QED BY <1>5, <2>1, <2>2, <2>3, <2>4
<1>6. ASSUME InitTest PROVE PInv'
  BY <1>6 DEF InitTest
<1>7. ASSUME StartTest PROVE PInv'
  BY <1>7 DEF StartTest
<1>8. ASSUME Act PROVE PInv'
  <2>1. g_started' \in BOOLEAN /\ g_inited' \in BOOLEAN
    BY <1>8 DEF Act
  <2>2. UNCHANGED <<flags, menu, command, copies>> /\ thread' = "act_notify"
    BY <1>8 DEF Act
  <2> QED BY <2>1, <2>2
<1>9. ASSUME NotifyMain PROVE PInv'
  BY <1>9 DEF NotifyMain
<1>10. ASSUME Spurious PROVE PInv'
  BY <1>10 DEF Spurious
<1>11. CASE UNCHANGED playerVars
  BY <1>11 DEF playerVars
<1> QED BY <1>1, <1>2, <1>3, <1>4, <1>5, <1>6, <1>7, <1>8, <1>9, <1>10, <1>11
        DEF PlayerNext, play_animation

(* The player keeps its types, and its thread does not sleep on a request it  *)
(* waits for: only main, on its way to notify it, ever sees the two at once. *)
THEOREM PlayerInvariance == PlayerSpec => [](PlayerTypeOK /\ NoLostRequest)
BY PlayerInitPInv, PlayerStepPInv, PTL DEF PlayerSpec, PInv
-----------------------------------------------------------------------------
Reads == Seq(Seq(Nat))

(* How a module comes and goes: what exists when, and who may be inside.      *)
Phases ==
  /\ module \in {"out", "chrdev", "class", "device", "fifo file", "files", "mutex", "kfifo",
                 "in", "no fifo", "no files"}
  /\ module \in {"out", "chrdev", "class", "device", "no files"} => files = {}
  /\ module = "fifo file" => "reset" \notin files
  /\ module = "no fifo" => "fifo" \notin files
  /\ \A w \in Writers : /\ wpc[w] \in {"in", "len", "advance"} => "fifo" \in files
                        /\ wpc[w] = "reset" => "reset" \in files
  /\ \A r \in Readers : rpc[r] # "idle" => r \in open
  /\ ~DeviceExists => open = {} /\ ~torn
  /\ sent \in Seq(Nat) /\ got \in Reads /\ (FifoRaw => Len(fifo) <= 1)

(* One process at the device, one call at sysfs; none of them, and nothing    *)
(* in the driver, before it is initialised or while it is reset.             *)
Empty == fifo = <<>> /\ sent = <<>> /\ got = <<>>
Alone ==
  /\ IF locked THEN \E r \in Readers : open = {r} ELSE open = {}
  /\ \A v, w \in Writing : v = w
  /\ ~DeviceExists \/ Early => Reading = {} /\ Writing = {} /\ Empty /\ idx_rd = 0 /\ idx_wr = 0
  /\ Resetting # {} => Reading = {} /\ Empty

Bytes(n, m) == [b \in 1 .. n |-> m]

(* What has been read, of the messages of lengths s, and the bytes that are   *)
(* left: those of each message together, and the messages in order.         *)
Span(f, n, m, a) == /\ a + n <= Len(f)
                    /\ \A i \in 1 .. Len(f) : f[i] = m <=> a < i /\ i <= a + n
Run(f, s, m) == \E a \in 0 .. Len(f) : Span(f, s[m], m, a)
Content(f, s, g) ==
  /\ Len(g) <= Len(s) /\ \A i \in 1 .. Len(g) : g[i] = Bytes(s[i], i)
  /\ \A m \in 1 .. Len(s) : s[m] >= 1
  /\ \A i \in 1 .. Len(f) : f[i] > Len(g) /\ f[i] <= Len(s)
  /\ \A i, j \in 1 .. Len(f) : i < j => f[i] <= f[j]
  /\ \A m \in Len(g) + 1 .. Len(s) : Run(f, s, m)

(* The slot k places ahead; and the table l, when its read index is rd, its   *)
(* write index wr, and they have passed p and e messages, of which the first *)
(* c have their length in it.                                               *)
Place(i, k) == (i + k) % PARROT_MSG_FIFO_MAX
Tracks(l, rd, wr, s, p, e, c) ==
  /\ e - p \in -1 .. PARROT_MSG_FIFO_MAX - 1 /\ c - p <= PARROT_MSG_FIFO_MAX
  /\ wr = Place(rd, e - p)
  /\ \A m \in p + 1 .. c : l[Place(rd, m - 1 - p)] = s[m]

ReadIn(at) == \E r \in Readers : rpc[r] \in at
CallIn(at) == \E w \in Writers : wpc[w] \in at
Passed == Len(got) - (IF ReadIn({"advance"}) THEN 1 ELSE 0)
Entered == Len(sent) - (IF CallIn({"len", "advance"}) THEN 1 ELSE 0)
Recorded == Len(sent) - (IF CallIn({"len"}) THEN 1 ELSE 0)

Table ==
  /\ Tracks(msg_len, idx_rd, idx_wr, sent, Passed, Entered, Recorded)
  /\ CallIn({"in", "len", "advance"}) => Entered - Passed < PARROT_MSG_FIFO_MAX - 1

Inside ==
  /\ ReadIn({"copy"}) \/ CallIn({"len"}) => Len(got) < Len(sent)
  /\ CallIn({"len", "advance"}) => Len(sent) > 0
  /\ ReadIn({"advance"}) => Len(got) > 0
  /\ \A w \in Writers :
       /\ wpc[w] = "in" => count[w] > 0 /\ count[w] <= PARROT_MSG_FIFO_SIZE - Len(fifo)
       /\ wpc[w] \in {"len", "advance"} => count[w] = sent[Len(sent)]

Mended == Alone /\ Content(fifo, sent, got) /\ Inside /\ (Resetting = {} => Table)

DInv == ParrotTypeOK /\ Phases /\ (~torn => Mended)

(* The lesser of two numbers, and what kfifo gives out and keeps.            *)
LEMMA MinOfTwo ==
  ASSUME NEW a \in Int, NEW b \in Int
  PROVE  Min({a, b}) = IF a <= b THEN a ELSE b
BY DEF Min

LEMMA TakenAndLeft ==
  ASSUME NEW f \in Seq(Nat), NEW n \in 0 .. Len(f)
  PROVE  /\ SubSeq(f, 1, n) \in Seq(Nat) /\ Len(SubSeq(f, 1, n)) = n
         /\ \A i \in 1 .. n : SubSeq(f, 1, n)[i] = f[i]
         /\ SubSeq(f, n + 1, Len(f)) \in Seq(Nat)
         /\ Len(SubSeq(f, n + 1, Len(f))) = Len(f) - n
         /\ \A i \in 1 .. Len(f) - n : SubSeq(f, n + 1, Len(f))[i] = f[n + i]
<1>1. Len(f) \in Nat /\ \A i \in 1 .. Len(f) : f[i] \in Nat
  BY LenProperties
<1>2. /\ SubSeq(f, 1, n) \in Seq(Nat)
      /\ Len(SubSeq(f, 1, n)) = IF 1 <= n THEN n - 1 + 1 ELSE 0
      /\ \A i \in 1 .. n - 1 + 1 : SubSeq(f, 1, n)[i] = f[1 + i - 1]
  <2>1. \A i \in 1 .. n : f[i] \in Nat
    BY <1>1
  <2> QED BY <2>1, SubSeqProperties
<1>3. /\ SubSeq(f, n + 1, Len(f)) \in Seq(Nat)
      /\ Len(SubSeq(f, n + 1, Len(f))) = IF n + 1 <= Len(f) THEN Len(f) - (n + 1) + 1 ELSE 0
      /\ \A i \in 1 .. Len(f) - (n + 1) + 1 : SubSeq(f, n + 1, Len(f))[i] = f[n + 1 + i - 1]
  <2>1. \A i \in n + 1 .. Len(f) : f[i] \in Nat
    BY <1>1
  <2> QED BY <1>1, <2>1, SubSeqProperties
<1> QED BY <1>1, <1>2, <1>3

LEMMA SequenceIs ==
  ASSUME NEW f \in Seq(Nat), NEW n \in Nat, NEW k \in Nat,
         Len(f) = n, \A i \in 1 .. n : f[i] = k
  PROVE  f = Bytes(n, k)
<1>1. [b \in 1 .. n |-> k] \in Seq(Nat) /\ Len([b \in 1 .. n |-> k]) = n
  BY SMT
<1> QED BY <1>1, SeqEqual DEF Bytes

(* Going round the table, and the slot d places ahead of the next one.  No two *)
(* places of the table are the same slot.                                   *)
LEMMA Round ==
  ASSUME NEW i \in Slots
  PROVE  /\ PARROT_MSG_FIFO_MAX \in Nat \ {0}
         /\ i \in 0 .. PARROT_MSG_FIFO_MAX - 1
         /\ Next1(i) = Place(i, 1)
         /\ \A d \in -1 .. PARROT_MSG_FIFO_MAX :
              Place(i, d) = IF i + d < 0 THEN PARROT_MSG_FIFO_MAX - 1
                            ELSE IF i + d < PARROT_MSG_FIFO_MAX THEN i + d
                            ELSE i + d - PARROT_MSG_FIFO_MAX
<1>1. PARROT_MSG_FIFO_MAX \in Nat \ {0} /\ i \in 0 .. PARROT_MSG_FIFO_MAX - 1
  BY ParrotDriverAssumption DEF Slots
<1>2. ASSUME NEW x \in 0 .. PARROT_MSG_FIFO_MAX - 1 PROVE x % PARROT_MSG_FIFO_MAX = x
  BY <1>1, SMT
<1>3. ASSUME NEW x \in PARROT_MSG_FIFO_MAX .. 2 * PARROT_MSG_FIFO_MAX - 1
      PROVE  x % PARROT_MSG_FIFO_MAX = x - PARROT_MSG_FIFO_MAX
  BY <1>1, SMT
<1>4. ASSUME NEW x \in {-1} PROVE x % PARROT_MSG_FIFO_MAX = PARROT_MSG_FIFO_MAX - 1
  BY <1>1, SMT
<1>5. ASSUME NEW d \in -1 .. PARROT_MSG_FIFO_MAX
      PROVE  Place(i, d) = IF i + d < 0 THEN PARROT_MSG_FIFO_MAX - 1
                           ELSE IF i + d < PARROT_MSG_FIFO_MAX THEN i + d
                           ELSE i + d - PARROT_MSG_FIFO_MAX
  <2>1. PICK x \in Int : x = i + d
    BY <1>1
  <2>2. Place(i, d) = x % PARROT_MSG_FIFO_MAX
    BY <2>1 DEF Place
  <2>3. CASE x < 0
    <3>1. x \in {-1}
      BY <1>1, <2>1, <2>3
    <3>2. x % PARROT_MSG_FIFO_MAX = PARROT_MSG_FIFO_MAX - 1
      BY <1>4, <3>1
    <3> QED BY <2>1, <2>2, <2>3, <3>2
  <2>4. CASE x >= 0 /\ x < PARROT_MSG_FIFO_MAX
    <3>1. x \in 0 .. PARROT_MSG_FIFO_MAX - 1
      BY <1>1, <2>4
    <3>2. x % PARROT_MSG_FIFO_MAX = x
      BY <1>2, <3>1
    <3> QED BY <2>1, <2>2, <2>4, <3>2
  <2>5. CASE x >= PARROT_MSG_FIFO_MAX
    <3>1. x \in PARROT_MSG_FIFO_MAX .. 2 * PARROT_MSG_FIFO_MAX - 1
      BY <1>1, <2>1, <2>5
    <3>2. x % PARROT_MSG_FIFO_MAX = x - PARROT_MSG_FIFO_MAX
      BY <1>3, <3>1
    <3> QED BY <1>1, <2>1, <2>2, <2>5, <3>2
  <2> QED BY <1>1, <2>3, <2>4, <2>5
<1>6. Next1(i) = Place(i, 1)
  BY DEF Next1, Place
<1> QED BY <1>1, <1>5, <1>6

LEMMA OneFurther ==
  ASSUME NEW i \in Slots, NEW d \in -1 .. PARROT_MSG_FIFO_MAX - 1
  PROVE  /\ Next1(i) \in Slots /\ Place(i, d) \in Slots /\ Place(i, 0) = i
         /\ Next1(Place(i, d)) = Place(i, d + 1)
         /\ d >= 0 => Place(Next1(i), d - 1) = Place(i, d)
         /\ d >= 0 => (Place(i, d) = i <=> d = 0)
         /\ Place(i, d + 1) = i <=> d = -1 \/ d = PARROT_MSG_FIFO_MAX - 1
         /\ \A e \in 0 .. d - 1 : Place(i, e) # Place(i, d)
<1>1. PICK M \in Nat \ {0} : /\ M = PARROT_MSG_FIFO_MAX /\ Slots = 0 .. M - 1
                             /\ i \in 0 .. M - 1 /\ d \in -1 .. M - 1
  BY ParrotDriverAssumption DEF Slots
<1>2. ASSUME NEW j \in Slots
      PROVE  /\ Next1(j) = Place(j, 1)
             /\ \A e \in -1 .. M : Place(j, e) = IF j + e < 0 THEN M - 1
                                                 ELSE IF j + e < M THEN j + e ELSE j + e - M
  BY <1>1, Round
<1>3. Next1(i) \in Slots /\ Next1(i) = IF i + 1 < M THEN i + 1 ELSE i + 1 - M
  <2>1. Place(i, 1) = IF i + 1 < M THEN i + 1 ELSE i + 1 - M
    BY <1>1, <1>2
  <2> QED BY <1>1, <1>2, <2>1
<1>4. PICK s \in Slots : s = Place(i, d) /\ s = IF i + d < 0 THEN M - 1
                                                ELSE IF i + d < M THEN i + d ELSE i + d - M
  <2>1. Place(i, d) = IF i + d < 0 THEN M - 1 ELSE IF i + d < M THEN i + d ELSE i + d - M
    BY <1>1, <1>2
  <2>2. Place(i, d) \in Slots
    BY <1>1, <2>1
  <2> QED BY <2>1, <2>2
<1>5. Place(i, 0) = i
  BY <1>1, <1>2
<1>6. PICK d1 \in 0 .. M : d1 = d + 1
  BY <1>1
<1>7. Place(i, d1) = IF i + d1 < M THEN i + d1 ELSE i + d1 - M
  BY <1>1, <1>2
<1>8. Next1(s) = IF s + 1 < M THEN s + 1 ELSE s + 1 - M
  <2>1. Place(s, 1) = IF s + 1 < M THEN s + 1 ELSE s + 1 - M
    BY <1>1, <1>2
  <2> QED BY <1>2, <2>1
<1>9. Next1(Place(i, d)) = Place(i, d + 1)
  BY <1>1, <1>4, <1>6, <1>7, <1>8
<1>10. ASSUME d >= 0 PROVE Place(Next1(i), d - 1) = Place(i, d)
  <2>1. PICK n \in Slots, c \in -1 .. M : n = Next1(i) /\ c = d - 1
    BY <1>1, <1>3, <1>10
  <2>2. Place(n, c) = IF n + c < 0 THEN M - 1 ELSE IF n + c < M THEN n + c ELSE n + c - M
    BY <1>2
  <2> QED BY <1>1, <1>3, <1>4, <1>10, <2>1, <2>2
<1>11. d >= 0 => (Place(i, d) = i <=> d = 0)
  BY <1>1, <1>4
<1>12. Place(i, d + 1) = i <=> d = -1 \/ d = M - 1
  BY <1>1, <1>6, <1>7
<1>13. ASSUME NEW e \in 0 .. d - 1 PROVE Place(i, e) # Place(i, d)
  <2>1. Place(i, e) = IF i + e < M THEN i + e ELSE i + e - M
    BY <1>1, <1>2
  <2> QED BY <1>1, <1>4, <2>1
<1> QED BY <1>1, <1>3, <1>4, <1>5, <1>9, <1>10, <1>11, <1>12, <1>13
-----------------------------------------------------------------------------
(* What Append, SubSeq and \o make of a sequence.                             *)
Longer(g, x, a) == /\ Len(a) = Len(g) + 1 /\ a[Len(g) + 1] = x
                   /\ \A i \in 1 .. Len(g) : a[i] = g[i]
Shorter(f, n, h) == /\ Len(h) = Len(f) - n
                    /\ \A i \in 1 .. Len(f) - n : h[i] = f[n + i]
Joined(f, n, k, h) == /\ Len(h) = Len(f) + n
                      /\ \A i \in 1 .. Len(f) : h[i] = f[i]
                      /\ \A i \in Len(f) + 1 .. Len(f) + n : h[i] = k

LEMMA LenOfReads == ASSUME NEW g \in Reads PROVE Len(g) \in Nat
BY DEF Reads

LEMMA ReadsGrow ==
  ASSUME NEW g \in Reads, NEW x \in Seq(Nat)
  PROVE  Append(g, x) \in Reads /\ Longer(g, x, Append(g, x))
BY AppendProperties DEF Reads, Longer

(* Message k, of n bytes, is the first that is written and not yet read.      *)
Unread(s, g, k, n) == k = Len(g) + 1 /\ Len(g) < Len(s) /\ n = s[k]

LEMMA FirstNumbers ==
  ASSUME NEW f \in Seq(Nat), NEW s \in Seq(Nat), NEW g \in Reads, Content(f, s, g),
         NEW k \in Nat, NEW n \in Nat, Unread(s, g, k, n)
  PROVE  k \in 1 .. Len(s) /\ k \in Len(g) + 1 .. Len(s) /\ n = s[k] /\ n >= 1
<1>1. k \in 1 .. Len(s) /\ k \in Len(g) + 1 .. Len(s) /\ n = s[k]
  BY LenOfReads DEF Unread
<1> QED BY <1>1 DEF Content

(* The first bytes in the fifo are those of the first message not yet read.  *)
LEMMA FirstMessage ==
  ASSUME NEW f \in Seq(Nat), NEW s \in Seq(Nat), NEW g \in Reads, Content(f, s, g),
         NEW k \in Nat, NEW n \in Nat, Unread(s, g, k, n)
  PROVE  /\ n \in 1 .. Len(f)
         /\ \A i \in 1 .. Len(f) : f[i] = k <=> i <= n
         /\ SubSeq(f, 1, n) = Bytes(n, k)
<1>1. k \in 1 .. Len(s) /\ k \in Len(g) + 1 .. Len(s) /\ n = s[k] /\ n >= 1
  BY FirstNumbers
<1>2. PICK a \in 0 .. Len(f) : Span(f, n, k, a)
  BY <1>1 DEF Content, Run
<1>3. /\ a + n <= Len(f)
      /\ \A i \in 1 .. Len(f) : f[i] = k <=> a < i /\ i <= a + n
  BY <1>2 DEF Span
<1>4. a = 0
  <2>1. SUFFICES ASSUME a > 0 PROVE FALSE
    BY <1>2
  <2>2. PICK b \in 1 .. Len(f) : b = a + 1
    BY <1>1, <1>3
  <2>3. b <= a + n /\ a < b
    BY <1>1, <2>2
  <2>4. f[b] = k
    BY <1>3, <2>2, <2>3
  <2>5. 1 \in 1 .. Len(f) /\ 1 < b
    BY <2>1, <2>2
  <2>6. f[1] # k
    BY <1>3, <2>1, <2>5
  <2>7. f[1] <= f[b]
    BY <2>2, <2>5 DEF Content
  <2>8. f[1] > Len(g)
    BY <2>5 DEF Content
  <2>9. f[1] \in Nat
    BY <2>5
  <2>10. Len(g) \in Nat /\ k = Len(g) + 1
    BY LenOfReads DEF Unread
  <2> QED BY <2>4, <2>6, <2>7, <2>8, <2>9, <2>10
<1>5. /\ n \in 1 .. Len(f)
      /\ \A i \in 1 .. Len(f) : f[i] = k <=> i <= n
  BY <1>1, <1>3, <1>4
<1>6. SubSeq(f, 1, n) = Bytes(n, k)
  <2>1. /\ SubSeq(f, 1, n) \in Seq(Nat) /\ Len(SubSeq(f, 1, n)) = n
        /\ \A i \in 1 .. n : SubSeq(f, 1, n)[i] = f[i]
    BY <1>5, TakenAndLeft
  <2>2. \A i \in 1 .. n : SubSeq(f, 1, n)[i] = k
    BY <1>5, <2>1
  <2> QED BY <1>1, <2>1, <2>2, SequenceIs
<1> QED BY <1>5, <1>6

(* What reads and writes make of the content.                               *)
LEMMA TakenContent ==
  ASSUME NEW f \in Seq(Nat), NEW s \in Seq(Nat), NEW g \in Reads, Content(f, s, g),
         NEW k \in Nat, NEW n \in Nat, Unread(s, g, k, n),
         NEW h \in Seq(Nat), Shorter(f, n, h),
         NEW a \in Reads, Longer(g, Bytes(n, k), a)
  PROVE  Content(h, s, a)
<1>1. /\ k \in 1 .. Len(s) /\ n \in 1 .. Len(f) /\ n = s[k]
      /\ \A i \in 1 .. Len(f) : f[i] = k <=> i <= n
  BY FirstMessage, FirstNumbers
<1>2. PICK F \in Nat, H \in Nat, L \in Nat :
        F = Len(f) /\ H = Len(h) /\ L = Len(s) /\ k - 1 = Len(g) /\ k = Len(a)
  BY LenOfReads DEF Longer, Unread
<1>3. n >= 1 /\ n <= F /\ H = F - n /\ k >= 1 /\ k <= L
  <2>1. Len(h) = Len(f) - n
    BY DEF Shorter
  <2> QED BY <1>1, <1>2, <2>1
<1>4. ASSUME NEW i \in 1 .. F
      PROVE  f[i] \in Nat /\ (f[i] = k <=> i <= n) /\ f[i] > k - 1 /\ f[i] <= L
  <2>1. f[i] > Len(g) /\ f[i] <= Len(s)
    BY <1>2 DEF Content
  <2>2. f[i] \in Nat /\ (f[i] = k <=> i <= n)
    BY <1>1, <1>2
  <2> QED BY <1>2, <2>1, <2>2
<1>5. ASSUME NEW i \in 1 .. H PROVE n + i \in 1 .. F /\ h[i] = f[n + i]
  <2>1. n + i \in 1 .. F
    BY <1>3
  <2>2. i \in 1 .. Len(f) - n
    BY <1>2, <1>3
  <2> QED BY <2>1, <2>2 DEF Shorter
<1>6. \A i \in 1 .. Len(a) : a[i] = Bytes(s[i], i)
  <2>1. \A i \in 1 .. Len(g) : g[i] = Bytes(s[i], i)
    BY DEF Content
  <2>2. \A i \in 1 .. Len(g) : a[i] = g[i]
    BY DEF Longer
  <2>3. a[k] = Bytes(n, k)
    BY <1>2 DEF Longer, Unread
  <2>4. ASSUME NEW i \in 1 .. k PROVE i \in 1 .. Len(g) \/ i = k
    BY <1>2
  <2> QED BY <1>1, <1>2, <2>1, <2>2, <2>3, <2>4
<1>7. ASSUME NEW i \in 1 .. H PROVE h[i] > k /\ h[i] <= L
  <2>1. PICK j \in 1 .. F : j = n + i /\ h[i] = f[j]
    BY <1>5
  <2>2. ~(j <= n)
    BY <2>1
  <2>3. f[j] \in Nat /\ f[j] # k /\ f[j] > k - 1 /\ f[j] <= L
    BY <1>4, <2>2
  <2> QED BY SMTT(30), <2>1, <2>3
<1>8. ASSUME NEW i \in 1 .. H, NEW j \in 1 .. H, i < j
      PROVE  h[i] <= h[j]
  <2>1. PICK x \in 1 .. F, y \in 1 .. F : x = n + i /\ y = n + j
    BY <1>5
  <2>2. h[i] = f[x] /\ h[j] = f[y]
    BY <1>5, <2>1
  <2>3. x < y
    BY <1>8, <2>1
  <2>4. f[x] <= f[y]
    BY <1>2, <2>3 DEF Content
  <2> QED BY <2>2, <2>4
<1>9. ASSUME NEW m \in k + 1 .. L PROVE Run(h, s, m)
  <2>1. m \in Len(g) + 1 .. Len(s) /\ m \in 1 .. Len(s)
    BY <1>2
  <2>2. PICK z \in Nat : z = s[m] /\ z >= 1
    BY <2>1 DEF Content
  <2>3. PICK b \in 0 .. F : Span(f, z, m, b)
    BY <1>2, <2>1, <2>2 DEF Content, Run
  <2>4. b + z <= F
    BY <1>2, <2>3 DEF Span
  <2>5. ASSUME NEW x \in 1 .. F PROVE f[x] = m <=> b < x /\ x <= b + z
    BY <1>2, <2>3 DEF Span
  <2>6. b >= n
    <3>1. PICK d \in 1 .. F : d = b + 1
      BY <2>2, <2>4
    <3>2. f[d] = m
      BY <2>2, <2>5, <3>1
    <3>3. ~(d <= n)
      BY <1>4, <3>1, <3>2
    <3> QED BY <3>1, <3>3
  <2>7. PICK c \in 0 .. H : c = b - n /\ c + z <= H
    BY <1>3, <2>4, <2>6
  <2>8. ASSUME NEW i \in 1 .. H PROVE h[i] = m <=> c < i /\ i <= c + z
    <3>1. PICK x \in 1 .. F : x = n + i
      BY <1>5
    <3>2. h[i] = f[x]
      BY <1>5, <3>1
    <3>3. f[x] = m <=> b < x /\ x <= b + z
      BY <2>5
    <3>4. b < x /\ x <= b + z <=> c < i /\ i <= c + z
      BY <2>7, <3>1
    <3> QED BY <3>2, <3>3, <3>4
  <2>9. Span(h, z, m, c)
    BY <1>2, <2>7, <2>8 DEF Span
  <2> QED BY <1>2, <2>2, <2>9 DEF Run
<1>10. Len(a) <= Len(s) /\ \A m \in 1 .. Len(s) : s[m] >= 1
  BY <1>2, <1>3 DEF Content
<1>11. /\ \A i \in 1 .. Len(h) : h[i] > Len(a) /\ h[i] <= Len(s)
       /\ \A i, j \in 1 .. Len(h) : i < j => h[i] <= h[j]
  BY <1>2, <1>7, <1>8
<1>12. \A m \in Len(a) + 1 .. Len(s) : Run(h, s, m)
  BY <1>2, <1>9
<1> QED BY <1>6, <1>10, <1>11, <1>12 DEF Content

LEMMA TakeKeepsContent ==
  ASSUME NEW f \in Seq(Nat), NEW s \in Seq(Nat), NEW g \in Reads, Content(f, s, g),
         NEW k \in Nat, NEW n \in Nat, Unread(s, g, k, n)
  PROVE  /\ Content(SubSeq(f, n + 1, Len(f)), s, Append(g, SubSeq(f, 1, n)))
         /\ Append(g, SubSeq(f, 1, n)) \in Reads /\ Len(Append(g, SubSeq(f, 1, n))) = k
         /\ SubSeq(f, n + 1, Len(f)) \in Seq(Nat)
         /\ n <= Len(f) /\ Len(SubSeq(f, n + 1, Len(f))) = Len(f) - n
<1>1. n \in 0 .. Len(f) /\ SubSeq(f, 1, n) = Bytes(n, k)
  BY FirstMessage
<1>2. /\ SubSeq(f, n + 1, Len(f)) \in Seq(Nat)
      /\ Len(SubSeq(f, n + 1, Len(f))) = Len(f) - n
      /\ Shorter(f, n, SubSeq(f, n + 1, Len(f)))
  BY <1>1, TakenAndLeft DEF Shorter
<1>3. SubSeq(f, 1, n) \in Seq(Nat)
  BY <1>1, TakenAndLeft
<1>4. Append(g, SubSeq(f, 1, n)) \in Reads /\ Longer(g, SubSeq(f, 1, n), Append(g, SubSeq(f, 1, n)))
  BY <1>3, ReadsGrow
<1>5. Content(SubSeq(f, n + 1, Len(f)), s, Append(g, SubSeq(f, 1, n)))
  BY <1>1, <1>2, <1>4, TakenContent
<1>6. Len(Append(g, SubSeq(f, 1, n))) = k
  BY <1>4 DEF Longer, Unread
<1> QED BY <1>1, <1>2, <1>4, <1>5, <1>6

LEMMA AddedContent ==
  ASSUME NEW f \in Seq(Nat), NEW s \in Seq(Nat), NEW g \in Reads, Content(f, s, g),
         NEW n \in Nat \ {0},
         NEW t \in Seq(Nat), Longer(s, n, t),
         NEW h \in Seq(Nat), Joined(f, n, Len(s) + 1, h)
  PROVE  Content(h, t, g)
<1>1. PICK F \in Nat, L \in Nat, G \in Nat : F = Len(f) /\ L = Len(s) /\ G = Len(g) /\ G <= L
  BY LenOfReads DEF Content
<1>13. /\ Len(t) = L + 1 /\ t[L + 1] = n /\ \A m \in 1 .. L : t[m] = s[m]
       /\ Len(h) = F + n
  BY <1>1 DEF Longer, Joined
<1>2. /\ \A i \in 1 .. Len(g) : g[i] = Bytes(t[i], i)
      /\ \A m \in 1 .. Len(t) : t[m] >= 1
  <2>1. /\ \A i \in 1 .. Len(g) : g[i] = Bytes(s[i], i)
        /\ \A m \in 1 .. Len(s) : s[m] >= 1
    BY DEF Content
  <2>2. \A i \in 1 .. Len(g) : t[i] = s[i]
    BY <1>1, <1>13
  <2>3. ASSUME NEW m \in 1 .. L + 1 PROVE t[m] >= 1
    <3>1. CASE m \in 1 .. L
      BY <1>1, <1>13, <2>1, <3>1
    <3>2. CASE m = L + 1
      BY <1>13, <3>2
    <3> QED BY <3>1, <3>2
  <2> QED BY <1>1, <1>13, <2>1, <2>2, <2>3
<1>3. ASSUME NEW i \in 1 .. F PROVE h[i] = f[i] /\ f[i] \in Nat /\ f[i] > G /\ f[i] <= L
  <2>1. f[i] > Len(g) /\ f[i] <= Len(s)
    BY <1>1 DEF Content
  <2> QED BY SMTT(30), <1>1, <2>1 DEF Joined
<1>4. ASSUME NEW i \in F + 1 .. F + n PROVE h[i] = L + 1
  BY <1>1 DEF Joined
<1>5. ASSUME NEW i \in 1 .. F + n PROVE i \in 1 .. F \/ i \in F + 1 .. F + n
  BY <1>1
<1>6. ASSUME NEW i \in 1 .. F + n PROVE h[i] \in Nat /\ h[i] > G /\ h[i] <= L + 1
  <2>1. CASE i \in 1 .. F
    <3>1. h[i] = f[i] /\ f[i] \in Nat /\ f[i] > G /\ f[i] <= L
      BY <1>3, <2>1
    <3> QED BY <1>1, <3>1
  <2>2. CASE i \in F + 1 .. F + n
    BY <1>1, <1>4, <2>2
  <2> QED BY <1>5, <2>1, <2>2
<1>7. ASSUME NEW i \in 1 .. F + n, NEW j \in 1 .. F + n, i < j PROVE h[i] <= h[j]
  <2>1. CASE j \in 1 .. F
    <3>1. i \in 1 .. Len(f) /\ j \in 1 .. Len(f)
      BY <1>1, <1>7, <2>1
    <3>2. f[i] <= f[j]
      BY <1>7, <3>1 DEF Content
    <3>3. h[i] = f[i] /\ h[j] = f[j]
      BY <1>1, <1>3, <3>1
    <3> QED BY <3>2, <3>3
  <2>2. CASE j \in F + 1 .. F + n
    BY <1>4, <1>6, <2>2
  <2> QED BY <1>5, <2>1, <2>2
<1>8. ASSUME NEW m \in G + 1 .. L PROVE Run(h, t, m)
  <2>1. m \in Len(g) + 1 .. Len(s) /\ m \in 1 .. L
    BY <1>1
  <2>2. PICK z \in Nat : z = s[m] /\ z = t[m]
    BY <1>1, <1>13, <2>1
  <2>3. PICK a \in 0 .. F : Span(f, z, m, a)
    BY <1>1, <2>1, <2>2 DEF Content, Run
  <2>4. a + z <= F
    BY <1>1, <2>3 DEF Span
  <2>5. ASSUME NEW i \in 1 .. F + n PROVE h[i] = m <=> a < i /\ i <= a + z
    <3>1. CASE i \in 1 .. F
      <4>1. f[i] = m <=> a < i /\ i <= a + z
        BY <1>1, <2>3, <3>1 DEF Span
      <4> QED BY <1>3, <3>1, <4>1
    <3>2. CASE i \in F + 1 .. F + n
      <4>1. h[i] = L + 1
        BY <1>4, <3>2
      <4> QED BY <2>4, <3>2, <4>1
    <3> QED BY <1>5, <3>1, <3>2
  <2>6. a \in 0 .. F + n /\ a + z <= F + n
    BY <2>4
  <2>7. Span(h, z, m, a)
    BY <1>13, <2>5, <2>6 DEF Span
  <2> QED BY <1>13, <2>2, <2>6, <2>7 DEF Run
<1>9. Run(h, t, L + 1)
  <2>1. ASSUME NEW i \in 1 .. F + n PROVE h[i] = L + 1 <=> F < i /\ i <= F + n
    <3>1. CASE i \in 1 .. F
      BY <1>1, <1>3, <3>1
    <3>2. CASE i \in F + 1 .. F + n
      BY <1>1, <1>4, <3>2
    <3> QED BY <1>5, <3>1, <3>2
  <2>2. Span(h, n, L + 1, F)
    BY <1>13, <2>1 DEF Span
  <2>3. F \in 0 .. Len(h) /\ t[L + 1] = n
    BY <1>13
  <2> QED BY <2>2, <2>3 DEF Run
<1>10. \A m \in Len(g) + 1 .. Len(t) : Run(h, t, m)
  <2>1. ASSUME NEW m \in G + 1 .. L + 1 PROVE m \in G + 1 .. L \/ m = L + 1
    BY <1>1
  <2>2. \A m \in G + 1 .. L + 1 : Run(h, t, m)
    BY <1>8, <1>9, <2>1
  <2> QED BY <1>1, <1>13, <2>2
<1>11. Len(g) <= Len(t)
  BY <1>1, <1>13
<1>12. /\ \A i \in 1 .. Len(h) : h[i] > Len(g) /\ h[i] <= Len(t)
       /\ \A i, j \in 1 .. Len(h) : i < j => h[i] <= h[j]
  BY <1>1, <1>13, <1>6, <1>7
<1> QED BY <1>2, <1>10, <1>11, <1>12 DEF Content

LEMMA AddKeepsContent ==
  ASSUME NEW f \in Seq(Nat), NEW s \in Seq(Nat), NEW g \in Reads, Content(f, s, g),
         NEW n \in Nat \ {0}
  PROVE  /\ Content(f \o [i \in 1 .. n |-> Len(s) + 1], Append(s, n), g)
         /\ f \o [i \in 1 .. n |-> Len(s) + 1] \in Seq(Nat)
         /\ Len(f \o [i \in 1 .. n |-> Len(s) + 1]) = Len(f) + n
         /\ Append(s, n) \in Seq(Nat) /\ Longer(s, n, Append(s, n))
<1>1. Append(s, n) \in Seq(Nat) /\ Longer(s, n, Append(s, n))
  BY AppendProperties DEF Longer
<1>2. PICK k \in Nat : k = Len(s) + 1
  OBVIOUS
<1>3. /\ [i \in 1 .. n |-> k] \in Seq(Nat) /\ Len([i \in 1 .. n |-> k]) = n
      /\ \A i \in 1 .. n : [b \in 1 .. n |-> k][i] = k
  OBVIOUS
<1>4. PICK r \in Seq(Nat) : r = [i \in 1 .. n |-> k] /\ Len(r) = n /\ \A i \in 1 .. n : r[i] = k
  BY <1>3, Zenon
<1>7. /\ f \o r \in Seq(Nat) /\ Len(f \o r) = Len(f) + n
      /\ \A i \in 1 .. Len(f) + n : (f \o r)[i] = IF i <= Len(f) THEN f[i] ELSE r[i - Len(f)]
  <2>1. /\ f \o r \in Seq(Nat) /\ Len(f \o r) = Len(f) + Len(r)
        /\ \A i \in 1 .. Len(f) + Len(r) :
             (f \o r)[i] = IF i <= Len(f) THEN f[i] ELSE r[i - Len(f)]
    BY ConcatProperties
  <2> QED BY <1>4, <2>1, Zenon
<1>8. PICK h \in Seq(Nat) : h = f \o r
  BY <1>7
<1>5. Joined(f, n, k, h)
  <2>1. ASSUME NEW i \in Len(f) + 1 .. Len(f) + n PROVE h[i] = k
    <3>1. i - Len(f) \in 1 .. n
      OBVIOUS
    <3>2. (f \o r)[i] = r[i - Len(f)]
      BY <1>7
    <3> QED BY <1>4, <1>8, <3>1, <3>2, Zenon
  <2> QED BY <1>7, <1>8, <2>1 DEF Joined
<1>6. Content(h, Append(s, n), g)
  BY <1>1, <1>2, <1>5, AddedContent
<1> QED BY <1>1, <1>2, <1>4, <1>6, <1>7, <1>8

(* What reads and writes make of the table.                                 *)
LEMMA TracksAfterRead ==
  ASSUME NEW l, NEW rd \in Slots, NEW wr, NEW s, NEW p \in Int, NEW e \in Int, NEW c \in Int,
         Tracks(l, rd, wr, s, p, e, c), e - p >= 0
  PROVE  Tracks(l, Next1(rd), wr, s, p + 1, e, c)
<1>1. PICK M \in Nat \ {0} : M = PARROT_MSG_FIFO_MAX
  BY ParrotDriverAssumption
<1>2. PICK d \in 0 .. M - 1 : d = e - p
  BY <1>1 DEF Tracks
<1>3. wr = Place(Next1(rd), d - 1)
  BY <1>1, <1>2, OneFurther DEF Tracks
<1>4. d - 1 = e - (p + 1) /\ d - 1 \in -1 .. M - 1 /\ c - (p + 1) <= M
  BY <1>1, <1>2 DEF Tracks
<1>5. ASSUME NEW m \in (p + 1) + 1 .. c
      PROVE  l[Place(Next1(rd), m - 1 - (p + 1))] = s[m]
  <2>1. PICK k \in 0 .. M - 1 : k = m - 1 - p
    BY <1>1 DEF Tracks
  <2>2. Place(Next1(rd), k - 1) = Place(rd, k)
    BY <1>1, OneFurther
  <2>3. l[Place(rd, m - 1 - p)] = s[m]
    BY DEF Tracks
  <2>4. m - 1 - (p + 1) = k - 1
    BY <2>1
  <2> QED BY <2>1, <2>2, <2>3, <2>4
<1> QED BY <1>1, <1>3, <1>4, <1>5 DEF Tracks

LEMMA TracksAfterRecord ==
  ASSUME NEW S, NEW l \in [Slots -> S], NEW rd \in Slots, NEW wr, NEW s,
         NEW p \in Int, NEW e \in Int,
         Tracks(l, rd, wr, s, p, e, e), e - p \in 0 .. PARROT_MSG_FIFO_MAX - 2
  PROVE  Tracks([l EXCEPT ![wr] = s[e + 1]], rd, wr, s, p, e, e + 1)
<1>1. PICK M \in Nat \ {0} : M = PARROT_MSG_FIFO_MAX
  BY ParrotDriverAssumption
<1>2. PICK d \in 0 .. M - 2 : d = e - p
  BY <1>1
<1>3. wr \in Slots /\ wr = Place(rd, d)
  BY <1>1, <1>2, OneFurther DEF Tracks
<1>4. ASSUME NEW m \in p + 1 .. e + 1
      PROVE  [l EXCEPT ![wr] = s[e + 1]][Place(rd, m - 1 - p)] = s[m]
  <2>1. PICK k \in 0 .. d : k = m - 1 - p
    BY <1>2
  <2>2. CASE k = d
    <3>1. m = e + 1
      BY <1>2, <2>1, <2>2
    <3> QED BY <1>3, <2>1, <2>2, <3>1
  <2>3. CASE k # d
    <3>1. k \in 0 .. d - 1 /\ d \in -1 .. M - 1 /\ k \in -1 .. M - 1
      BY <1>2, <2>1, <2>3
    <3>2. Place(rd, k) \in Slots /\ Place(rd, k) # wr
      BY <1>1, <1>3, <3>1, OneFurther
    <3>3. m \in p + 1 .. e
      BY <1>2, <2>1, <3>1
    <3>4. l[Place(rd, m - 1 - p)] = s[m]
      BY <3>3 DEF Tracks
    <3> QED BY <2>1, <3>2, <3>4
  <2> QED BY <2>2, <2>3
<1>5. e + 1 - p <= M
  BY <1>2
<1> QED BY <1>1, <1>4, <1>5 DEF Tracks

LEMMA TracksAfterAdvance ==
  ASSUME NEW l, NEW rd \in Slots, NEW wr, NEW s, NEW p \in Int, NEW e \in Int, NEW c,
         Tracks(l, rd, wr, s, p, e, c), e - p < PARROT_MSG_FIFO_MAX - 1
  PROVE  Tracks(l, rd, Next1(wr), s, p, e + 1, c)
<1>1. PICK M \in Nat \ {0} : M = PARROT_MSG_FIFO_MAX
  BY ParrotDriverAssumption
<1>2. PICK d \in -1 .. M - 2 : d = e - p
  BY <1>1 DEF Tracks
<1>3. Next1(wr) = Place(rd, d + 1)
  <2>1. d \in -1 .. M - 1 /\ wr = Place(rd, d)
    BY <1>2 DEF Tracks
  <2> QED BY <1>1, <2>1, OneFurther
<1>4. d + 1 = (e + 1) - p /\ d + 1 \in -1 .. M - 1
  BY <1>2
<1> QED BY <1>1, <1>3, <1>4 DEF Tracks

LEMMA TracksAfterAppend ==
  ASSUME NEW l, NEW rd, NEW wr, NEW s \in Seq(Nat), NEW t, NEW n, Longer(s, n, t),
         NEW p \in Int, NEW e \in Int, NEW c \in Int,
         Tracks(l, rd, wr, s, p, e, c), p >= 0, c <= Len(s)
  PROVE  Tracks(l, rd, wr, t, p, e, c)
<1>1. \A m \in p + 1 .. c : t[m] = s[m]
  BY SMTT(30) DEF Longer
<1> QED BY <1>1 DEF Tracks
-----------------------------------------------------------------------------
LEMMA DropsTyped ==
  ASSUME NEW S, NEW f \in Seq(S), NEW n \in 0 .. Len(f)
  PROVE  /\ SubSeq(f, n + 1, Len(f)) \in Seq(S) /\ Len(SubSeq(f, n + 1, Len(f))) <= Len(f)
         /\ SubSeq(f, 1, n) \in Seq(S)
<1>1. Len(f) \in Nat /\ \A i \in 1 .. Len(f) : f[i] \in S
  BY LenProperties
<1>2. \A i \in n + 1 .. Len(f) : f[i] \in S
  BY <1>1
<1>3. \A i \in 1 .. n : f[i] \in S
  BY <1>1
<1> QED BY <1>1, <1>2, <1>3, SubSeqProperties

(* What kfifo can give and take.                                            *)
LEMMA Numbers ==
  ASSUME ParrotTypeOK, Phases
  PROVE  /\ PARROT_MSG_FIFO_SIZE \in Nat \ {0} /\ Len(fifo) \in Nat
         /\ Len(sent) \in Nat /\ Len(got) \in Nat /\ fifo \in Seq(Nat)
         /\ kfifo_avail \in 0 .. PARROT_MSG_FIFO_SIZE - Len(fifo)
         /\ ~FifoRaw => kfifo_avail = PARROT_MSG_FIFO_SIZE - Len(fifo)
         /\ FifoRaw => Len(fifo) <= 1 /\ kfifo_avail <= 1 - Len(fifo)
         /\ msg_len[idx_rd] \in Nat
         /\ Min({msg_len[idx_rd], Len(fifo)}) \in 0 .. Len(fifo)
         /\ \A w \in Writers : Min({count[w], kfifo_avail}) \in 0 .. kfifo_avail
<1>1. PARROT_MSG_FIFO_SIZE \in Nat \ {0}
  BY ParrotDriverAssumption
<1>2. Len(sent) \in Nat /\ Len(got) \in Nat
  BY LenProperties, LenOfReads DEF Phases
<1>3. PICK L \in Nat : L = Len(sent)
  BY <1>2
<1>4. fifo \in Seq(1 .. L)
  BY <1>3 DEF ParrotTypeOK
<1>5. fifo \in Seq(Nat) /\ Len(fifo) \in Nat
  BY <1>4
<1>6. /\ kfifo_avail \in 0 .. PARROT_MSG_FIFO_SIZE - Len(fifo)
      /\ ~FifoRaw => kfifo_avail = PARROT_MSG_FIFO_SIZE - Len(fifo)
      /\ FifoRaw => Len(fifo) <= 1 /\ kfifo_avail <= 1 - Len(fifo)
  <2>1. Len(fifo) <= PARROT_MSG_FIFO_SIZE /\ (FifoRaw => Len(fifo) <= 1)
    BY DEF ParrotTypeOK, Phases
  <2> QED BY <1>1, <1>5, <2>1 DEF kfifo_avail
<1>7. msg_len[idx_rd] \in 0 .. PARROT_MSG_FIFO_SIZE
  BY DEF ParrotTypeOK
<1>8. Min({msg_len[idx_rd], Len(fifo)}) \in 0 .. Len(fifo)
  BY <1>5, <1>7, <1>1, MinOfTwo
<1>9. ASSUME NEW w \in Writers PROVE Min({count[w], kfifo_avail}) \in 0 .. kfifo_avail
  <2>1. count[w] \in 0 .. PARROT_MSG_FIFO_SIZE
    BY DEF ParrotTypeOK
  <2> QED BY <1>1, <1>6, <2>1, MinOfTwo
<1> QED BY <1>1, <1>2, <1>5, <1>6, <1>7, <1>8, <1>9

LEMMA ParrotInitDInv == ParrotInit => DInv
<1> SUFFICES ASSUME ParrotInit PROVE DInv
  OBVIOUS
<1> USE DEF ParrotInit
<1>1. PARROT_MSG_FIFO_MAX \in Nat \ {0} /\ PARROT_MSG_FIFO_SIZE \in Nat \ {0} /\ 0 \in Slots
  BY ParrotDriverAssumption DEF Slots
<1>2. Len(sent) = 0 /\ Len(got) = 0 /\ Len(fifo) = 0 /\ sent \in Seq(Nat) /\ got \in Reads
  BY DEF Reads
<1>3. ParrotTypeOK
  <2>1. fifo \in Seq(1 .. Len(sent))
    BY EmptySeq
  <2>2. /\ msg_len \in [Slots -> 0 .. PARROT_MSG_FIFO_SIZE]
        /\ count \in [Writers -> 0 .. PARROT_MSG_FIFO_SIZE]
    BY <1>1
  <2> QED BY <1>1, <1>2, <2>1, <2>2 DEF ParrotTypeOK
<1>4. Phases
  BY <1>2 DEF Phases, DeviceExists, FifoRaw
<1>5. Alone
  BY DEF Alone, Reading, Writing, Resetting, Empty
<1>6. Content(fifo, sent, got)
  BY <1>2 DEF Content
<1>7. Inside
  BY DEF Inside, ReadIn, CallIn
<1>8. Table
  <2>1. Passed = 0 /\ Entered = 0 /\ Recorded = 0
    BY <1>2 DEF Passed, Entered, Recorded, ReadIn, CallIn
  <2>2. Place(0, 0) = 0
    BY <1>1, OneFurther
  <2>3. ~CallIn({"in", "len", "advance"})
    BY DEF CallIn
  <2> QED BY <1>1, <2>1, <2>2, <2>3 DEF Table, Tracks
<1> QED BY <1>3, <1>4, <1>5, <1>6, <1>7, <1>8 DEF DInv, Mended

(* Where fifo and sent are as they were, so is the type of the bytes; both   *)
(* when they are emptied, and what is left when some are taken out.          *)
FifoTyped == fifo \in Seq(1 .. Len(sent)) /\ Len(fifo) <= PARROT_MSG_FIFO_SIZE

LEMMA FifoKeepsType ==
  ASSUME ParrotTypeOK, Phases,
         \/ fifo' = fifo /\ sent' = sent
         \/ fifo' = <<>>
         \/ sent' = sent /\ \E n \in 0 .. Len(fifo) : fifo' = SubSeq(fifo, n + 1, Len(fifo))
  PROVE  FifoTyped' /\ Len(fifo') \in Nat /\ Len(fifo') <= Len(fifo)
<1>1. FifoTyped /\ Len(fifo) \in Nat
  BY Numbers DEF ParrotTypeOK, FifoTyped
<1>2. CASE fifo' = fifo /\ sent' = sent
  BY <1>1, <1>2 DEF FifoTyped
<1>3. CASE fifo' = <<>>
  <2>1. <<>> \in Seq(1 .. Len(sent')) /\ Len(<<>>) = 0
    BY EmptySeq
  <2> QED BY <1>1, <1>3, <2>1, Numbers DEF FifoTyped
<1>4. ASSUME sent' = sent, NEW n \in 0 .. Len(fifo), fifo' = SubSeq(fifo, n + 1, Len(fifo))
      PROVE  FifoTyped' /\ Len(fifo') \in Nat /\ Len(fifo') <= Len(fifo)
  <2>1. PICK S : S = 1 .. Len(sent)
    OBVIOUS
  <2>2. fifo \in Seq(S)
    BY <1>1, <2>1 DEF FifoTyped
  <2>3. SubSeq(fifo, n + 1, Len(fifo)) \in Seq(S) /\ Len(SubSeq(fifo, n + 1, Len(fifo))) <= Len(fifo)
    BY <2>2, DropsTyped
  <2>4. fifo' \in Seq(S) /\ Len(fifo') \in Nat /\ Len(fifo') <= Len(fifo)
    BY <1>4, <2>3, LenProperties, Zenon
  <2> QED BY SMTT(30), <1>1, <1>4, <2>1, <2>4, Numbers DEF FifoTyped
<1> QED BY <1>2, <1>3, <1>4

LEMMA AddTyped ==
  ASSUME NEW L \in Nat, NEW f \in Seq(1 .. L), NEW n \in Nat
  PROVE  /\ f \o [i \in 1 .. n |-> L + 1] \in Seq(1 .. L + 1)
         /\ Len(f \o [i \in 1 .. n |-> L + 1]) = Len(f) + n
<1>1. f \in Seq(1 .. L + 1)
  <2>1. Len(f) \in Nat /\ DOMAIN f = 1 .. Len(f) /\ \A i \in 1 .. Len(f) : f[i] \in 1 .. L
    BY LenProperties
  <2> QED BY <2>1
<1>2. [i \in 1 .. n |-> L + 1] \in Seq(1 .. L + 1) /\ Len([i \in 1 .. n |-> L + 1]) = n
  OBVIOUS
<1> QED BY <1>1, <1>2, ConcatProperties

(* Each step keeps the types, and whoever is inside is let out first.        *)
LEMMA ParrotTypeInvariant == DInv /\ [ParrotNext]_parrotVars => ParrotTypeOK' /\ Phases'
<1> SUFFICES ASSUME DInv, [ParrotNext]_parrotVars PROVE ParrotTypeOK' /\ Phases'
  OBVIOUS
<1> USE DEF DInv, table, setup, calls, history
<1>0. /\ PARROT_MSG_FIFO_MAX \in Nat \ {0} /\ 0 \in Slots
      /\ \A i \in Slots : Next1(i) \in Slots
  <2>1. PARROT_MSG_FIFO_MAX \in Nat \ {0} /\ 0 \in Slots
    BY ParrotDriverAssumption DEF Slots
  <2>2. -1 \in -1 .. PARROT_MSG_FIFO_MAX - 1
    BY <2>1
  <2> QED BY <2>1, <2>2, OneFurther
<1>1. CASE SetUp
  <2>1. FifoTyped' /\ Len(fifo') \in Nat /\ Len(fifo') <= Len(fifo) /\ UNCHANGED <<sent, got>>
    BY <1>1, FifoKeepsType DEF SetUp
  <2>2. ParrotTypeOK'
    BY <1>0, <1>1, <2>1 DEF SetUp, ParrotTypeOK, FifoTyped, CreateFile
  <2>3. FifoRaw' => Len(fifo') <= 1
    <3>1. CASE FifoRaw
      BY <2>1, <3>1, Numbers
    <3>2. CASE ~FifoRaw /\ FifoRaw'
      <4>1. module = "class" /\ UNCHANGED fifo
        BY <1>1, <3>2 DEF SetUp, Register, Step, FifoRaw
      <4>2. Empty
        BY <4>1 DEF Phases, DeviceExists, Mended, Alone
      <4> QED BY <4>1, <4>2 DEF Empty
    <3> QED BY <3>1, <3>2
  <2>4. ~DeviceExists' => open' = {} /\ ~torn'
    BY <1>1 DEF SetUp, Register, Step, DeviceExists, Phases
  <2>5. /\ module' \in {"out", "chrdev", "class", "device", "fifo file", "files", "mutex", "kfifo",
                        "in", "no fifo", "no files"}
        /\ module' \in {"out", "chrdev", "class", "device", "no files"} => files' = {}
        /\ module' = "fifo file" => "reset" \notin files'
        /\ module' = "no fifo" => "fifo" \notin files'
        /\ files \subseteq files'
    BY <1>1 DEF SetUp, Register, Step, CreateFile, Phases
  <2>6. UNCHANGED <<open, rpc, wpc>>
    BY <1>1 DEF SetUp
  <2> QED BY <2>1, <2>2, <2>3, <2>4, <2>5, <2>6 DEF Phases
<1>2. CASE TearDown
  <2>1. FifoTyped' /\ Len(fifo') \in Nat /\ Len(fifo') <= Len(fifo)
    BY <1>2, FifoKeepsType DEF TearDown
  <2>2. ParrotTypeOK'
    <3>1. msg_len' \in [Slots -> 0 .. PARROT_MSG_FIFO_SIZE]
      <4>1. [i \in Slots |-> 0] \in [Slots -> 0 .. PARROT_MSG_FIFO_SIZE]
        BY Numbers
      <4>2. msg_len' = [i \in Slots |-> 0] \/ msg_len' = msg_len
        BY <1>2 DEF TearDown
      <4> QED BY <4>1, <4>2 DEF ParrotTypeOK
    <3>2. files' \subseteq {"fifo", "reset"}
      BY <1>2 DEF TearDown, RemoveFile, ParrotTypeOK
    <3>3. idx_rd' \in Slots /\ idx_wr' \in Slots
      BY <1>0, <1>2 DEF TearDown, ParrotTypeOK
    <3>4. /\ message_read' \in BOOLEAN /\ locked' \in BOOLEAN /\ torn' \in BOOLEAN
          /\ open' \subseteq Readers
      BY <1>2 DEF TearDown, ParrotTypeOK
    <3>5. rpc' \in [Readers -> {"idle", "copy", "advance"}]
      BY <1>2 DEF TearDown, ParrotTypeOK
    <3>6. wpc' = wpc /\ count' = count
      BY <1>2 DEF TearDown
    <3> QED BY <2>1, <3>1, <3>2, <3>3, <3>4, <3>5, <3>6 DEF ParrotTypeOK, FifoTyped
  <2>3. sent' \in Seq(Nat) /\ got' \in Reads
    <3>1. <<>> \in Seq(Nat) /\ <<>> \in Reads
      BY DEF Reads
    <3> QED BY <1>2, <3>1 DEF TearDown, Phases
  <2>4. /\ module' \in {"no fifo", "no files", "out"} /\ module \in {"in", "no fifo", "no files"}
        /\ module' \in {"no files", "out"} => files' = {}
        /\ module' = "no fifo" => "fifo" \notin files'
        /\ module' = "out" => open' = {} /\ ~torn'
        /\ module' # "out" => UNCHANGED <<open, torn>>
        /\ \A r \in Readers : rpc'[r] # "idle" => r \in open'
    BY <1>2 DEF TearDown, Step, RemoveFile, Phases, ParrotTypeOK
  <2>5. ASSUME NEW w \in Writers
        PROVE  /\ wpc'[w] \in {"in", "len", "advance"} => "fifo" \in files'
               /\ wpc'[w] = "reset" => "reset" \in files'
    BY <1>2 DEF TearDown, Step, RemoveFile, Phases
  <2> QED BY <2>1, <2>2, <2>3, <2>4, <2>5 DEF Phases, DeviceExists, FifoRaw
<1>3. ASSUME NEW r \in Readers, Device(r) PROVE ParrotTypeOK' /\ Phases'
  <2>1. CASE parrot_device_open(r) \/ parrot_device_close(r)
    <3>1. FifoTyped'
      BY <2>1, FifoKeepsType DEF parrot_device_open, parrot_device_close
    <3>2. ParrotTypeOK'
      BY <2>1, <3>1 DEF parrot_device_open, parrot_device_close, ParrotTypeOK, FifoTyped
    <3>3. Phases'
      BY <2>1 DEF parrot_device_open, parrot_device_close, Phases, DeviceExists, FifoRaw
    <3> QED BY <3>2, <3>3
  <2>2. ASSUME ReadEnter(r) \/ ReadCopy(r) \/ ReadFault(r) \/ ReadAdvance(r)
        PROVE  ParrotTypeOK' /\ Phases'
    <3>1. FifoTyped' /\ Len(fifo') \in Nat /\ Len(fifo') <= Len(fifo)
      <4>1. CASE ReadEnter(r) \/ ReadAdvance(r)
        BY <4>1, FifoKeepsType DEF ReadEnter, ReadAdvance
      <4>2. CASE ReadCopy(r)
        BY <4>2, FifoKeepsType, Numbers DEF ReadCopy
      <4>3. CASE ReadFault(r)
        <5>1. PICK n \in 0 .. Len(fifo) : n = Min({msg_len[idx_rd], Len(fifo)})
          BY Numbers
        <5>2. PICK k \in 0 .. n - 1 : fifo' = SubSeq(fifo, k + 1, Len(fifo)) /\ sent' = sent
          BY <4>3, <5>1 DEF ReadFault
        <5>3. k \in 0 .. Len(fifo)
          BY <5>1, Numbers
        <5> QED BY <5>2, <5>3, FifoKeepsType
      <4> QED BY <2>2, <4>1, <4>2, <4>3
    <3>2. got' \in Reads
      <4>1. CASE ReadCopy(r)
        <5>1. PICK n \in 0 .. Len(fifo) : n = Min({msg_len[idx_rd], Len(fifo)})
          BY Numbers
        <5>2. SubSeq(fifo, 1, n) \in Seq(Nat) /\ got' = Append(got, SubSeq(fifo, 1, n))
          BY <4>1, <5>1, Numbers, DropsTyped DEF ReadCopy
        <5> QED BY <5>2, ReadsGrow DEF Phases
      <4>2. CASE ~ReadCopy(r)
        BY <2>2, <4>2 DEF ReadEnter, ReadFault, ReadAdvance, Phases
      <4> QED BY <4>1, <4>2
    <3>3. /\ UNCHANGED <<setup, sent, msg_len, idx_wr, locked, open, wpc, count>>
          /\ idx_rd' \in Slots /\ message_read' \in BOOLEAN /\ torn' \in BOOLEAN
          /\ rpc' \in [Readers -> {"idle", "copy", "advance"}]
          /\ \A q \in Readers : q # r => rpc'[q] = rpc[q]
      BY <1>0, <2>2 DEF ReadEnter, ReadCopy, ReadFault, ReadAdvance, ReadTo, ParrotTypeOK
    <3>4. r \in open
      BY <2>2 DEF ReadEnter, ReadCopy, ReadFault, ReadAdvance, ReadTo, Phases
    <3>5. ParrotTypeOK'
      BY <3>1, <3>3 DEF ParrotTypeOK, FifoTyped
    <3>6. Phases'
      <4>1. DeviceExists /\ DeviceExists' = DeviceExists /\ FifoRaw' = FifoRaw
        BY <3>3, <3>4 DEF Phases, DeviceExists, FifoRaw
      <4>2. FifoRaw' => Len(fifo') <= 1
        BY <3>1, <4>1, Numbers
      <4> QED BY <3>2, <3>3, <3>4, <4>1, <4>2 DEF Phases
    <3> QED BY <3>5, <3>6
  <2> QED BY <1>3, <2>1, <2>2 DEF Device
<1>4. ASSUME NEW w \in Writers, Sysfs(w) PROVE ParrotTypeOK' /\ Phases'
  <2>1. ASSUME NEW to, wpc' = [wpc EXCEPT ![w] = to],
               to \in {"idle", "in", "len", "advance", "reset"},
               to \in {"in", "len", "advance"} => "fifo" \in files,
               to = "reset" => "reset" \in files,
               UNCHANGED <<setup, message_read, locked, open, rpc>>,
               FifoTyped', FifoRaw => Len(fifo') <= 1,
               msg_len' \in [Slots -> 0 .. PARROT_MSG_FIFO_SIZE],
               idx_rd' \in Slots, idx_wr' \in Slots,
               count' \in [Writers -> 0 .. PARROT_MSG_FIFO_SIZE], torn' \in BOOLEAN,
               sent' \in Seq(Nat), got' \in Reads
        PROVE  ParrotTypeOK' /\ Phases'
    <3>1. ParrotTypeOK'
      BY <2>1 DEF ParrotTypeOK, FifoTyped
    <3>2. DeviceExists
      BY <1>4 DEF Sysfs, AddEnter, AddIn, AddLen, AddAdvance, ResetFifo, ResetTable, WriteTo, Phases,
                  DeviceExists
    <3>3. DeviceExists' = DeviceExists /\ FifoRaw' = FifoRaw
      BY <2>1 DEF DeviceExists, FifoRaw
    <3>4. \A v \in Writers : /\ wpc'[v] \in {"in", "len", "advance"} => "fifo" \in files
                             /\ wpc'[v] = "reset" => "reset" \in files
      BY <2>1 DEF Phases, ParrotTypeOK
    <3> QED BY <2>1, <3>1, <3>2, <3>3, <3>4 DEF Phases
  <2>2. ASSUME NEW n \in Lengths, AddEnter(w, n) PROVE ParrotTypeOK' /\ Phases'
    <3>1. FifoTyped' /\ UNCHANGED <<fifo, sent, got>>
      BY <2>2, FifoKeepsType DEF AddEnter
    <3>2. n \in 0 .. PARROT_MSG_FIFO_SIZE
      BY <2>2, Numbers, ParrotDriverAssumption DEF AddEnter
    <3>3. count' \in [Writers -> 0 .. PARROT_MSG_FIFO_SIZE] /\ torn' \in BOOLEAN
      BY <2>2, <3>2 DEF AddEnter, ParrotTypeOK
    <3> QED BY <2>1, <2>2, <3>1, <3>3 DEF AddEnter, WriteTo, ParrotTypeOK, Phases
  <2>3. CASE AddIn(w)
    <3>1. PICK c \in 0 .. kfifo_avail : c = Min({count[w], kfifo_avail})
      BY Numbers
    <3>2. PICK L \in Nat : L = Len(sent)
      BY Numbers
    <3>3. /\ fifo' = fifo \o [i \in 1 .. c |-> L + 1] /\ sent' = Append(sent, c)
          /\ count' = [count EXCEPT ![w] = c]
      BY <2>3, <3>1, <3>2 DEF AddIn
    <3>4. c \in Nat /\ c \in 0 .. PARROT_MSG_FIFO_SIZE /\ Len(fifo) + c <= PARROT_MSG_FIFO_SIZE
          /\ (FifoRaw => Len(fifo) + c <= 1)
      BY <3>1, Numbers
    <3>5. sent' \in Seq(Nat) /\ Len(sent') = L + 1
      <4>1. sent \in Seq(Nat)
        BY DEF Phases
      <4>2. Append(sent, c) \in Seq(Nat) /\ Len(Append(sent, c)) = Len(sent) + 1
        BY <3>4, <4>1, AppendProperties
      <4> QED BY <3>2, <3>3, <4>2
    <3>6. fifo' \in Seq(1 .. L + 1) /\ Len(fifo') = Len(fifo) + c
      BY <3>2, <3>3, <3>4, AddTyped DEF ParrotTypeOK
    <3>7. FifoTyped' /\ (FifoRaw => Len(fifo') <= 1)
      BY <3>4, <3>5, <3>6 DEF FifoTyped
    <3>8. count' \in [Writers -> 0 .. PARROT_MSG_FIFO_SIZE]
      BY <3>3, <3>4 DEF ParrotTypeOK
    <3>9. "fifo" \in files
      BY <2>3 DEF AddIn, WriteTo, Phases
    <3> QED BY <2>1, <2>3, <3>5, <3>7, <3>8, <3>9 DEF AddIn, WriteTo, ParrotTypeOK, Phases
  <2>4. CASE AddLen(w)
    <3>1. FifoTyped' /\ UNCHANGED <<fifo, sent, got>>
      BY <2>4, FifoKeepsType DEF AddLen
    <3>2. msg_len' \in [Slots -> 0 .. PARROT_MSG_FIFO_SIZE]
      BY <2>4 DEF AddLen, ParrotTypeOK
    <3>3. "fifo" \in files
      BY <2>4 DEF AddLen, WriteTo, Phases
    <3> QED BY <2>1, <2>4, <3>1, <3>2, <3>3 DEF AddLen, WriteTo, ParrotTypeOK, Phases
  <2>5. CASE AddAdvance(w)
    <3>1. FifoTyped' /\ UNCHANGED <<fifo, sent, got>>
      BY <2>5, FifoKeepsType DEF AddAdvance
    <3>2. idx_wr' \in Slots /\ count' \in [Writers -> 0 .. PARROT_MSG_FIFO_SIZE]
      BY <1>0, <2>5, Numbers DEF AddAdvance, ParrotTypeOK
    <3> QED BY <2>1, <2>5, <3>1, <3>2 DEF AddAdvance, WriteTo, ParrotTypeOK, Phases
  <2>6. CASE ResetFifo(w)
    <3>1. FifoTyped' /\ Len(fifo') \in Nat /\ Len(fifo') <= Len(fifo)
      BY <2>6, FifoKeepsType DEF ResetFifo
    <3>2. FifoRaw => Len(fifo') <= 1
      BY <3>1, Numbers
    <3>3. sent' \in Seq(Nat) /\ got' \in Reads /\ torn' \in BOOLEAN
      <4>1. <<>> \in Seq(Nat) /\ <<>> \in Reads
        BY DEF Reads
      <4> QED BY <2>6, <4>1 DEF ResetFifo, Phases
    <3>4. "reset" \in files
      BY <2>6 DEF ResetFifo
    <3> QED BY <2>1, <2>6, <3>1, <3>2, <3>3, <3>4 DEF ResetFifo, WriteTo, ParrotTypeOK
  <2>7. CASE ResetTable(w)
    <3>1. FifoTyped' /\ UNCHANGED <<fifo, sent, got>>
      BY <2>7, FifoKeepsType DEF ResetTable
    <3> QED BY <1>0, <2>1, <2>7, <3>1 DEF ResetTable, WriteTo, ParrotTypeOK, Phases
  <2> QED BY <1>4, <2>2, <2>3, <2>4, <2>5, <2>6, <2>7 DEF Sysfs
<1>5. CASE UNCHANGED parrotVars
  <2>1. FifoTyped'
    BY <1>5, FifoKeepsType DEF parrotVars
  <2> QED BY <1>5, <2>1 DEF parrotVars, ParrotTypeOK, FifoTyped, Phases, DeviceExists, FifoRaw
<1> QED BY <1>1, <1>2, <1>3, <1>4, <1>5 DEF ParrotNext
-----------------------------------------------------------------------------
(* The open reader is alone, and so is a sysfs call.                        *)
LEMMA ReaderAlone ==
  ASSUME DInv, Alone, NEW r \in Readers, r \in open
  PROVE  /\ open = {r} /\ locked /\ DeviceExists
         /\ \A q \in Readers \ {r} : rpc[q] = "idle"
<1>1. open = {r} /\ locked
  BY DEF Alone, DInv, ParrotTypeOK
<1> QED BY <1>1 DEF DInv, Phases

LEMMA CallerAlone ==
  ASSUME DInv, Alone, NEW w \in Writers, wpc[w] # "idle"
  PROVE  DeviceExists /\ ~Early /\ \A v \in Writers \ {w} : wpc[v] = "idle"
<1>1. w \in Writing
  BY DEF Writing
<1> QED BY <1>1 DEF Alone, Writing

LEMMA FirstCaller ==
  ASSUME Writing = {} \/ Reading = {}
  PROVE  /\ Writing = {} => \A w \in Writers : wpc[w] = "idle"
         /\ Reading = {} => \A r \in Readers : rpc[r] = "idle"
BY DEF Writing, Reading

LEMMA Figures ==
  ASSUME DInv, Content(fifo, sent, got)
  PROVE  /\ Len(sent) \in Nat /\ Len(got) \in Nat /\ Len(fifo) \in Nat /\ Len(got) <= Len(sent)
         /\ Passed \in Int /\ Entered \in Int /\ Recorded \in Int
         /\ ReadIn({"advance"}) => Passed = Len(got) - 1
         /\ ~ReadIn({"advance"}) => Passed = Len(got)
         /\ CallIn({"len", "advance"}) => Entered = Len(sent) - 1
         /\ ~CallIn({"len", "advance"}) => Entered = Len(sent)
         /\ CallIn({"len"}) => Recorded = Len(sent) - 1
         /\ ~CallIn({"len"}) => Recorded = Len(sent)
         /\ Passed <= Len(got) /\ Entered <= Len(sent) /\ Recorded <= Len(sent)
         /\ Inside => Passed >= 0
<1>1. Len(sent) \in Nat /\ Len(got) \in Nat /\ Len(fifo) \in Nat /\ Len(got) <= Len(sent)
  BY Numbers DEF DInv, Content
<1> QED BY <1>1 DEF Passed, Entered, Recorded, Inside

(* Insmod, rmmod, opens and closes leave fifo and table alone.              *)
LEMMA QuietKeepsMended ==
  ASSUME Mended, Alone', UNCHANGED <<fifo, table, calls, sent, got>>
  PROVE  Mended'
BY DEF Mended, Content, Inside, Table, Passed, Entered, Recorded, ReadIn, CallIn, Resetting, table, calls

LEMMA EmptyIsMended ==
  ASSUME Empty', idx_rd' = 0, idx_wr' = 0,
         \A r \in Readers : rpc'[r] = "idle", \A w \in Writers : wpc'[w] = "idle"
  PROVE  Content(fifo, sent, got)' /\ Inside' /\ Table'
<1>1. PARROT_MSG_FIFO_MAX \in Nat \ {0} /\ 0 \in Slots
  BY ParrotDriverAssumption DEF Slots
<1>2. fifo' = <<>> /\ sent' = <<>> /\ got' = <<>> /\ Len(<<>>) = 0
  BY DEF Empty
<1>3. Content(fifo, sent, got)'
  BY <1>2 DEF Content
<1>4. Inside'
  BY DEF Inside, ReadIn, CallIn
<1>5. Passed' = 0 /\ Entered' = 0 /\ Recorded' = 0 /\ ~CallIn({"in", "len", "advance"})'
  BY <1>2 DEF Passed, Entered, Recorded, ReadIn, CallIn
<1>6. Place(0, 0) = 0
  BY <1>1, OneFurther
<1>7. 0 - 0 \in -1 .. PARROT_MSG_FIFO_MAX - 1 /\ 0 - 0 <= PARROT_MSG_FIFO_MAX
      /\ 0 - 0 < PARROT_MSG_FIFO_MAX /\ 0 - 0 = 0 /\ 0 + 1 .. 0 = {}
  BY <1>1
<1>8. Tracks(msg_len, idx_rd, idx_wr, sent, Passed, Entered, Recorded)'
  BY <1>5, <1>6, <1>7 DEF Tracks
<1> QED BY <1>3, <1>4, <1>5, <1>8 DEF Table

LEMMA SetUpMends == ASSUME DInv, SetUp, ~torn' PROVE Mended'
<1>1. ~torn /\ Mended
  <2>1. torn => torn'
    BY DEF SetUp, history
  <2> QED BY <2>1 DEF DInv
<1>6. IF locked THEN \E r \in Readers : open = {r} ELSE open = {}
  BY <1>1 DEF Mended, Alone
<1>2. UNCHANGED <<rpc, wpc, count, sent, got, open>>
  BY DEF SetUp, calls, history
<1>3. /\ UNCHANGED <<fifo, msg_len, idx_rd, idx_wr>>
      /\ IF locked' THEN \E r \in Readers : open' = {r} ELSE open' = {}
  <2>1. CASE module \in {"mutex", "kfifo"}
    <3>1. Empty /\ idx_rd = 0 /\ idx_wr = 0
      BY <1>1, <2>1 DEF Mended, Alone, Early, FifoRaw
    <3>2. /\ fifo' \in {<<>>, fifo} /\ idx_rd' \in {0, idx_rd} /\ idx_wr' \in {0, idx_wr}
          /\ UNCHANGED <<msg_len, locked, open>>
      BY <2>1 DEF SetUp, Register, Step, table
    <3> QED BY <1>6, <3>1, <3>2 DEF Empty
  <2>2. CASE module = "files"
    BY <1>2, <2>2 DEF SetUp, Register, Step, table
  <2>3. CASE module \notin {"mutex", "kfifo", "files"}
    <3>1. UNCHANGED <<fifo, msg_len, idx_rd, idx_wr, locked, open>>
      BY <2>3 DEF SetUp, Register, Step, table
    <3> QED BY <1>6, <3>1
  <2> QED BY <2>1, <2>2, <2>3
<1>4. ~DeviceExists' \/ Early' => ~DeviceExists \/ Early
  BY DEF SetUp, Register, Step, DeviceExists, Early, FifoRaw
<1>5. Alone'
  BY <1>1, <1>2, <1>3, <1>4 DEF Mended, Alone, Reading, Writing, Resetting, Empty
<1> QED BY <1>1, <1>2, <1>3, <1>5, QuietKeepsMended DEF table, calls

LEMMA TearDownMends == ASSUME DInv, TearDown, ~torn' PROVE Mended'
<1>1. CASE module' = "out"
  <2>1. \A w \in Writers : wpc[w] = "idle"
    <3>1. files = {}
      BY <1>1 DEF TearDown, Step, DInv, Phases
    <3> QED BY <3>1 DEF DInv, Phases, ParrotTypeOK
  <2>2. /\ Empty' /\ idx_rd' = 0 /\ idx_wr' = 0 /\ ~locked' /\ open' = {}
        /\ \A r \in Readers : rpc'[r] = "idle"
        /\ \A w \in Writers : wpc'[w] = "idle"
    BY <1>1, <2>1 DEF TearDown, Step, Empty
  <2>3. Alone'
    BY <2>2 DEF Alone, Reading, Writing, Resetting
  <2> QED BY <2>2, <2>3, EmptyIsMended DEF Mended
<1>2. CASE module' # "out"
  <2>1. UNCHANGED <<fifo, table, locked, open, calls, torn, sent, got>>
    BY <1>2 DEF TearDown, Step, history
  <2>2. DeviceExists' /\ ~Early'
    BY <1>2 DEF TearDown, Step, DeviceExists, Early, FifoRaw
  <2>3. Mended
    BY <2>1 DEF DInv
  <2>4. Alone'
    BY <2>1, <2>2, <2>3 DEF Mended, Alone, Reading, Writing, Resetting, Empty, calls, table
  <2> QED BY <2>1, <2>3, <2>4, QuietKeepsMended
<1> QED BY <1>1, <1>2

LEMMA OpenCloseMends ==
  ASSUME DInv, NEW r \in Readers, parrot_device_open(r) \/ parrot_device_close(r), ~torn'
  PROVE  Mended'
<1>1. UNCHANGED <<setup, fifo, table, calls, torn, sent, got>>
  BY DEF parrot_device_open, parrot_device_close, history
<1>2. Mended
  BY <1>1 DEF DInv
<1>3. IF locked' THEN \E q \in Readers : open' = {q} ELSE open' = {}
  <2>1. CASE parrot_device_open(r)
    BY <1>2, <2>1 DEF parrot_device_open, Mended, Alone
  <2>2. CASE parrot_device_close(r)
    <3>1. open = {r}
      BY <1>2, <2>2, ReaderAlone DEF parrot_device_close, Mended
    <3> QED BY <2>2, <3>1 DEF parrot_device_close
  <2> QED BY <2>1, <2>2
<1>4. Alone'
  BY <1>1, <1>2, <1>3 DEF Mended, Alone, Reading, Writing, Resetting, Empty, calls, table, setup,
                         DeviceExists, Early, FifoRaw
<1> QED BY <1>1, <1>2, <1>4, QuietKeepsMended

(* While a read goes on, nothing but the lengths and the bytes it takes      *)
(* changes what Alone is about.                                             *)
LEMMA ReadsAlone ==
  ASSUME DInv, Alone, NEW r \in Readers, r \in open, ~Early, Resetting = {},
         UNCHANGED <<module, locked, open, wpc>>
  PROVE  Alone'
<1>1. DeviceExists' /\ ~Early' /\ Resetting' = {}
  BY ReaderAlone DEF DeviceExists, Early, FifoRaw, Resetting
<1> QED BY <1>1 DEF Alone, Writing

LEMMA ReadEnterMends == ASSUME DInv, NEW r \in Readers, ReadEnter(r), ~torn' PROVE Mended'
<1>1. /\ ~torn /\ ~Early /\ Resetting = {} /\ r \in open /\ rpc[r] = "idle" /\ fifo # <<>>
      /\ UNCHANGED <<module, fifo, msg_len, idx_rd, idx_wr, locked, open, wpc, count, sent, got>>
  BY DEF ReadEnter, ReadTo, setup, table
<1>2. Mended
  BY <1>1 DEF DInv
<1>3. Alone'
  BY <1>1, <1>2, ReadsAlone DEF Mended
<1>4. rpc'[r] = "copy" /\ \A q \in Readers \ {r} : rpc[q] = "idle" /\ rpc'[q] = "idle"
  BY <1>1, <1>2, ReaderAlone DEF ReadEnter, ReadTo, Mended, DInv, ParrotTypeOK
<1>5. ~ReadIn({"advance"}) /\ ~ReadIn({"advance"})'
  BY <1>1, <1>4 DEF ReadIn
<1>6. Content(fifo, sent, got)'
  BY <1>1, <1>2 DEF Mended
<1>7. Len(got) < Len(sent)
  <2>1. 1 \in 1 .. Len(fifo)
    BY <1>1, Numbers, EmptySeq DEF DInv
  <2>2. fifo[1] > Len(got) /\ fifo[1] <= Len(sent) /\ fifo[1] \in Nat
    BY <1>2, <2>1, Numbers DEF Mended, Content, DInv
  <2> QED BY <2>2, Numbers DEF DInv
<1>8. Inside'
  BY <1>1, <1>2, <1>5, <1>7 DEF Mended, Inside, CallIn
<1>9. Table'
  BY <1>1, <1>2, <1>5 DEF Mended, Table, Passed, Entered, Recorded, CallIn
<1> QED BY <1>3, <1>6, <1>8, <1>9 DEF Mended

(* The length at the read index is that of the first message in the fifo:    *)
(* while one that is missing would be read, LengthMissing raises torn.       *)
LEMMA ReadCopyMends == ASSUME DInv, NEW r \in Readers, ReadCopy(r), ~torn' PROVE Mended'
<1>1. /\ ~torn /\ ~LengthMissing /\ rpc[r] = "copy" /\ rpc' = [rpc EXCEPT ![r] = "advance"]
      /\ UNCHANGED <<module, msg_len, idx_rd, idx_wr, locked, open, wpc, count, sent>>
  BY DEF ReadCopy, ReadTo, setup, table
<1>2. Mended /\ r \in open
  BY <1>1 DEF DInv, Phases
<1>3. ~Early /\ Resetting = {}
  BY <1>1, <1>2 DEF Mended, Alone, Reading
<1>4. Alone'
  BY <1>1, <1>2, <1>3, ReadsAlone DEF Mended
<1>5. rpc'[r] = "advance" /\ \A q \in Readers \ {r} : rpc[q] = "idle" /\ rpc'[q] = "idle"
  BY <1>1, <1>2, ReaderAlone DEF Mended, DInv, ParrotTypeOK
<1>6. /\ ~ReadIn({"advance"}) /\ ReadIn({"advance"})' /\ ReadIn({"copy"}) /\ ~ReadIn({"copy"})'
      /\ \A at : CallIn(at)' <=> CallIn(at)
  BY <1>1, <1>5 DEF ReadIn, CallIn
<1>7. /\ Len(sent) \in Nat /\ Len(got) \in Nat /\ Len(fifo) \in Nat /\ Len(got) < Len(sent)
      /\ Passed = Len(got) /\ Entered \in Int /\ Recorded \in Int
  BY <1>2, <1>6, Figures DEF Mended, Inside
<1>8. PICK k \in Nat : k = Len(got) + 1 /\ k \in 1 .. Len(sent) /\ k = Passed + 1
  BY <1>7
<1>9. Tracks(msg_len, idx_rd, idx_wr, sent, Passed, Entered, Recorded)
  BY <1>2, <1>3 DEF Mended, Table
<1>10. idx_rd \in Slots /\ Place(idx_rd, 0) = idx_rd
  <2>1. idx_rd \in Slots /\ -1 \in -1 .. PARROT_MSG_FIFO_MAX - 1
    BY ParrotDriverAssumption DEF DInv, ParrotTypeOK
  <2> QED BY <2>1, OneFurther
<1>11. k <= Recorded
  <2>1. CASE CallIn({"len"})
    <3>1. idx_rd # idx_wr
      BY <1>1, <2>1 DEF LengthMissing, CallIn
    <3>2. Entered - Passed # 0
      BY <1>9, <1>10, <3>1 DEF Tracks
    <3>3. CallIn({"len", "advance"})
      BY <2>1 DEF CallIn
    <3>4. Entered = Len(sent) - 1 /\ Recorded = Len(sent) - 1
      BY <1>2, <2>1, <3>3, Figures DEF Mended
    <3> QED BY <1>7, <1>8, <3>2, <3>4
  <2>2. CASE ~CallIn({"len"})
    BY <1>2, <1>7, <1>8, <2>2, Figures DEF Mended
  <2> QED BY <2>1, <2>2
<1>12. msg_len[idx_rd] = sent[k]
  <2>1. k \in Passed + 1 .. Recorded /\ k - 1 - Passed = 0
    BY <1>7, <1>8, <1>11
  <2> QED BY <1>9, <1>10, <2>1 DEF Tracks
<1>13. fifo \in Seq(Nat) /\ sent \in Seq(Nat) /\ got \in Reads /\ Content(fifo, sent, got)
  BY <1>2, Numbers DEF Mended, DInv, Phases
<1>14. PICK n \in Nat : n = sent[k] /\ n \in 1 .. Len(fifo) /\ Unread(sent, got, k, n)
  <2>1. k = Len(got) + 1 /\ Len(got) < Len(sent) /\ k \in 1 .. Len(sent)
    BY <1>7, <1>8
  <2>2. PICK n \in Nat : n = sent[k]
    BY <1>13, <2>1
  <2>3. Unread(sent, got, k, n)
    BY <2>1, <2>2 DEF Unread
  <2>4. n \in 1 .. Len(fifo)
    BY <1>13, <2>3, FirstMessage
  <2> QED BY <2>2, <2>3, <2>4
<1>15. n = Min({msg_len[idx_rd], Len(fifo)})
  BY <1>7, <1>12, <1>14, MinOfTwo
<1>16. got' = Append(got, SubSeq(fifo, 1, n)) /\ fifo' = SubSeq(fifo, n + 1, Len(fifo))
  BY <1>15 DEF ReadCopy
<1>17. Content(fifo', sent', got') /\ Len(got') = k /\ Len(fifo') = Len(fifo) - n
  <2>1. /\ Content(SubSeq(fifo, n + 1, Len(fifo)), sent, Append(got, SubSeq(fifo, 1, n)))
        /\ Len(Append(got, SubSeq(fifo, 1, n))) = k
        /\ Len(SubSeq(fifo, n + 1, Len(fifo))) = Len(fifo) - n
    BY SMTT(30), <1>13, <1>14, TakeKeepsContent
  <2> QED BY <1>1, <1>16, <2>1
<1>18. Inside'
  <2>1. CallIn({"len"}) => k < Len(sent)
    BY <1>2, <1>7, <1>8, <1>11, Figures DEF Mended
  <2>2. Len(fifo') <= Len(fifo) /\ Len(fifo') \in Nat
    BY <1>7, <1>14, <1>17
  <2>3. ASSUME NEW w \in Writers, wpc[w] = "in" PROVE count[w] <= PARROT_MSG_FIFO_SIZE - Len(fifo')
    <3>1. count[w] <= PARROT_MSG_FIFO_SIZE - Len(fifo)
      BY <1>2, <2>3 DEF Mended, Inside
    <3>2. count[w] \in Nat
      BY Numbers DEF DInv, ParrotTypeOK
    <3> QED BY <1>7, <2>2, <3>1, <3>2, Numbers DEF DInv
  <2> QED BY <1>1, <1>2, <1>6, <1>8, <1>17, <2>1, <2>3 DEF Mended, Inside
<1>19. Passed' = Passed /\ Entered' = Entered /\ Recorded' = Recorded
  BY <1>1, <1>6, <1>7, <1>8, <1>17 DEF Passed, Entered, Recorded
<1>20. Table'
  BY <1>1, <1>2, <1>3, <1>6, <1>19 DEF Mended, Table
<1> QED BY <1>4, <1>17, <1>18, <1>20 DEF Mended

LEMMA ReadAdvanceMends == ASSUME DInv, NEW r \in Readers, ReadAdvance(r), ~torn' PROVE Mended'
<1>1. /\ ~torn /\ rpc[r] = "advance" /\ rpc' = [rpc EXCEPT ![r] = "idle"] /\ idx_rd' = Next1(idx_rd)
      /\ UNCHANGED <<module, fifo, msg_len, idx_wr, locked, open, wpc, count, sent, got>>
  BY DEF ReadAdvance, ReadTo, setup, history
<1>2. Mended /\ r \in open
  BY <1>1 DEF DInv, Phases
<1>3. ~Early /\ Resetting = {}
  BY <1>1, <1>2 DEF Mended, Alone, Reading
<1>4. Alone'
  BY <1>1, <1>2, <1>3, ReadsAlone DEF Mended
<1>5. rpc'[r] = "idle" /\ \A q \in Readers \ {r} : rpc[q] = "idle" /\ rpc'[q] = "idle"
  BY <1>1, <1>2, ReaderAlone DEF Mended, DInv, ParrotTypeOK
<1>6. /\ ReadIn({"advance"}) /\ ~ReadIn({"advance"})' /\ ~ReadIn({"copy"})'
      /\ \A at : CallIn(at)' <=> CallIn(at)
  BY <1>1, <1>5 DEF ReadIn, CallIn
<1>7. PICK p \in Int, e \in Int, c \in Int : p = Passed /\ e = Entered /\ c = Recorded
  BY <1>2, Figures DEF Mended
<1>8. /\ Passed' = p + 1 /\ Entered' = e /\ Recorded' = c /\ e - p >= 0
  <2>1. p = Len(got) - 1 /\ Len(got) \in Nat /\ Len(sent) \in Nat /\ Len(got) <= Len(sent)
    BY <1>2, <1>6, <1>7, Figures DEF Mended
  <2>2. e >= Len(sent) - 1
    BY <1>2, <1>7, <2>1, Figures DEF Mended
  <2>3. Passed' = p + 1
    BY <1>1, <1>6, <2>1 DEF Passed
  <2>4. Entered' = e /\ Recorded' = c
    BY <1>1, <1>6, <1>7 DEF Entered, Recorded
  <2> QED BY <2>1, <2>2, <2>3, <2>4
<1>9. Tracks(msg_len, idx_rd, idx_wr, sent, p, e, c)
  BY <1>2, <1>3, <1>7 DEF Mended, Table
<1>10. Tracks(msg_len, Next1(idx_rd), idx_wr, sent, p + 1, e, c)
  BY <1>8, <1>9, TracksAfterRead DEF DInv, ParrotTypeOK
<1>11. Table'
  <2>1. CallIn({"in", "len", "advance"}) => e - p < PARROT_MSG_FIFO_MAX - 1
    BY <1>2, <1>3, <1>7 DEF Mended, Table
  <2>2. CallIn({"in", "len", "advance"})' => e - (p + 1) < PARROT_MSG_FIFO_MAX - 1
    BY <1>6, <2>1, ParrotDriverAssumption
  <2> QED BY <1>1, <1>8, <1>10, <2>2 DEF Table
<1>12. Content(fifo, sent, got)'
  BY <1>1, <1>2 DEF Mended
<1>13. Inside'
  BY <1>1, <1>2, <1>6 DEF Mended, Inside
<1> QED BY <1>4, <1>11, <1>12, <1>13 DEF Mended

(* A sysfs call that goes from one step to the next, alone.                  *)
Goes(w, to) == /\ wpc' = [wpc EXCEPT ![w] = to]
               /\ \A v \in Writers \ {w} : wpc[v] = "idle"
               /\ UNCHANGED <<module, locked, open, rpc>>

LEMMA CallGoes ==
  ASSUME DInv, Mended, NEW w \in Writers, NEW to, Goes(w, to)
  PROVE  /\ wpc'[w] = to /\ \A v \in Writers \ {w} : wpc'[v] = "idle"
         /\ CallIn({"len"})' <=> to = "len"
         /\ CallIn({"len", "advance"})' <=> to \in {"len", "advance"}
         /\ CallIn({"in", "len", "advance"})' <=> to \in {"in", "len", "advance"}
         /\ CallIn({"len"}) <=> wpc[w] = "len"
         /\ CallIn({"len", "advance"}) <=> wpc[w] \in {"len", "advance"}
         /\ CallIn({"in", "len", "advance"}) <=> wpc[w] \in {"in", "len", "advance"}
         /\ Resetting' = {} <=> to # "reset"
         /\ Resetting = {} <=> wpc[w] # "reset"
         /\ \A at : ReadIn(at)' <=> ReadIn(at)
<1>1. wpc'[w] = to /\ \A v \in Writers \ {w} : wpc'[v] = "idle" /\ wpc[v] = "idle"
  BY DEF Goes, DInv, ParrotTypeOK
<1>2. \A at : ReadIn(at)' <=> ReadIn(at)
  BY DEF Goes, ReadIn
<1> QED BY <1>1, <1>2 DEF CallIn, Resetting

LEMMA WritesAlone ==
  ASSUME DInv, Alone, NEW w \in Writers, NEW to, Goes(w, to), to # "reset", DeviceExists, ~Early
  PROVE  Alone'
<1>1. DeviceExists' /\ ~Early'
  BY DEF Goes, DeviceExists, Early, FifoRaw
<1>2. \A v \in Writers : v # w => wpc'[v] = "idle"
  BY DEF Goes, DInv, ParrotTypeOK
<1>3. Resetting' = {}
  <2>1. wpc'[w] = to
    BY DEF Goes, DInv, ParrotTypeOK
  <2> QED BY <1>2, <2>1 DEF Resetting
<1>4. \A v, x \in Writing' : v = x
  BY <1>2 DEF Writing
<1> QED BY <1>1, <1>3, <1>4 DEF Alone, Goes

LEMMA AddEnterMends ==
  ASSUME DInv, NEW w \in Writers, NEW n \in Lengths, AddEnter(w, n), ~torn'
  PROVE  Mended'
<1>1. /\ ~torn /\ ~Early /\ Writing = {} /\ wpc[w] = "idle" /\ "fifo" \in files
      /\ wpc' = [wpc EXCEPT ![w] = "in"] /\ count' = [count EXCEPT ![w] = n]
      /\ Next1(idx_wr) # idx_rd /\ kfifo_avail >= n
      /\ UNCHANGED <<module, fifo, msg_len, idx_rd, idx_wr, locked, open, rpc, sent, got>>
  BY DEF AddEnter, WriteTo, setup, table
<1>2. Mended /\ DeviceExists /\ n \in Nat \ {0}
  BY <1>1, ParrotDriverAssumption DEF DInv, Phases, DeviceExists
<1>3. Goes(w, "in")
  BY <1>1, FirstCaller DEF Goes
<1>4. Alone'
  BY <1>1, <1>2, <1>3, WritesAlone DEF Mended
<1>5. /\ ~CallIn({"len", "advance"}) /\ ~CallIn({"len"}) /\ Resetting = {}
      /\ ~CallIn({"len", "advance"})' /\ ~CallIn({"len"})' /\ wpc'[w] = "in"
      /\ \A v \in Writers \ {w} : wpc'[v] = "idle"
      /\ \A at : ReadIn(at)' <=> ReadIn(at)
  BY <1>1, <1>2, <1>3, CallGoes
<1>6. Passed' = Passed /\ Entered' = Entered /\ Recorded' = Recorded
  BY <1>1, <1>5 DEF Passed, Entered, Recorded
<1>7. PICK p \in Int, e \in Int : p = Passed /\ e = Entered /\ e - p >= 0
  BY <1>2, <1>5, Figures DEF Mended
<1>8. Tracks(msg_len, idx_rd, idx_wr, sent, p, e, Recorded)
  BY <1>2, <1>5, <1>7 DEF Mended, Table
<1>9. e - p < PARROT_MSG_FIFO_MAX - 1
  <2>1. PICK d \in 0 .. PARROT_MSG_FIFO_MAX - 1 : d = e - p /\ idx_wr = Place(idx_rd, d)
    BY <1>7, <1>8 DEF Tracks
  <2>2. idx_rd \in Slots /\ d \in -1 .. PARROT_MSG_FIFO_MAX - 1
    BY <2>1, ParrotDriverAssumption DEF DInv, ParrotTypeOK
  <2>3. Place(idx_rd, d + 1) # idx_rd
    BY <1>1, <2>1, <2>2, OneFurther
  <2>4. d # PARROT_MSG_FIFO_MAX - 1
    BY <2>2, <2>3, OneFurther
  <2> QED BY <2>1, <2>4, ParrotDriverAssumption
<1>10. Table'
  BY <1>1, <1>6, <1>7, <1>8, <1>9 DEF Table
<1>11. Content(fifo, sent, got)'
  BY <1>1, <1>2 DEF Mended
<1>12. Inside'
  <2>1. count'[w] = n /\ n <= PARROT_MSG_FIFO_SIZE - Len(fifo)
    <3>1. ~FifoRaw
      BY <1>1 DEF Early
    <3> QED BY <1>1, <1>2, <3>1, Numbers DEF DInv, ParrotTypeOK
  <2> QED BY <1>1, <1>2, <1>5, <2>1 DEF Mended, Inside
<1> QED BY <1>4, <1>10, <1>11, <1>12 DEF Mended

LEMMA AddInMends == ASSUME DInv, NEW w \in Writers, AddIn(w), ~torn' PROVE Mended'
<1>1. /\ ~torn /\ wpc[w] = "in" /\ wpc' = [wpc EXCEPT ![w] = "len"]
      /\ UNCHANGED <<module, msg_len, idx_rd, idx_wr, locked, open, rpc, got>>
  BY DEF AddIn, WriteTo, setup, table
<1>2. Mended
  BY <1>1 DEF DInv
<1>3. DeviceExists /\ ~Early /\ Goes(w, "len")
  BY <1>1, <1>2, CallerAlone DEF Mended, Goes
<1>4. Alone'
  BY <1>2, <1>3, WritesAlone DEF Mended
<1>5. /\ ~CallIn({"len", "advance"}) /\ ~CallIn({"len"}) /\ CallIn({"in", "len", "advance"})
      /\ Resetting = {}
      /\ CallIn({"len", "advance"})' /\ CallIn({"len"})' /\ wpc'[w] = "len"
      /\ \A v \in Writers \ {w} : wpc'[v] = "idle"
      /\ \A at : ReadIn(at)' <=> ReadIn(at)
  BY <1>1, <1>2, <1>3, CallGoes
<1>6. PICK L \in Nat : L = Len(sent) /\ Len(got) \in Nat /\ Len(got) <= L
  BY <1>2, Figures DEF Mended
<1>7. PICK n \in Nat \ {0} : n = count[w] /\ n = Min({count[w], kfifo_avail})
  <2>1. count[w] > 0 /\ count[w] <= PARROT_MSG_FIFO_SIZE - Len(fifo) /\ count[w] \in Int
    BY <1>1, <1>2, Numbers DEF Mended, Inside, DInv, ParrotTypeOK
  <2>2. kfifo_avail = PARROT_MSG_FIFO_SIZE - Len(fifo) /\ kfifo_avail \in Int
    BY <1>3, Numbers DEF DInv, Early
  <2>3. Min({count[w], kfifo_avail}) = count[w]
    BY <2>1, <2>2, MinOfTwo
  <2> QED BY <2>1, <2>3
<1>8. /\ fifo' = fifo \o [i \in 1 .. n |-> Len(sent) + 1] /\ sent' = Append(sent, n)
      /\ count' = [count EXCEPT ![w] = n]
  BY <1>6, <1>7 DEF AddIn
<1>9. fifo \in Seq(Nat) /\ sent \in Seq(Nat) /\ got \in Reads /\ Content(fifo, sent, got)
  BY <1>2, Numbers DEF Mended, DInv, Phases
<1>10. Content(fifo', sent', got') /\ Longer(sent, n, sent')
  BY <1>1, <1>7, <1>8, <1>9, AddKeepsContent
<1>11. Len(sent') = L + 1 /\ sent'[L + 1] = n
  BY <1>6, <1>10 DEF Longer
<1>12. Inside'
  <2>1. count'[w] = n
    BY <1>8 DEF DInv, ParrotTypeOK
  <2> QED BY <1>1, <1>2, <1>5, <1>6, <1>11, <2>1 DEF Mended, Inside
<1>13. PICK p \in Int, e \in Int, c \in Int :
         /\ p = Passed /\ e = Entered /\ c = Recorded
         /\ p >= 0 /\ e = L /\ c = L
  BY <1>2, <1>5, <1>6, Figures DEF Mended
<1>14. Passed' = p /\ Entered' = e /\ Recorded' = c
  BY <1>1, <1>5, <1>6, <1>11, <1>13 DEF Passed, Entered, Recorded
<1>15. Tracks(msg_len, idx_rd, idx_wr, sent, p, e, c) /\ e - p < PARROT_MSG_FIFO_MAX - 1
  BY <1>2, <1>5, <1>13 DEF Mended, Table
<1>16. Tracks(msg_len, idx_rd, idx_wr, sent', p, e, c)
  BY <1>6, <1>9, <1>10, <1>13, <1>15, TracksAfterAppend
<1>17. Table'
  BY <1>1, <1>14, <1>15, <1>16 DEF Table
<1> QED BY <1>4, <1>10, <1>12, <1>17 DEF Mended

LEMMA AddLenMends == ASSUME DInv, NEW w \in Writers, AddLen(w), ~torn' PROVE Mended'
<1>1. /\ ~torn /\ wpc[w] = "len" /\ wpc' = [wpc EXCEPT ![w] = "advance"]
      /\ msg_len' = [msg_len EXCEPT ![idx_wr] = count[w]]
      /\ UNCHANGED <<module, fifo, idx_rd, idx_wr, locked, open, rpc, count, sent, got>>
  BY DEF AddLen, WriteTo, setup, history
<1>2. Mended
  BY <1>1 DEF DInv
<1>3. DeviceExists /\ ~Early /\ Goes(w, "advance")
  BY <1>1, <1>2, CallerAlone DEF Mended, Goes
<1>4. Alone'
  BY <1>2, <1>3, WritesAlone DEF Mended
<1>5. /\ CallIn({"len", "advance"}) /\ CallIn({"len"}) /\ CallIn({"in", "len", "advance"})
      /\ Resetting = {}
      /\ CallIn({"len", "advance"})' /\ ~CallIn({"len"})' /\ wpc'[w] = "advance"
      /\ \A v \in Writers \ {w} : wpc'[v] = "idle"
      /\ \A at : ReadIn(at)' <=> ReadIn(at)
  BY <1>1, <1>2, <1>3, CallGoes
<1>6. PICK L \in Nat : L = Len(sent) /\ Len(got) \in Nat /\ Len(got) < L
  BY <1>2, <1>5, Figures DEF Mended, Inside
<1>7. PICK p \in Int, e \in Int :
        /\ p = Passed /\ e = Entered /\ e = Recorded /\ p <= Len(got) /\ e = L - 1
  BY <1>2, <1>5, <1>6, Figures DEF Mended
<1>8. Passed' = p /\ Entered' = e /\ Recorded' = e + 1
  BY <1>1, <1>5, <1>6, <1>7 DEF Passed, Entered, Recorded
<1>9. Tracks(msg_len, idx_rd, idx_wr, sent, p, e, e) /\ e - p < PARROT_MSG_FIFO_MAX - 1
  BY <1>2, <1>5, <1>7 DEF Mended, Table
<1>10. e - p \in 0 .. PARROT_MSG_FIFO_MAX - 2
  BY <1>6, <1>7, <1>9, ParrotDriverAssumption
<1>11. count[w] = sent[e + 1]
  BY <1>1, <1>2, <1>6, <1>7 DEF Mended, Inside
<1>12. Tracks(msg_len', idx_rd, idx_wr, sent, p, e, e + 1)
  BY <1>1, <1>9, <1>10, <1>11, TracksAfterRecord DEF DInv, ParrotTypeOK
<1>13. Table'
  BY <1>1, <1>8, <1>9, <1>12 DEF Table
<1>14. Content(fifo, sent, got)'
  BY <1>1, <1>2 DEF Mended
<1>15. Inside'
  BY <1>1, <1>2, <1>5 DEF Mended, Inside
<1> QED BY <1>4, <1>13, <1>14, <1>15 DEF Mended

LEMMA AddAdvanceMends == ASSUME DInv, NEW w \in Writers, AddAdvance(w), ~torn' PROVE Mended'
<1>1. /\ ~torn /\ wpc[w] = "advance" /\ wpc' = [wpc EXCEPT ![w] = "idle"]
      /\ idx_wr' = Next1(idx_wr)
      /\ UNCHANGED <<module, fifo, msg_len, idx_rd, locked, open, rpc, sent, got>>
  BY DEF AddAdvance, WriteTo, setup, history
<1>2. Mended
  BY <1>1 DEF DInv
<1>3. DeviceExists /\ ~Early /\ Goes(w, "idle")
  BY <1>1, <1>2, CallerAlone DEF Mended, Goes
<1>4. Alone'
  BY <1>2, <1>3, WritesAlone DEF Mended
<1>5. /\ CallIn({"len", "advance"}) /\ ~CallIn({"len"}) /\ CallIn({"in", "len", "advance"})
      /\ Resetting = {}
      /\ ~CallIn({"len", "advance"})' /\ ~CallIn({"len"})' /\ ~CallIn({"in", "len", "advance"})'
      /\ wpc'[w] = "idle" /\ \A v \in Writers \ {w} : wpc'[v] = "idle"
      /\ \A at : ReadIn(at)' <=> ReadIn(at)
  BY <1>1, <1>2, <1>3, CallGoes
<1>6. PICK p \in Int, e \in Int, c \in Int :
        /\ p = Passed /\ e = Entered /\ c = Recorded /\ e = Len(sent) - 1
        /\ Len(sent) \in Nat /\ c = Len(sent)
  BY <1>2, <1>5, Figures DEF Mended
<1>7. Passed' = p /\ Entered' = e + 1 /\ Recorded' = c
  BY <1>1, <1>5, <1>6 DEF Passed, Entered, Recorded
<1>8. Tracks(msg_len, idx_rd, idx_wr, sent, p, e, c) /\ e - p < PARROT_MSG_FIFO_MAX - 1
  BY <1>2, <1>5, <1>6 DEF Mended, Table
<1>9. Tracks(msg_len, idx_rd, Next1(idx_wr), sent, p, e + 1, c)
  BY <1>8, TracksAfterAdvance DEF DInv, ParrotTypeOK
<1>10. Table'
  BY <1>1, <1>5, <1>7, <1>9 DEF Table
<1>11. Content(fifo, sent, got)'
  BY <1>1, <1>2 DEF Mended
<1>12. Inside'
  BY <1>1, <1>2, <1>5 DEF Mended, Inside
<1> QED BY <1>4, <1>10, <1>11, <1>12 DEF Mended

(* What the cardinality of open says of the mutex.                          *)
LEMMA MutexAdmitsOne ==
  ASSUME DInv, MutexHolds
  PROVE  IF locked THEN \E r \in Readers : open = {r} ELSE open = {}
<1>1. open \subseteq Readers /\ IsFiniteSet(open)
  BY ParrotDriverAssumption, FS_Subset DEF DInv, ParrotTypeOK
<1>2. CASE locked
  <2>1. \E x : open = {x}
    BY <1>1, <1>2, FS_Singleton DEF MutexHolds
  <2> QED BY <1>1, <1>2, <2>1
<1>3. CASE ~locked
  BY <1>1, <1>3, FS_EmptySet DEF MutexHolds
<1> QED BY <1>2, <1>3

LEMMA ResetFifoMends == ASSUME DInv, NEW w \in Writers, ResetFifo(w), ~torn' PROVE Mended'
<1>1. /\ Reading = {} /\ Writing = {} /\ ~Early /\ MutexHolds /\ Empty' /\ "reset" \in files
      /\ wpc' = [wpc EXCEPT ![w] = "reset"] /\ UNCHANGED <<module, locked, open, rpc>>
  BY DEF ResetFifo, WriteTo, setup, Empty
<1>2. /\ wpc'[w] = "reset" /\ \A v \in Writers \ {w} : wpc'[v] = "idle"
      /\ \A r \in Readers : rpc'[r] = "idle"
  BY <1>1, FirstCaller DEF DInv, ParrotTypeOK
<1>3. DeviceExists' /\ ~Early'
  BY <1>1 DEF DInv, Phases, DeviceExists, Early, FifoRaw
<1>4. Alone'
  <2>1. IF locked' THEN \E r \in Readers : open' = {r} ELSE open' = {}
    BY <1>1, MutexAdmitsOne
  <2>2. Reading' = {} /\ \A v, x \in Writing' : v = x
    BY <1>2 DEF Reading, Writing
  <2> QED BY <1>1, <1>3, <2>1, <2>2 DEF Alone
<1>5. Content(fifo, sent, got)'
  <2>1. Len(<<>>) = 0 /\ fifo' = <<>> /\ sent' = <<>> /\ got' = <<>>
    BY <1>1 DEF Empty
  <2> QED BY <2>1 DEF Content
<1>6. Inside'
  BY <1>2 DEF Inside, ReadIn, CallIn
<1>7. Resetting' # {}
  BY <1>2 DEF Resetting
<1> QED BY <1>4, <1>5, <1>6, <1>7 DEF Mended

LEMMA ResetTableMends == ASSUME DInv, NEW w \in Writers, ResetTable(w), ~torn' PROVE Mended'
<1>1. /\ ~torn /\ wpc[w] = "reset" /\ wpc' = [wpc EXCEPT ![w] = "idle"]
      /\ idx_rd' = 0 /\ idx_wr' = 0
      /\ UNCHANGED <<module, fifo, locked, open, rpc, sent, got>>
  BY DEF ResetTable, WriteTo, setup, history
<1>2. Mended
  BY <1>1 DEF DInv
<1>3. DeviceExists /\ ~Early /\ Goes(w, "idle")
  BY <1>1, <1>2, CallerAlone DEF Mended, Goes
<1>4. Alone'
  BY <1>2, <1>3, WritesAlone DEF Mended
<1>5. Reading = {} /\ Empty
  BY <1>1, <1>2 DEF Mended, Alone, Resetting
<1>6. /\ Empty' /\ \A r \in Readers : rpc'[r] = "idle"
      /\ \A v \in Writers : wpc'[v] = "idle"
  BY <1>1, <1>3, <1>5, FirstCaller DEF Empty, Goes, DInv, ParrotTypeOK
<1> QED BY <1>1, <1>4, <1>6, EmptyIsMended DEF Mended

LEMMA ParrotStepDInv == DInv /\ [ParrotNext]_parrotVars => DInv'
<1> SUFFICES ASSUME DInv, [ParrotNext]_parrotVars PROVE DInv'
  OBVIOUS
<1>1. ParrotTypeOK' /\ Phases'
  BY ParrotTypeInvariant
<1>2. ASSUME ~torn' PROVE Mended'
  <2>1. ASSUME NEW r \in Readers, Device(r) PROVE Mended'
    <3>1. ~ReadFault(r)
      BY <1>2 DEF ReadFault
    <3> QED BY <1>2, <2>1, <3>1, OpenCloseMends, ReadEnterMends, ReadCopyMends, ReadAdvanceMends
            DEF Device
  <2>2. ASSUME NEW w \in Writers, Sysfs(w) PROVE Mended'
    BY <1>2, <2>2, AddEnterMends, AddInMends, AddLenMends, AddAdvanceMends, ResetFifoMends,
       ResetTableMends DEF Sysfs
  <2>3. CASE UNCHANGED parrotVars
    <3>1. Mended /\ UNCHANGED <<module, fifo, table, locked, open, calls, sent, got>>
      BY <1>2, <2>3 DEF parrotVars, DInv, setup, history
    <3>2. Alone'
      BY <3>1 DEF Mended, Alone, Reading, Writing, Resetting, Empty, calls, table, DeviceExists,
                  Early, FifoRaw
    <3> QED BY <3>1, <3>2, QuietKeepsMended
  <2> QED BY <1>2, <2>1, <2>2, <2>3, SetUpMends, TearDownMends DEF ParrotNext
<1> QED BY <1>1, <1>2 DEF DInv

LEMMA DInvHolds == ParrotSpec => []DInv
BY ParrotInitDInv, ParrotStepDInv, PTL DEF ParrotSpec

(* Fifo, table, calls and history of parrot_driver.c keep their types.       *)
THEOREM ParrotTypes == ParrotSpec => []ParrotTypeOK
<1>1. DInv => ParrotTypeOK
  BY DEF DInv
<1> QED BY <1>1, DInvHolds, PTL

(* However many processes read and write, and whatever the sizes of fifo and *)
(* table: each read returns one message, whole and in order, until an        *)
(* overlap that raises torn.                                                *)
THEOREM MessagesWhole == ParrotSpec => []MessagesArriveWhole
<1>1. DInv => MessagesArriveWhole
  <2> SUFFICES ASSUME DInv, ~torn
               PROVE  /\ \A i \in DOMAIN got : \E m \in DOMAIN sent : got[i] = Whole(m)
                      /\ \A i, j \in DOMAIN got : i < j => got[i][1] < got[j][1]
    BY DEF MessagesArriveWhole
  <2>1. Mended
    BY DEF DInv
  <2>2. /\ DOMAIN got = 1 .. Len(got) /\ DOMAIN sent = 1 .. Len(sent)
        /\ Len(got) \in Nat /\ Len(sent) \in Nat /\ Len(got) <= Len(sent)
    BY <2>1, Numbers, LenProperties DEF DInv, Phases, Reads, Mended, Content
  <2>3. ASSUME NEW i \in 1 .. Len(got)
        PROVE  i \in 1 .. Len(sent) /\ got[i] = Whole(i) /\ got[i][1] = i
    <3>1. i \in 1 .. Len(sent) /\ sent[i] \in Nat /\ sent[i] >= 1
      <4>1. i \in 1 .. Len(sent)
        BY <2>2
      <4>2. sent[i] >= 1
        BY <2>1, <4>1 DEF Mended, Content
      <4>3. sent[i] \in Nat
        <5>1. sent \in Seq(Nat)
          BY DEF DInv, Phases
        <5> QED BY <4>1, <5>1
      <4> QED BY <4>1, <4>2, <4>3
    <3>2. got[i] = Bytes(sent[i], i)
      BY <2>1 DEF Mended, Content
    <3>3. 1 \in 1 .. sent[i]
      BY <3>1
    <3> QED BY <3>1, <3>2, <3>3 DEF Bytes, Whole
  <2> QED BY <2>2, <2>3
<1> QED BY <1>1, DInvHolds, PTL

(* Between calls the table is empty exactly when the fifo is, and tells the  *)
(* length of the message whose bytes come first, until torn is raised.       *)
THEOREM TableAndFifoAgree == ParrotSpec => []TableTracksFifo
<1>1. DInv => TableTracksFifo
  <2> SUFFICES ASSUME DInv, ~torn, Reading = {}, Writing = {}, ~Early
               PROVE  /\ fifo = <<>> <=> idx_rd = idx_wr
                      /\ fifo # <<>> => LET m == fifo[1] IN
                           msg_len[idx_rd] = sent[m] /\ SubSeq(fifo, 1, sent[m]) = Whole(m)
    BY DEF TableTracksFifo
  <2>1. Mended
    BY DEF DInv
  <2>2. /\ \A r \in Readers : rpc[r] = "idle"
        /\ \A w \in Writers : wpc[w] = "idle"
    BY FirstCaller
  <2>3. ~ReadIn({"advance"}) /\ ~CallIn({"len", "advance"}) /\ ~CallIn({"len"}) /\ Resetting = {}
    BY <2>2 DEF ReadIn, CallIn, Resetting
  <2>4. PICK G \in Nat, L \in Nat : /\ G = Len(got) /\ L = Len(sent) /\ G <= L
                                    /\ Passed = G /\ Entered = L /\ Recorded = L
    BY <2>1, <2>3, Figures DEF Mended
  <2>5. Tracks(msg_len, idx_rd, idx_wr, sent, G, L, L)
    BY <2>1, <2>3, <2>4 DEF Mended, Table
  <2>6. idx_rd \in Slots /\ Place(idx_rd, 0) = idx_rd /\ (idx_wr = idx_rd <=> L = G)
    <3>1. PICK d \in 0 .. PARROT_MSG_FIFO_MAX - 1 : d = L - G /\ idx_wr = Place(idx_rd, d)
      BY <2>4, <2>5 DEF Tracks
    <3>2. d \in -1 .. PARROT_MSG_FIFO_MAX - 1 /\ d >= 0 /\ idx_rd \in Slots
      BY <3>1, ParrotDriverAssumption DEF DInv, ParrotTypeOK
    <3>3. Place(idx_rd, 0) = idx_rd /\ (Place(idx_rd, d) = idx_rd <=> d = 0)
      BY <3>2, OneFurther
    <3> QED BY <2>4, <3>1, <3>2, <3>3
  <2>7. fifo \in Seq(Nat) /\ sent \in Seq(Nat) /\ got \in Reads /\ Content(fifo, sent, got)
        /\ Len(fifo) \in Nat
    BY <2>1, Numbers DEF Mended, DInv, Phases
  <2>8. CASE L = G
    <3>1. Len(fifo) = 0
      <4>1. SUFFICES ASSUME 1 \in 1 .. Len(fifo) PROVE FALSE
        BY <2>7
      <4>2. fifo[1] > G /\ fifo[1] <= L /\ fifo[1] \in Nat
        BY <2>4, <2>7, <4>1 DEF Content
      <4> QED BY <2>4, <2>8, <4>2
    <3> QED BY <2>6, <2>7, <2>8, <3>1, EmptySeq
  <2>9. CASE L # G
    <3>1. PICK k \in Nat : k = G + 1 /\ k \in G + 1 .. L /\ G < L
      BY <2>4, <2>9
    <3>2. /\ k \in 1 .. L /\ sent[k] \in 1 .. Len(fifo)
          /\ \A i \in 1 .. Len(fifo) : fifo[i] = k <=> i <= sent[k]
          /\ SubSeq(fifo, 1, sent[k]) = Bytes(sent[k], k)
      <4>1. k = Len(got) + 1 /\ Len(got) < Len(sent) /\ k \in 1 .. L /\ k \in 1 .. Len(sent)
        BY <2>4, <3>1
      <4>2. PICK n \in Nat : n = sent[k]
        BY <2>7, <4>1
      <4>3. Unread(sent, got, k, n)
        BY <4>1, <4>2 DEF Unread
      <4>4. /\ n \in 1 .. Len(fifo)
            /\ \A i \in 1 .. Len(fifo) : fifo[i] = k <=> i <= n
            /\ SubSeq(fifo, 1, n) = Bytes(n, k)
        BY <2>7, <4>3, FirstMessage
      <4> QED BY <4>1, <4>2, <4>4
    <3>3. fifo[1] = k
      <4>1. 1 \in 1 .. Len(fifo) /\ 1 <= sent[k]
        BY <2>7, <3>2
      <4> QED BY <3>2, <4>1
    <3>4. fifo # <<>>
      BY <2>7, <3>2, EmptySeq
    <3>5. msg_len[idx_rd] = sent[k]
      <4>1. k - 1 - G = 0
        BY <3>1
      <4> QED BY <2>5, <2>6, <3>1, <4>1 DEF Tracks
    <3> QED BY <2>6, <2>9, <3>2, <3>3, <3>4, <3>5 DEF Bytes, Whole
  <2> QED BY <2>8, <2>9
<1> QED BY <1>1, DInvHolds, PTL

-----------------------------------------------------------------------------
(***************************************************************************)
(* Bit counting: the loops and the tables of reference.cpp, for any width.   *)
(***************************************************************************)
(* What the loops have counted and what they have still to count make up the *)
(* ones of the argument.                                                    *)
Counted == /\ pc \in {"iterated", "sparse"} => ones + Cardinality(word) = Cardinality(argument)
           /\ pc = "dense" => ones - Cardinality(word) = Cardinality(argument)

(* The loops that are through have returned the ones.                       *)
Through == [iterated |-> {"sparse", "dense", "compare", "passed", "error"},
            sparse   |-> {"dense", "compare", "passed", "error"},
            dense    |-> {"compare", "passed", "error"}]
LoopsRight == \A loop \in Loops : pc \in Through[loop] => returned[loop] = Cardinality(argument)

(* What the three arithmetic functions have to return, and what the verdict   *)
(* says of them.                                                            *)
Right(w) == LET other == arithmetic[w]
            IN  {other.parallel, other.nifty, other.mit} = {Cardinality(w)}
VerdictIsExact == /\ pc = "passed" => Right(argument)
                  /\ pc = "error" => ~Right(argument)

BitsInv == BitsTypeOK /\ Counted /\ LoopsRight /\ VerdictIsExact

LEMMA WidthParts ==
  /\ Width \in Nat /\ Width > 0
  /\ Width \div 4 \in Nat /\ Width \div 2 \in Nat
  /\ Width = 4 * (Width \div 4) /\ Width = 2 * (Width \div 2)
BY BitLoopsAssumption

LEMMA WordsAreFinite ==
  ASSUME NEW w \in SUBSET Bits
  PROVE  IsFiniteSet(w) /\ Cardinality(w) \in 0..Width
<1>1. IsFiniteSet(Bits) /\ Cardinality(Bits) = Width
  BY WidthParts, FS_Interval DEF Bits
<1>2. IsFiniteSet(w) /\ Cardinality(w) <= Width
  BY <1>1, FS_Subset
<1> QED BY <1>2, WidthParts, FS_CardinalityType

LEMMA BitsAreNumbers == \A b \in Bits : b \in Int
BY WidthParts DEF Bits

LEMMA LowestBit ==
  ASSUME NEW w \in SUBSET Nat, w # {}
  PROVE  Min(w) \in w /\ \A b \in w : Min(w) <= b
<1>1. IsWellFoundedOn({ss \in Nat \X Nat : ss[1] < ss[2]}, Nat)
  BY NatLessThanWellFounded DEF OpToRel
<1>2. PICK a \in w : \A b \in w : <<b, a>> \notin {ss \in Nat \X Nat : ss[1] < ss[2]}
  BY <1>1, WFMin
<1>3. ASSUME NEW b \in w PROVE a =< b
  <2>1. ~(b < a)
    BY <1>2
  <2> QED BY <2>1
<1> QED BY <1>3 DEF Min

LEMMA HighestBit ==
  ASSUME NEW w \in SUBSET Bits, w # {}
  PROVE  \E a \in w : \A b \in w : b <= a
<1> DEFINE gaps == {Width - b : b \in w}
<1>1. gaps \in SUBSET Nat /\ gaps # {}
  <2>1. \A b \in w : Width - b \in Nat
    BY WidthParts DEF Bits
  <2> QED BY <2>1
<1>2. Min(gaps) \in gaps /\ \A g \in gaps : Min(gaps) <= g
  <2> HIDE DEF gaps
  <2> QED BY <1>1, LowestBit
<1>3. PICK a \in w : Min(gaps) = Width - a
  BY <1>2
<1>4. ASSUME NEW b \in w PROVE b <= a
  <2>1. Width - a <= Width - b
    BY <1>2, <1>3
  <2> QED BY <2>1, WidthParts DEF Bits
<1> QED BY <1>4

LEMMA Moved ==
  ASSUME NEW w \in SUBSET Int, NEW d \in Int, IsFiniteSet(w)
  PROVE  /\ IsFiniteSet({b - d : b \in w})
         /\ Cardinality({b - d : b \in w}) = Cardinality(w)
<1> DEFINE f == [b \in w |-> b - d]
<1>1. f \in [w -> {b - d : b \in w}] /\ \A t \in {b - d : b \in w} : \E b \in w : f[b] = t
  OBVIOUS
<1>2. \A a, b \in w : f[a] = f[b] => a = b
  OBVIOUS
<1>3. f \in Bijection(w, {b - d : b \in w})
  <2> HIDE DEF f
  <2> QED BY <1>1, <1>2 DEF Bijection, Injection, Surjection, IsInjective
<1>4. ExistsBijection(w, {b - d : b \in w})
  BY <1>3 DEF ExistsBijection
<1> QED BY <1>4, FS_Bijection

(* n >> 1 drops the lowest bit of the word and keeps the number of others.   *)
LEMMA ShiftCounts ==
  ASSUME NEW w \in SUBSET Bits
  PROVE  /\ shift(w) \in SUBSET Bits
         /\ Cardinality(shift(w)) = Cardinality(w) - (IF 0 \in w THEN 1 ELSE 0)
<1>1. shift(w) \in SUBSET Bits
  BY WidthParts DEF shift, Bits
<1>2. IsFiniteSet(w) /\ Cardinality(w) \in Nat
  BY WordsAreFinite
<1>3. /\ IsFiniteSet(w \ {0})
      /\ Cardinality(w \ {0}) = Cardinality(w) - (IF 0 \in w THEN 1 ELSE 0)
  BY <1>2, FS_RemoveElement
<1>4. w \ {0} \in SUBSET Int
  BY WidthParts DEF Bits
<1>5. Cardinality(shift(w)) = Cardinality(w \ {0})
  <2>1. PICK d \in Int : d = 1
    OBVIOUS
  <2>2. Cardinality({b - d : b \in w \ {0}}) = Cardinality(w \ {0})
    BY <1>3, <1>4, Moved, Zenon
  <2>3. shift(w) = {b - d : b \in w \ {0}}
    BY <2>1 DEF shift
  <2> QED BY <2>2, <2>3
<1> QED BY <1>1, <1>3, <1>5

(* n & (n - 1) clears the lowest one of the word and nothing else.           *)
LEMMA ClearsLowest ==
  ASSUME NEW w \in SUBSET Bits, w # {}
  PROVE  /\ Min(w) \in w
         /\ w \cap decrement(w) = w \ {Min(w)}
         /\ Cardinality(w \cap decrement(w)) = Cardinality(w) - 1
<1>1. w \in SUBSET Nat
  BY WidthParts DEF Bits
<1>2. Min(w) \in w /\ \A b \in w : Min(w) <= b
  BY <1>1, LowestBit
<1>3. ASSUME NEW b \in w PROVE b \notin 0..(Min(w) - 1)
  <2>1. Min(w) \in Nat /\ b \in Nat /\ Min(w) <= b
    BY <1>1, <1>2
  <2> QED BY <2>1
<1>4. w \cap decrement(w) = w \ {Min(w)}
  <2>1. Min(w) \notin decrement(w)
    BY <1>2, <1>3 DEF decrement
  <2> QED BY <1>3, <2>1 DEF decrement
<1> QED BY <1>2, <1>4, WordsAreFinite, FS_RemoveElement

LEMMA InvertCounts ==
  ASSUME NEW w \in SUBSET Bits
  PROVE  invert(w) \in SUBSET Bits /\ Cardinality(invert(w)) = Width - Cardinality(w)
<1>1. IsFiniteSet(Bits) /\ Cardinality(Bits) = Width
  BY WidthParts, FS_Interval DEF Bits
<1>2. Bits \cap w = w
  OBVIOUS
<1>3. Cardinality(Bits \ w) = Cardinality(Bits) - Cardinality(Bits \cap w)
  BY <1>1, FS_Difference
<1> QED BY <1>1, <1>2, <1>3 DEF invert

(* The ones of a word from a to c, and of two halves of that.                *)
OnesIn(w, a, c) == Cardinality(w \cap a..c)

LEMMA OnesInType ==
  ASSUME NEW w \in SUBSET Bits, NEW a, NEW c
  PROVE  OnesIn(w, a, c) \in Nat
BY WordsAreFinite, FS_Intersection, FS_CardinalityType DEF OnesIn

LEMMA HalvesCount ==
  ASSUME NEW w \in SUBSET Bits, NEW a \in Int, NEW e \in Int, NEW m \in Int, NEW c \in Int,
         a <= m, m <= c + 1, e = m - 1
  PROVE  OnesIn(w, a, c) = OnesIn(w, a, e) + OnesIn(w, m, c)
<1> DEFINE low == w \cap a..e
           high == w \cap m..c
<1>1. IsFiniteSet(low) /\ IsFiniteSet(high)
  BY WordsAreFinite, FS_Intersection
<1>2. low \cup high = w \cap a..c /\ low \cap high = {}
  BY WidthParts DEF Bits
<1>3. Cardinality(low) \in Nat /\ Cardinality(high) \in Nat
  BY OnesInType DEF OnesIn
<1>4. Cardinality(low \cup high) = Cardinality(low) + Cardinality(high) - Cardinality(low \cap high)
  <2> HIDE DEF low, high
  <2> QED BY <1>1, FS_Union
<1>5. Cardinality(low \cap high) = 0
  <2> HIDE DEF low, high
  <2> QED BY <1>2, FS_EmptySet, Zenon
<1>6. Cardinality(low \cup high) = Cardinality(low) + Cardinality(high)
  BY <1>3, <1>4, <1>5
<1> QED BY <1>2, <1>6 DEF OnesIn

(* What a table says of a part of the word is the number of ones there.      *)
LEMMA TableCounts ==
  ASSUME NEW w \in SUBSET Bits, NEW k \in Nat, NEW size \in Nat
  PROVE  compute_bits(size)[part(w, k, size)] = OnesIn(w, k * size, k * size + size - 1)
<1>1. PICK a \in Int : a = k * size
  OBVIOUS
<1> DEFINE v == w \cap a..(a + size - 1)
<1>2. part(w, k, size) = {b - a : b \in v}
  BY <1>1 DEF part
<1>3. v \in SUBSET Int /\ IsFiniteSet(v)
  BY WordsAreFinite, FS_Intersection, WidthParts DEF Bits
<1>4. Cardinality({b - a : b \in v}) = Cardinality(v)
  <2> HIDE DEF v
  <2> QED BY <1>3, Moved, Zenon
<1>5. {b - a : b \in v} \in SUBSET (0..(size - 1))
  OBVIOUS
<1>6. compute_bits(size)[part(w, k, size)] = Cardinality(part(w, k, size))
  BY <1>2, <1>5 DEF compute_bits
<1> QED BY <1>1, <1>2, <1>4, <1>6 DEF OnesIn

LEMMA TablesCount ==
  ASSUME NEW w \in SUBSET Bits
  PROVE  /\ precomputed_bitcount(w) = Cardinality(w)
         /\ precomputed16_bitcount(w) = Cardinality(w)
<1> DEFINE q == Width \div 4
           h == Width \div 2
<1>1. q \in Nat /\ h \in Nat /\ Width = 4 * q /\ Width = 2 * h /\ Width > 0
  BY WidthParts
<1>2. Cardinality(w) = OnesIn(w, 0, Width - 1)
  <2>1. w \cap 0..(Width - 1) = w
    BY DEF Bits
  <2> QED BY <2>1, Zenon DEF OnesIn
<1> HIDE DEF q, h
<1>3. precomputed_bitcount(w) = Cardinality(w)
  <2>1. precomputed_bitcount(w) = OnesIn(w, 0 * q, 0 * q + q - 1)
                                  + OnesIn(w, 1 * q, 1 * q + q - 1)
                                  + OnesIn(w, 2 * q, 2 * q + q - 1)
                                  + OnesIn(w, 3 * q, 3 * q + q - 1)
    BY <1>1, TableCounts DEF precomputed_bitcount, bits_in_char, q
  <2>2. precomputed_bitcount(w) = OnesIn(w, 0, q - 1) + OnesIn(w, q, 2 * q - 1)
                                  + OnesIn(w, 2 * q, 3 * q - 1) + OnesIn(w, 3 * q, Width - 1)
    BY <1>1, <2>1
  <2>3. /\ OnesIn(w, 0, Width - 1) = OnesIn(w, 0, 2 * q - 1) + OnesIn(w, 2 * q, Width - 1)
        /\ OnesIn(w, 0, 2 * q - 1) = OnesIn(w, 0, q - 1) + OnesIn(w, q, 2 * q - 1)
        /\ OnesIn(w, 2 * q, Width - 1) = OnesIn(w, 2 * q, 3 * q - 1) + OnesIn(w, 3 * q, Width - 1)
    BY <1>1, HalvesCount
  <2>4. \A a, c : OnesIn(w, a, c) \in Nat
    BY OnesInType
  <2> QED BY <1>2, <2>2, <2>3, <2>4
<1>4. precomputed16_bitcount(w) = Cardinality(w)
  <2>1. precomputed16_bitcount(w) = OnesIn(w, 0 * h, 0 * h + h - 1)
                                    + OnesIn(w, 1 * h, 1 * h + h - 1)
    BY <1>1, TableCounts DEF precomputed16_bitcount, bits_in_16bits, h
  <2>2. precomputed16_bitcount(w) = OnesIn(w, 0, h - 1) + OnesIn(w, h, Width - 1)
    BY <1>1, <2>1
  <2>3. OnesIn(w, 0, Width - 1) = OnesIn(w, 0, h - 1) + OnesIn(w, h, Width - 1)
    BY <1>1, HalvesCount
  <2> QED BY <1>2, <2>2, <2>3
<1> QED BY <1>3, <1>4

LEMMA ArgumentIsWord ==
  ASSUME argument \in Arguments
  PROVE  argument \in SUBSET Bits
BY BitLoopsAssumption

LEMMA InitBitsInv == BitsInit => BitsInv
<1> SUFFICES ASSUME BitsInit PROVE BitsInv
  OBVIOUS
<1>1. argument \in SUBSET Bits /\ Cardinality(argument) \in 0..Width
  BY ArgumentIsWord, WordsAreFinite DEF BitsInit
<1>2. -1 \in -1..Width /\ 0 \in 0..Width
  BY WidthParts
<1> QED BY <1>1, <1>2 DEF BitsInit, BitsInv, BitsTypeOK, Counted, LoopsRight, Through,
                          VerdictIsExact, Loops

LEMMA LoopStep ==
  ASSUME BitsInv, iterated_bitcount \/ sparse_ones_bitcount \/ dense_ones_bitcount
  PROVE  BitsInv' /\ Below(word', word)
<1>1. /\ word \in SUBSET Bits /\ word # {} /\ ones \in 0..Width
      /\ argument' = argument /\ pc' = pc /\ returned' = returned /\ pc \in Loops
  BY DEF BitsInv, BitsTypeOK, iterated_bitcount, sparse_ones_bitcount, dense_ones_bitcount,
         Loops
<1>2. /\ Cardinality(word) \in 0..Width /\ Cardinality(argument) \in 0..Width
      /\ argument \in SUBSET Bits /\ Width \in Nat
  BY <1>1, ArgumentIsWord, WordsAreFinite, WidthParts DEF BitsInv, BitsTypeOK
<1>3. /\ word' \in SUBSET Bits /\ Below(word', word)
      /\ \/ pc \in {"iterated", "sparse"}
              /\ ones' + Cardinality(word') = ones + Cardinality(word)
         \/ pc = "dense" /\ ones' - Cardinality(word') = ones - Cardinality(word)
      /\ ones' \in Int /\ Cardinality(word') \in 0..Width
      /\ IF pc = "dense" THEN ones' <= ones ELSE ones' >= ones
  <2>1. CASE iterated_bitcount
    <3>1. /\ shift(word) \in SUBSET Bits
          /\ Cardinality(shift(word)) = Cardinality(word) - (IF 0 \in word THEN 1 ELSE 0)
      BY <1>1, ShiftCounts
    <3>2. Below(shift(word), word)
      <4>1. PICK b \in word : \A c \in word : c <= b
        BY <1>1, HighestBit
      <4>2. \A c \in Bits : c >= b => c \notin shift(word)
        <5>1. SUFFICES ASSUME NEW c \in Bits, c >= b, c \in shift(word) PROVE FALSE
          OBVIOUS
        <5>2. PICK d \in word : c = d - 1
          BY <5>1 DEF shift
        <5> QED BY <1>1, <4>1, <5>1, <5>2 DEF Bits
      <4>3. \A c \in Bits : c > b => c \notin word
        BY <1>1, <4>1, WidthParts DEF Bits
      <4>4. b \in Int /\ \A c \in Bits : c \in Int
        BY <1>1, WidthParts DEF Bits
      <4> QED BY <1>1, <4>1, <4>2, <4>3, <4>4 DEF Below
    <3>3. Cardinality(shift(word)) \in 0..Width
      BY <3>1, WordsAreFinite
    <3> QED BY <1>1, <1>2, <2>1, <3>1, <3>2, <3>3 DEF iterated_bitcount
  <2>2. CASE sparse_ones_bitcount \/ dense_ones_bitcount
    <3>1. /\ Min(word) \in word /\ word \cap decrement(word) = word \ {Min(word)}
          /\ Cardinality(word \cap decrement(word)) = Cardinality(word) - 1
      BY <1>1, ClearsLowest
    <3>2. word' = word \cap decrement(word) /\ word' \in SUBSET Bits
      BY <1>1, <2>2 DEF sparse_ones_bitcount, dense_ones_bitcount
    <3>3. Cardinality(word') \in 0..Width
      BY <3>2, WordsAreFinite
    <3>4. Below(word', word)
      <4>1. \A c \in Bits : c > Min(word) => (c \in word' <=> c \in word)
        <5>1. Min(word) \in Int
          <6>1. Min(word) \in Bits
            BY <1>1, <3>1, Zenon
          <6> QED BY <6>1, BitsAreNumbers
        <5> QED BY <3>1, <3>2, <5>1
      <4> QED BY <3>1, <3>2, <4>1 DEF Below
    <3> QED BY <1>1, <1>2, <2>2, <3>1, <3>2, <3>3, <3>4
            DEF sparse_ones_bitcount, dense_ones_bitcount
  <2> QED BY <2>1, <2>2
<1>4. Counted'
  BY <1>1, <1>2, <1>3 DEF BitsInv, Counted
<1>5. ones' \in 0..Width
  BY <1>1, <1>2, <1>3, <1>4 DEF Counted, Loops
<1>6. BitsTypeOK' /\ LoopsRight' /\ VerdictIsExact'
  BY <1>1, <1>3, <1>5 DEF BitsInv, BitsTypeOK, LoopsRight, Through, VerdictIsExact
<1> QED BY <1>3, <1>4, <1>6 DEF BitsInv

LEMMA ReturnStep ==
  ASSUME BitsInv, ReturnOnes
  PROVE  BitsInv'
<1>1. /\ argument \in SUBSET Bits /\ Cardinality(argument) \in 0..Width
      /\ argument' = argument /\ word = {} /\ ones \in 0..Width /\ Width \in Nat
  BY ArgumentIsWord, WordsAreFinite, WidthParts DEF BitsInv, BitsTypeOK, ReturnOnes
<1>2. ones = Cardinality(argument)
  BY <1>1, FS_EmptySet DEF BitsInv, Counted, ReturnOnes, Loops
<1>3. returned' \in [Loops -> -1..Width] /\ returned' = [returned EXCEPT ![pc] = ones]
  BY <1>1 DEF BitsInv, BitsTypeOK, ReturnOnes
<1>4. invert(argument) \in SUBSET Bits
      /\ Cardinality(invert(argument)) = Width - Cardinality(argument)
  BY <1>1, InvertCounts
<1>5. \/ pc = "iterated" /\ pc' = "sparse" /\ word' = argument /\ ones' = 0
      \/ pc = "sparse" /\ pc' = "dense" /\ word' = invert(argument) /\ ones' = Width
      \/ pc = "dense" /\ pc' = "compare" /\ word' = word /\ ones' = ones
  BY DEF ReturnOnes, Loops, After, StartLoop
<1>6. BitsTypeOK'
  BY <1>1, <1>3, <1>4, <1>5 DEF BitsInv, BitsTypeOK, Loops
<1>7. Counted'
  BY <1>1, <1>4, <1>5 DEF Counted
<1>8. LoopsRight'
  BY <1>1, <1>2, <1>3, <1>5 DEF BitsInv, BitsTypeOK, LoopsRight, Through, Loops
<1>9. VerdictIsExact'
  BY <1>5 DEF VerdictIsExact
<1> QED BY <1>6, <1>7, <1>8, <1>9 DEF BitsInv

LEMMA VerifyStep ==
  ASSUME BitsInv, verify_bitcounts
  PROVE  BitsInv'
<1>1. argument \in SUBSET Bits
  BY ArgumentIsWord DEF BitsInv, BitsTypeOK
<1>2. \A loop \in Loops : returned[loop] = Cardinality(argument)
  BY DEF BitsInv, LoopsRight, Through, Loops, verify_bitcounts
<1>3. Right(argument) <=> Agree
  BY <1>1, <1>2, TablesCount DEF Agree, Right, Loops
<1> QED BY <1>3 DEF BitsInv, BitsTypeOK, Counted, LoopsRight, Through, VerdictIsExact, Loops,
                    verify_bitcounts

LEMMA BitsInvHolds == BitsSpec => []BitsInv
<1>1. BitsInv /\ [BitsNext]_bitVars => BitsInv'
  <2>1. CASE UNCHANGED bitVars \/ Verified
    BY <2>1 DEF Verified, bitVars, BitsInv, BitsTypeOK, Counted, LoopsRight, Through,
                VerdictIsExact
  <2>2. CASE BitsNext
    BY <2>1, <2>2, LoopStep, ReturnStep, VerifyStep DEF BitsNext
  <2> QED BY <2>1, <2>2
<1> QED BY <1>1, InitBitsInv, PTL DEF BitsSpec

(* For any width: the three loops return the number of ones, whatever the    *)
(* word, and the verdict of verify_bitcounts is exact: it prints an ERROR if *)
(* and only if one of the three arithmetic functions does not return the     *)
(* number of ones.  The tables never cause one, and wrong results that agree *)
(* with each other never pass.                                              *)
THEOREM LoopsAndTablesAreRight ==
  BitsSpec => [](BitsTypeOK /\ LoopsRight /\ VerdictIsExact)
<1>1. BitsInv => BitsTypeOK /\ LoopsRight /\ VerdictIsExact
  BY DEF BitsInv
<1> QED BY <1>1, BitsInvHolds, PTL

(* Every iteration of the three loops leaves a smaller word, whatever the    *)
(* width: all three end for every argument.                                 *)
THEOREM EveryLoopDescends == BitsSpec => LoopsDescend
<1>1. BitsInv /\ [BitsNext]_bitVars =>
        [(pc \in Loops /\ pc' = pc) => Below(word', word)]_bitVars
  <2> SUFFICES ASSUME BitsInv, BitsNext, pc \in Loops, pc' = pc
               PROVE  Below(word', word)
    OBVIOUS
  <2>1. ~ReturnOnes /\ ~verify_bitcounts /\ ~Verified
    BY DEF ReturnOnes, verify_bitcounts, Verified, Loops, After
  <2> QED BY <2>1, LoopStep DEF BitsNext
<1> QED BY <1>1, BitsInvHolds, PTL DEF BitsSpec, LoopsDescend
==============================================================================
