---------------------------- MODULE ParrotDriver ----------------------------
(***************************************************************************)
(* 14_parrot_driver/parrot_driver/parrot_driver.c: messages are written to  *)
(* a sysfs entry and read, one at a time, from the device.  Their bytes are *)
(* kept in a kfifo, their lengths in a circular table.                      *)
(*                                                                          *)
(* The device mutex is to admit one reader; nothing keeps sysfs calls from  *)
(* overlapping it or each other.  A call is a sequence of accesses to fifo  *)
(* and table.  So are insmod and rmmod, which overlap the calls as well.    *)
(* The history variable torn is raised by the overlaps that may separate     *)
(* fifo and table, and lowered by what puts the driver right again.         *)
(* A byte is the number of the message it belongs to.  kfifo is the         *)
(* kernel's; its operations are atomic.                                     *)
(***************************************************************************)
EXTENDS Naturals, Sequences, FiniteSets, SequencesExt, FiniteSetsExt

CONSTANTS Readers, Writers,      \* processes at the device, and at sysfs
          PARROT_MSG_FIFO_SIZE, PARROT_MSG_FIFO_MAX,
          OneShot,               \* the module parameter one_shot
          Lengths, MaxMessages   \* bounds: of a message, and on their number

ASSUME ParrotDriverAssumption ==
  /\ IsFiniteSet(Readers) /\ IsFiniteSet(Writers)
  /\ PARROT_MSG_FIFO_SIZE \in Nat \ {0} /\ PARROT_MSG_FIFO_MAX \in Nat \ {0}
  /\ OneShot \in BOOLEAN
  /\ Lengths \subseteq Nat \ {0} /\ MaxMessages \in Nat

VARIABLES module, files,   \* how far insmod or rmmod has come; the sysfs entries
          fifo, msg_len, idx_rd, idx_wr, message_read,
          locked, open,    \* the device mutex, and the readers with the device open
          rpc, wpc,        \* where each read, and each sysfs call, stands
          count,           \* count[w], then copied, of sys_add_to_fifo
          torn, sent, got  \* history: sent are the lengths put in, got what was read

table == <<msg_len, idx_rd, idx_wr>>
setup == <<module, files>>
calls == <<rpc, wpc, count>>
history == <<torn, sent, got>>
parrotVars == <<setup, fifo, table, message_read, locked, open, calls, history>>

Slots == 0 .. PARROT_MSG_FIFO_MAX - 1
Next1(idx) == (idx + 1) % PARROT_MSG_FIFO_MAX

ParrotInit == /\ module = "out" /\ files = {}
              /\ fifo = <<>> /\ msg_len = [i \in Slots |-> 0] /\ idx_rd = 0 /\ idx_wr = 0
              /\ message_read = FALSE /\ locked = FALSE /\ open = {}
              /\ rpc = [r \in Readers |-> "idle"] /\ wpc = [w \in Writers |-> "idle"]
              /\ count = [w \in Writers |-> 0]
              /\ torn = FALSE /\ sent = <<>> /\ got = <<>>

Reading == {r \in Readers : rpc[r] # "idle"}
Writing == {w \in Writers : wpc[w] # "idle"}
Resetting == {w \in Writers : wpc[w] = "reset"}

(* Whether INIT_KFIFO, and the assignment to the indices, are still to come. *)
FifoRaw == module \in {"device", "fifo file", "files", "mutex"}
Early == FifoRaw \/ module = "kfifo"
-----------------------------------------------------------------------------
(* parrot_module_init.  What fails before the device exists is undone, most  *)
(* recent first; a sysfs entry that cannot be created is done without.       *)
Step(before, after) == module = before /\ module' = after

Register == \/ Step("out", "chrdev")
            \/ Step("chrdev", "class") \/ Step("class", "device")
            \/ Step("chrdev", "out") \/ Step("class", "out")

CreateFile(file) == files' \in {files, files \cup {file}}

SetUp ==
  \/ /\ Register
     /\ UNCHANGED <<files, fifo, table, message_read, locked, open, calls, history>>
  \/ /\ \/ Step("device", "fifo file") /\ CreateFile("fifo")
        \/ Step("fifo file", "files") /\ CreateFile("reset")
     /\ UNCHANGED <<fifo, table, message_read, locked, open, calls, history>>
  \/ /\ Step("files", "mutex")
     /\ locked' = FALSE
     /\ torn' = (torn \/ open # {})
     /\ UNCHANGED <<files, fifo, table, message_read, open, calls, sent, got>>
  \/ /\ Step("mutex", "kfifo")
     /\ fifo' = <<>>
     /\ UNCHANGED <<files, table, message_read, locked, open, calls, history>>
  \/ /\ Step("kfifo", "in")
     /\ idx_rd' = 0 /\ idx_wr' = 0
     /\ UNCHANGED <<files, fifo, msg_len, message_read, locked, open, calls, history>>

(* parrot_module_exit.  Removing a sysfs entry waits for the calls inside;   *)
(* the device, whose fops name no owner, is removed under an open reader,    *)
(* who is cut off.  The next insmod finds all variables as at first.         *)
RemoveFile(file, inside) == /\ \A w \in Writers : wpc[w] \notin inside
                            /\ files' = files \ {file}

TearDown ==
  \/ /\ \/ Step("in", "no fifo") /\ RemoveFile("fifo", {"in", "len", "advance"})
        \/ Step("no fifo", "no files") /\ RemoveFile("reset", {"reset"})
     /\ UNCHANGED <<fifo, table, message_read, locked, open, calls, history>>
  \/ /\ Step("no files", "out")
     /\ fifo' = <<>> /\ msg_len' = [i \in Slots |-> 0] /\ idx_rd' = 0 /\ idx_wr' = 0
     /\ message_read' = FALSE /\ locked' = FALSE /\ open' = {}
     /\ rpc' = [r \in Readers |-> "idle"]
     /\ torn' = FALSE /\ sent' = <<>> /\ got' = <<>>
     /\ UNCHANGED <<files, wpc, count>>
-----------------------------------------------------------------------------
DeviceExists == module \notin {"out", "chrdev", "class"}

parrot_device_open(r) ==
  /\ DeviceExists /\ r \notin open /\ ~locked
  /\ locked' = TRUE /\ open' = open \cup {r}
  /\ message_read' = FALSE
  /\ UNCHANGED <<setup, fifo, table, calls, history>>

parrot_device_close(r) ==
  /\ r \in open /\ rpc[r] = "idle"
  /\ locked' = FALSE /\ open' = open \ {r}
  /\ UNCHANGED <<setup, fifo, table, message_read, calls, history>>

(* ~torn in the guards of reads and writes is a bound, as MaxMessages is: a   *)
(* torn driver is not called again before it is mended, which would leave     *)
(* nothing of what these calls do.                                          *)
ReadTo(r, before, after) == rpc[r] = before /\ rpc' = [rpc EXCEPT ![r] = after]

ReadEnter(r) ==
  /\ ~torn /\ r \in open /\ ReadTo(r, "idle", "copy")
  /\ ~(OneShot /\ message_read) /\ fifo # <<>>
  /\ torn' = (torn \/ Early \/ Resetting # {})
  /\ UNCHANGED <<setup, fifo, table, message_read, locked, open, wpc, count, sent, got>>

(* kfifo_to_user takes out as many bytes as the table says, or all there are. *)
(* Its caller meets a message whose length is not in the table yet.          *)
LengthMissing == idx_rd = idx_wr /\ \E w \in Writers : wpc[w] = "len"

ReadCopy(r) ==
  LET n == Min({msg_len[idx_rd], Len(fifo)}) IN
  /\ ReadTo(r, "copy", "advance")
  /\ got' = Append(got, SubSeq(fifo, 1, n))
  /\ fifo' = SubSeq(fifo, n + 1, Len(fifo))
  /\ torn' = (torn \/ LengthMissing)
  /\ UNCHANGED <<setup, table, message_read, locked, open, wpc, count, sent>>

(* The reader's memory faults after k bytes, which are all that is taken out; *)
(* the table moves on regardless.                                           *)
ReadFault(r) ==
  /\ ReadTo(r, "copy", "advance")
  /\ \E k \in 0 .. Min({msg_len[idx_rd], Len(fifo)}) - 1 :
       fifo' = SubSeq(fifo, k + 1, Len(fifo))
  /\ torn' = TRUE
  /\ UNCHANGED <<setup, table, message_read, locked, open, wpc, count, sent, got>>

(* Seeded bug: the index of the table does not wrap where the table ends.    *)
ReadAdvanceEarlyWrap(r) ==
  /\ ReadTo(r, "advance", "idle")
  /\ idx_rd' = IF idx_rd + 2 >= PARROT_MSG_FIFO_MAX THEN 0 ELSE idx_rd + 1
  /\ message_read' = TRUE
  /\ UNCHANGED <<setup, fifo, msg_len, idx_wr, locked, open, wpc, count, history>>

ReadAdvance(r) ==
  /\ ReadTo(r, "advance", "idle")
  /\ idx_rd' = Next1(idx_rd) /\ message_read' = TRUE
  /\ UNCHANGED <<setup, fifo, msg_len, idx_wr, locked, open, wpc, count, history>>
-----------------------------------------------------------------------------
(* An all-zero kfifo takes itself for one of size 1.                        *)
kfifo_avail == (IF FifoRaw THEN 1 ELSE PARROT_MSG_FIFO_SIZE) - Len(fifo)

WriteTo(w, before, after) == wpc[w] = before /\ wpc' = [wpc EXCEPT ![w] = after]

(* Seeded bug: no test for room in the table.                               *)
AddEnterNoTableTest(w, n) ==
  /\ "fifo" \in files /\ WriteTo(w, "idle", "in")
  /\ ~torn /\ Len(sent) + Cardinality(Writing) < MaxMessages
  /\ kfifo_avail >= n
  /\ count' = [count EXCEPT ![w] = n]
  /\ torn' = (torn \/ Early \/ Writing # {})
  /\ UNCHANGED <<setup, fifo, table, message_read, locked, open, rpc, sent, got>>

(* The two tests are one step: what reads do in between only makes more room. *)
AddEnter(w, n) ==
  /\ "fifo" \in files /\ WriteTo(w, "idle", "in")
  /\ ~torn /\ Len(sent) + Cardinality(Writing) < MaxMessages
  /\ kfifo_avail >= n
  /\ Next1(idx_wr) # idx_rd
  /\ count' = [count EXCEPT ![w] = n]
  /\ torn' = (torn \/ Early \/ Writing # {})
  /\ UNCHANGED <<setup, fifo, table, message_read, locked, open, rpc, sent, got>>

AddIn(w) ==
  LET copied == Min({count[w], kfifo_avail}) IN
  /\ WriteTo(w, "in", "len")
  /\ count' = [count EXCEPT ![w] = copied]
  /\ sent' = Append(sent, copied)
  /\ fifo' = fifo \o [i \in 1 .. copied |-> Len(sent) + 1]
  /\ UNCHANGED <<setup, table, message_read, locked, open, rpc, torn, got>>

AddLen(w) ==
  /\ WriteTo(w, "len", "advance")
  /\ msg_len' = [msg_len EXCEPT ![idx_wr] = count[w]]
  /\ UNCHANGED <<setup, fifo, idx_rd, idx_wr, message_read, locked, open, rpc, count, history>>

AddAdvance(w) ==
  /\ WriteTo(w, "advance", "idle")
  /\ count' = [count EXCEPT ![w] = 0]
  /\ idx_wr' = Next1(idx_wr)
  /\ UNCHANGED <<setup, fifo, msg_len, idx_rd, message_read, locked, open, rpc, history>>

(* sys_reset, first kfifo_reset and then the indices.  With nobody inside a  *)
(* read or a write, and not two readers at the device, it mends the driver:  *)
(* the messages are counted anew.                                           *)
MutexHolds == Cardinality(open) = (IF locked THEN 1 ELSE 0)

ResetFifo(w) ==
  /\ "reset" \in files /\ WriteTo(w, "idle", "reset")
  /\ fifo' = <<>>
  /\ IF Reading = {} /\ Writing = {} /\ ~Early /\ MutexHolds
       THEN torn' = FALSE /\ sent' = <<>> /\ got' = <<>>
       ELSE torn' = TRUE /\ UNCHANGED <<sent, got>>
  /\ UNCHANGED <<setup, table, message_read, locked, open, rpc, count>>

(* Seeded bug: the table is not reset.                                      *)
ResetTableKept(w) ==
  /\ WriteTo(w, "reset", "idle")
  /\ idx_rd' = 0
  /\ UNCHANGED <<setup, fifo, msg_len, idx_wr, message_read, locked, open, rpc, count, history>>

ResetTable(w) ==
  /\ WriteTo(w, "reset", "idle")
  /\ idx_rd' = 0 /\ idx_wr' = 0
  /\ UNCHANGED <<setup, fifo, msg_len, message_read, locked, open, rpc, count, history>>

Device(r) == \/ parrot_device_open(r) \/ parrot_device_close(r)
             \/ ReadEnter(r) \/ ReadCopy(r) \/ ReadFault(r) \/ ReadAdvance(r)

Sysfs(w) == \/ \E n \in Lengths : AddEnter(w, n)
            \/ AddIn(w) \/ AddLen(w) \/ AddAdvance(w)
            \/ ResetFifo(w) \/ ResetTable(w)

ParrotNext == \/ SetUp \/ TearDown
              \/ \E r \in Readers : Device(r)
              \/ \E w \in Writers : Sysfs(w)

ParrotSpec == ParrotInit /\ [][ParrotNext]_parrotVars
-----------------------------------------------------------------------------
ParrotTypeOK == /\ files \subseteq {"fifo", "reset"}
                /\ fifo \in Seq(1 .. Len(sent)) /\ Len(fifo) <= PARROT_MSG_FIFO_SIZE
                /\ msg_len \in [Slots -> 0 .. PARROT_MSG_FIFO_SIZE]
                /\ idx_rd \in Slots /\ idx_wr \in Slots
                /\ message_read \in BOOLEAN /\ locked \in BOOLEAN /\ open \subseteq Readers
                /\ rpc \in [Readers -> {"idle", "copy", "advance"}]
                /\ wpc \in [Writers -> {"idle", "in", "len", "advance", "reset"}]
                /\ count \in [Writers -> 0 .. PARROT_MSG_FIFO_SIZE]
                /\ torn \in BOOLEAN

Whole(m) == [b \in 1 .. sent[m] |-> m]

(* Every read returns one message, whole, and in the order written, while    *)
(* writes, reads, opens and closes overlap: only the overlaps that raise     *)
(* torn shift the table against the bytes, and a quiet reset mends it.       *)
(* (parrot_driver.c:48, "This table keeps track of each message length in    *)
(* the FIFO".)                                                              *)
MessagesArriveWhole ==
  ~torn => /\ \A i \in DOMAIN got : \E m \in DOMAIN sent : got[i] = Whole(m)
           /\ \A i, j \in DOMAIN got : i < j => got[i][1] < got[j][1]

(* Between calls the table is empty exactly when the fifo is, and its first  *)
(* entry is the length of the first message: a read is neither refused with  *)
(* a message there nor short.                                               *)
TableTracksFifo ==
  ~torn /\ Reading = {} /\ Writing = {} /\ ~Early =>
    /\ fifo = <<>> <=> idx_rd = idx_wr
    /\ fifo # <<>> => LET m == fifo[1] IN
         msg_len[idx_rd] = sent[m] /\ SubSeq(fifo, 1, sent[m]) = Whole(m)

(* parrot_driver.c:44 "A mutex will ensure that only one process accesses    *)
(* our device", from the moment the device can be opened.                    *)
OneReader == Cardinality(open) <= 1

(* A module is not removed under a process that has its device open.         *)
NobodyCutOff == [][module' = "out" => open = {}]_parrotVars
=============================================================================
