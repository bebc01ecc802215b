----------------------------- MODULE SxiBuffer -----------------------------
(***************************************************************************)
(* The driver modules/sxi_sim_driver.c: a circular buffer filled by the    *)
(* interrupt handler, which drains the FIFO of the device, or by sxi_write *)
(* with test data, and emptied by sxi_read.  There is one processor: the   *)
(* handler runs to its end while every process is stopped, and a process   *)
(* can be stopped between any two of its steps.  Nothing takes a lock.     *)
(* Counts are in words of two bytes.  Words are numbered from 1 in the     *)
(* order they are put.                                                     *)
(***************************************************************************)
EXTENDS Integers, Sequences

CONSTANTS
  CB_SIZE,          \* 1024 in the driver, a power of two
  Readers,          \* processes that call read()
  MaxCount,         \* the most words a call asks for
  NWords,           \* words the device produces
  NWritten          \* words written by the process that calls write()

ASSUME SxiAssumption ==
  /\ CB_SIZE \in Nat /\ CB_SIZE >= 2
  /\ MaxCount \in Nat \ {0} /\ NWords \in Nat /\ NWritten \in Nat

VARIABLES
  head, tail, overflow, data,    \* struct sxi_cb
  arrived, handled,              \* words that reached the device FIFO, and that left it
  irq,                           \* the handler is running
  pc, count, bytes, got,         \* each reader: its place in sxi_read, words asked
                                 \* for still, words of this round, the words copied
  wpc, wcount, wword,            \* the writer: place, words left, words put
  wslot, wover,                  \* what it read of b->head and of b->overflow
  taken,                         \* history: words copied out and dropped, in order
  raced                          \* history: a put of the handler met one of the writer

cbvars == <<head, tail, overflow, data>>
devvars == <<arrived, handled, irq>>
rdvars == <<pc, count, bytes, got>>
wrvars == <<wpc, wcount, wword, wslot, wover>>
hvars == <<taken, raced>>
vars == <<cbvars, devvars, rdvars, wrvars, hvars>>

Index == 0..(CB_SIZE - 1)
Least(a, b) == IF a <= b THEN a ELSE b
And(n) == n % CB_SIZE     \* n & (CB_SIZE-1)

\* linux/circ_buf.h
CIRC_CNT == And(head - tail)
CIRC_SPACE == And(tail - (head + 1))
CIRC_CNT_TO_END == Least(CIRC_CNT, CB_SIZE - tail)

Init ==
  /\ head = 0 /\ tail = 0 /\ overflow = 0
  /\ data = [i \in Index |-> 0]
  /\ arrived = 0 /\ handled = 0 /\ irq = FALSE
  /\ pc = [r \in Readers |-> "idle"]
  /\ count = [r \in Readers |-> 0] /\ bytes = [r \in Readers |-> 0]
  /\ got = [r \in Readers |-> <<>>]
  /\ wpc = "idle" /\ wcount = 0 /\ wword = 0 /\ wslot = 0 /\ wover = 0
  /\ taken = <<>> /\ raced = FALSE

\* Mutant of cb_put: the last free slot is used, so a full buffer looks empty.
cb_put_lastSlot(d) ==
  /\ data' = [data EXCEPT ![head] = d]
  /\ head' = And(head + 1)
  /\ UNCHANGED <<overflow, tail>>

\* Mutant of cb_put: a word that does not fit is not counted.
cb_put_silent(d) ==
  /\ \/ CIRC_SPACE = 0 /\ UNCHANGED <<overflow, data, head>>
     \/ /\ CIRC_SPACE # 0
        /\ data' = [data EXCEPT ![head] = d]
        /\ head' = And(head + 1)
        /\ UNCHANGED overflow
  /\ UNCHANGED tail

cb_put(d) ==
  /\ \/ /\ CIRC_SPACE = 0
        /\ overflow' = overflow + 1
        /\ UNCHANGED <<data, head>>
     \/ /\ CIRC_SPACE # 0
        /\ data' = [data EXCEPT ![head] = d]
        /\ head' = And(head + 1)
        /\ UNCHANGED overflow
  /\ UNCHANGED tail

Words == handled + wword     \* the words put so far

\* wake_up_interruptible( &ldev->wait )
WakeUp == pc' = [r \in Readers |-> IF pc[r] = "sleep" THEN "wait" ELSE pc[r]]

\* The device: a word enters its FIFO, which is as large as need be here.
Arrive ==
  /\ arrived < NWords
  /\ arrived' = arrived + 1
  /\ UNCHANGED <<cbvars, handled, irq, rdvars, wrvars, hvars>>

\* sxi_interrupt: entry, one turn of the while loop, and the end of it.
IrqEnter ==
  /\ ~irq /\ handled < arrived
  /\ irq' = TRUE
  /\ UNCHANGED <<cbvars, arrived, handled, rdvars, wrvars, hvars>>

\* It meets a put of the writer between its test for room and its new head, or
\* counts an overflow while the writer is counting one.
IrqPut ==
  /\ irq /\ handled < arrived
  /\ cb_put(Words + 1)
  /\ handled' = handled + 1
  /\ raced' = \/ raced
              \/ wpc \in {"store", "advance"}
              \/ wpc = "count" /\ CIRC_SPACE = 0
  /\ UNCHANGED <<arrived, irq, rdvars, wrvars, taken>>

\* Mutant of IrqReturn: nobody is woken.
IrqReturn_noWake ==
  /\ irq /\ handled = arrived
  /\ irq' = FALSE
  /\ UNCHANGED <<cbvars, arrived, handled, rdvars, wrvars, hvars>>

IrqReturn ==
  /\ irq /\ handled = arrived
  /\ irq' = FALSE
  /\ WakeUp
  /\ UNCHANGED <<cbvars, arrived, handled, count, bytes, got, wrvars, hvars>>
-----------------------------------------------------------------------------
(* sxi_read *)

Goto(r, l) == pc' = [pc EXCEPT ![r] = l]

\* The call ends, and so do its locals.
Return(r) ==
  /\ Goto(r, "idle")
  /\ count' = [count EXCEPT ![r] = 0] /\ bytes' = [bytes EXCEPT ![r] = 0]
  /\ got' = [got EXCEPT ![r] = <<>>]

\* The call: EINVAL for an odd count of bytes, EPIPE after an overflow, or go on.
ReadCall(r) ==
  /\ ~irq /\ pc[r] = "idle"
  /\ \/ UNCHANGED <<pc, count>>
     \/ /\ overflow = 0
        /\ \E n \in 0..MaxCount : count' = [count EXCEPT ![r] = n]
        /\ Goto(r, "wait")
  /\ UNCHANGED <<cbvars, devvars, bytes, got, wrvars, hvars>>

\* while( cb_count == 0 ) wait_event_interruptible: words, or sleep.
ReadWait(r) ==
  /\ ~irq /\ pc[r] = "wait"
  /\ Goto(r, IF CIRC_CNT_TO_END # 0 THEN "size" ELSE "sleep")
  /\ UNCHANGED <<cbvars, devvars, count, bytes, got, wrvars, hvars>>

\* A signal ends the sleep.
ReadSignal(r) ==
  /\ ~irq /\ pc[r] = "sleep"
  /\ Return(r)
  /\ UNCHANGED <<cbvars, devvars, wrvars, hvars>>

\* Mutant of ReadSize: the buffer is taken as one piece.
ReadSize_noEnd(r) ==
  /\ ~irq /\ pc[r] = "size"
  /\ LET n == Least(CIRC_CNT, count[r])
     IN  IF n = 0 THEN Return(r)
         ELSE /\ bytes' = [bytes EXCEPT ![r] = n]
              /\ Goto(r, "copy") /\ UNCHANGED <<count, got>>
  /\ UNCHANGED <<cbvars, devvars, wrvars, hvars>>

\* while( count > 0 ): how much to copy in this round; none ends the call.
ReadSize(r) ==
  /\ ~irq /\ pc[r] = "size"
  /\ LET n == Least(CIRC_CNT_TO_END, count[r])
     IN  IF n = 0 THEN Return(r)
         ELSE /\ bytes' = [bytes EXCEPT ![r] = n]
              /\ Goto(r, "copy") /\ UNCHANGED <<count, got>>
  /\ UNCHANGED <<cbvars, devvars, wrvars, hvars>>

\* The words copy_to_user reads at cb_outp: memory past the array is no word.
Window(n) == [i \in 1..n |-> IF tail + i - 1 \in Index THEN data[tail + i - 1]
                             ELSE 0]

\* copy_to_user may fault (EFAULT); the words of earlier rounds are gone then.
ReadCopy(r) ==
  /\ ~irq /\ pc[r] = "copy"
  /\ \/ /\ got' = [got EXCEPT ![r] = Window(bytes[r])]
        /\ Goto(r, "drop") /\ UNCHANGED <<count, bytes>>
     \/ Return(r)
  /\ UNCHANGED <<cbvars, devvars, wrvars, hvars>>

\* Mutant of ReadDrop: the call goes back to wait for the words still asked for.
ReadDrop_waits(r) ==
  /\ ~irq /\ pc[r] = "drop"
  /\ tail' = And(tail + bytes[r])
  /\ taken' = taken \o got[r]
  /\ count' = [count EXCEPT ![r] = @ - bytes[r]]
  /\ Goto(r, IF count[r] > bytes[r] THEN "wait" ELSE "size")
  /\ UNCHANGED <<head, overflow, data, devvars, bytes, got, wrvars, raced>>

\* cb_drop, and the next round.
ReadDrop(r) ==
  /\ ~irq /\ pc[r] = "drop"
  /\ tail' = And(tail + bytes[r])
  /\ taken' = taken \o got[r]
  /\ count' = [count EXCEPT ![r] = @ - bytes[r]]
  /\ Goto(r, "size")
  /\ UNCHANGED <<head, overflow, data, devvars, bytes, got, wrvars, raced>>

Read(r) == \/ ReadCall(r) \/ ReadWait(r) \/ ReadSignal(r)
           \/ ReadSize(r) \/ ReadCopy(r) \/ ReadDrop(r)
-----------------------------------------------------------------------------
(* sxi_write *)

WriteCall ==
  /\ ~irq /\ wpc \in {"idle", "fault"} /\ wword < NWritten
  /\ \/ UNCHANGED <<wpc, wcount>>     \* an odd count of bytes: EINVAL
     \/ wcount' \in 0..Least(MaxCount, NWritten - wword) /\ wpc' = "space"
  /\ UNCHANGED <<cbvars, devvars, rdvars, wword, wslot, wover, hvars>>

\* while( cb_space == 0 ) schedule();
WriteSpace ==
  /\ ~irq /\ wpc = "space" /\ CIRC_SPACE # 0
  /\ wpc' = "loop"
  /\ UNCHANGED <<cbvars, devvars, rdvars, wcount, wword, wslot, wover, hvars>>

\* Mutant of WriteLoop: the room is looked at once, before the loop.
WriteLoop_noSpaceCheck ==
  /\ ~irq /\ wpc = "loop"
  /\ \/ wcount = 0 /\ wpc' = "idle" /\ WakeUp
     \/ wcount > 0 /\ wpc' = "put" /\ UNCHANGED pc
  /\ UNCHANGED <<cbvars, devvars, count, bytes, got, wcount, wword, wslot,
                 wover, hvars>>

\* while( count > 0 && cb_space > 0 ): at its end the readers are woken.  A
\* fault of copy_from_user returns at once and wakes nobody.
WriteLoop ==
  /\ ~irq /\ wpc = "loop"
  /\ \/ (wcount = 0 \/ CIRC_SPACE = 0) /\ wpc' = "idle" /\ WakeUp
     \/ wcount > 0 /\ CIRC_SPACE > 0 /\ wpc' \in {"put", "fault"} /\ UNCHANGED pc
  /\ UNCHANGED <<cbvars, devvars, count, bytes, got, wcount, wword, wslot,
                 wover, hvars>>

\* cb_put once more, with the handler between any two of its steps: the test
\* for room, then the store and the new head, or the read and the write of
\* b->overflow += 1.  The compiler may read b->head once or for each of them.
WritePut ==
  /\ ~irq /\ wpc = "put"
  /\ wslot' = head
  /\ \/ CIRC_SPACE = 0 /\ wpc' = "count" /\ wover' = overflow
     \/ CIRC_SPACE # 0 /\ wpc' = "store" /\ UNCHANGED wover
  /\ UNCHANGED <<cbvars, devvars, rdvars, wcount, wword, hvars>>

WriteCount ==
  /\ ~irq /\ wpc = "count"
  /\ overflow' = wover + 1
  /\ wcount' = wcount - 1 /\ wword' = wword + 1 /\ wpc' = "loop"
  /\ UNCHANGED <<head, tail, data, devvars, rdvars, wslot, wover, hvars>>

\* Mutant of WriteStore: the word goes to the slot after the head.
WriteStore_nextSlot ==
  /\ ~irq /\ wpc = "store"
  /\ data' = [data EXCEPT ![And(head + 1)] = Words + 1]
  /\ wpc' = "advance"
  /\ UNCHANGED <<head, tail, overflow, devvars, rdvars, wcount, wword, wslot, wover, hvars>>

WriteStore ==
  /\ ~irq /\ wpc = "store"
  /\ \E slot \in {head, wslot} : data' = [data EXCEPT ![slot] = Words + 1]
  /\ wpc' = "advance"
  /\ UNCHANGED <<head, tail, overflow, devvars, rdvars, wcount, wword, wslot, wover, hvars>>

WriteAdvance ==
  /\ ~irq /\ wpc = "advance"
  /\ head' \in {And(head + 1), And(wslot + 1)}
  /\ wcount' = wcount - 1 /\ wword' = wword + 1 /\ wpc' = "loop"
  /\ UNCHANGED <<tail, overflow, data, devvars, rdvars, wslot, wover, hvars>>

Write == \/ WriteCall \/ WriteSpace \/ WriteLoop
         \/ WritePut \/ WriteCount \/ WriteStore \/ WriteAdvance
-----------------------------------------------------------------------------
Handler == IrqEnter \/ IrqPut \/ IrqReturn

Next == Arrive \/ Handler \/ Write \/ \E r \in Readers : Read(r)

\* The handler ends and a process that can run is scheduled.  An interrupt is
\* delivered, and a signal or another call of read() need never come.
Runs(r) == \/ ReadWait(r) \/ ReadSize(r) \/ ReadCopy(r) \/ ReadDrop(r)

Fairness ==
  /\ WF_vars(Handler)
  /\ SF_vars(\/ WriteSpace \/ WriteLoop \/ WritePut
             \/ WriteCount \/ WriteStore \/ WriteAdvance)
  /\ \A r \in Readers : SF_vars(Runs(r))

Spec == Init /\ [][Next]_vars /\ Fairness
-----------------------------------------------------------------------------
\* The words in the buffer, oldest first.
Contents == [i \in 1..CIRC_CNT |-> data[And(tail + i - 1)]]

TypeOK ==
  /\ head \in Index /\ tail \in Index /\ overflow \in 0..(NWords + NWritten)
  /\ data \in [Index -> 0..(NWords + NWritten)]
  /\ arrived \in 0..NWords /\ handled \in 0..arrived /\ irq \in BOOLEAN
  /\ pc \in [Readers -> {"idle", "wait", "sleep", "size", "copy", "drop"}]
  /\ count \in [Readers -> 0..MaxCount] /\ bytes \in [Readers -> 0..MaxCount]
  /\ wpc \in {"idle", "fault", "space", "loop", "put", "count", "store", "advance"}
  /\ wcount \in 0..MaxCount /\ wword \in 0..NWritten /\ wslot \in Index
  /\ wover \in 0..(NWords + NWritten)

(***************************************************************************)
(* With one reader, the words it copies between its look at the count and  *)
(* its drop stay valid: inside the array, and inside the words stored, at  *)
(* whatever step the handler or the writer runs (sxi_sim_driver.c:135-147).*)
(***************************************************************************)
CopyInsideBuffer ==
  ~raced => \A r \in Readers : pc[r] \in {"copy", "drop"} =>
              /\ bytes[r] <= CIRC_CNT_TO_END
              /\ bytes[r] <= count[r]

(***************************************************************************)
(* The words taken and the words still stored are in the order they were   *)
(* put, each once, and every other word was counted as an overflow.  The   *)
(* exception is a put of the handler amid one of sxi_write, in one of two  *)
(* windows where a lock is missing between these two: between the test for *)
(* room and the new head (sxi_sim_driver.c:102-107), where a word is       *)
(* overwritten or a stale slot shown, and inside b->overflow += 1          *)
(* (sxi_sim_driver.c:103), where a count is lost if both count.            *)
(***************************************************************************)
Passed == taken \o Contents

NoneLostUncounted ==
  ~raced => /\ \A i \in 1..(Len(Passed) - 1) : Passed[i] < Passed[i + 1]
            /\ Len(Passed) + overflow = Words

(***************************************************************************)
(* sxi_write looks for room before every word, so with an idle device its  *)
(* words never make the buffer overflow, which would shut every reader out *)
(* for good (sxi_sim_driver.c:126, 167).                                   *)
(***************************************************************************)
WriterNeverOverflows == arrived = 0 => overflow = 0

(***************************************************************************)
(* sxi_sim_driver.c:163 "If buffer is full, reader should be awake": a     *)
(* writer that yields to readers never yields to one that is asleep.       *)
(***************************************************************************)
WriterYieldsToAwake ==
  wpc = "space" /\ CIRC_SPACE = 0 /\ ~irq => \A r \in Readers : pc[r] # "sleep"

(***************************************************************************)
(* A reader asleep over words has somebody who will wake it: the handler   *)
(* is running, whose return wakes, or a write is under way, whose end      *)
(* wakes unless it faults.  No order of a test for words, a put and a      *)
(* wake-up loses the wake-up (sxi_sim_driver.c:131, 178, 228).             *)
(***************************************************************************)
SleeperHasWaker ==
  \A r \in Readers : pc[r] = "sleep" /\ CIRC_CNT # 0 => irq \/ wpc # "idle"

(***************************************************************************)
(* A reader for whom there are words returns.  A write that faults after   *)
(* some words wakes nobody, and leaves a reader asleep over them.          *)
(***************************************************************************)
ReaderReturns ==
  \A r \in Readers :
    pc[r] \in {"wait", "sleep"} /\ CIRC_CNT_TO_END # 0
      ~> pc[r] = "idle" \/ wpc = "fault" \/ raced

(***************************************************************************)
(* The buffer implements a queue of CB_SIZE - 1 words up to such a race:   *)
(* one reader, one writer and the handler need no other lock.              *)
(***************************************************************************)
Queue == INSTANCE BoundedQueue
           WITH Word <- 1..(NWords + NWritten), Zero <- 0,
                Capacity <- CB_SIZE - 1, queue <- Contents,
                front <- IF Contents = <<>> THEN 0 ELSE data[tail]

ImplementsQueue ==
  Queue!Init /\ [][raced' \/ Queue!Next \/ UNCHANGED Queue!qvars]_vars

(***************************************************************************)
(* sxi_sim_driver.c:65 "struct semaphore sem; /* mutex */": the processes  *)
(* that use a device exclude one another.  The code disagrees: it never    *)
(* takes the semaphore, and two readers are given the same word.           *)
(***************************************************************************)
EachWordOnce == \A i, j \in 1..Len(taken) : i # j => taken[i] # taken[j]
=============================================================================
