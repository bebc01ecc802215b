----------------------------- MODULE FifoProofs -----------------------------
(***************************************************************************)
(* Theorems about Fifo, for every set of words and every size.  The        *)
(* conjunction of the three invariants is inductive: the flags tell which  *)
(* of the two comparisons of the pointers an edge may rely on, and the     *)
(* counter moves with the occupancy they define.                           *)
(* Under it each branch of the process does one thing to the words between *)
(* the pointers: append, take the head, both, or nothing.                  *)
(***************************************************************************)
EXTENDS Fifo, SequenceTheorems, TLAPS

IInv == TypeOK /\ FlagsTellEqualPointers /\ CountFollowsOccupancy

(* A pointer stays inside the memory when it is incremented, and Dec undoes *)
(* Inc: the arithmetic of std_logic_vector counters of one width.           *)
LEMMA CounterArithmetic ==
  ASSUME NEW c \in Slot
  PROVE  /\ Inc(c) \in Slot /\ Dec(c) \in Slot
         /\ Inc(c) # c
         /\ Dec(Inc(c)) = c
BY FifoAssumption DEF Slot, Inc, Dec

(* After power-up the FIFO is empty and its flags and counter say so.      *)
LEMMA InitIInv == Init => IInv
BY FifoAssumption
DEF Init, IInv, TypeOK, FlagsTellEqualPointers, CountFollowsOccupancy,
    Occupancy, Slot, Bit

(* No edge of the clock and no reset breaks the conjunction (fifo.vhdl:50-96). *)
LEMMA NextIInv == IInv /\ [Next]_vars => IInv'
<1> SUFFICES ASSUME IInv, [Next]_vars PROVE IInv'
  OBVIOUS
<1>0. accepted' \in {0, 1}
  BY DEF Next, Clk, Reset, vars, IInv, TypeOK, Bit
<1> USE FifoAssumption
    DEF IInv, TypeOK, FlagsTellEqualPointers, CountFollowsOccupancy,
        Occupancy, Slot, Bit, Inc, Dec
<1>1. ASSUME NEW din \in Word, ReadWrite(din) PROVE IInv'
  BY <1>0, <1>1 DEF ReadWrite
<1>2. CASE ReadOnly
  <2>1. TypeOK'
    BY <1>0, <1>2 DEF ReadOnly
  <2>2. FlagsTellEqualPointers'
    BY <1>2 DEF ReadOnly
  <2>3. CountFollowsOccupancy'
    BY <1>2 DEF ReadOnly
  <2> QED BY <2>1, <2>2, <2>3
<1>3. ASSUME NEW din \in Word, WriteOnly(din) PROVE IInv'
  <2>1. TypeOK'
    BY <1>0, <1>3 DEF WriteOnly
  <2>2. FlagsTellEqualPointers'
    BY <1>3 DEF WriteOnly
  <2>3. CountFollowsOccupancy'
    BY <1>3 DEF WriteOnly
  <2> QED BY <2>1, <2>2, <2>3
<1>4. CASE Hold
  BY <1>0, <1>4 DEF Hold
<1>5. CASE Reset
  BY <1>5 DEF Reset
<1>6. CASE UNCHANGED vars
  BY <1>6 DEF vars
<1> QED BY <1>1, <1>2, <1>3, <1>4, <1>5, <1>6 DEF Next, Clk

(***************************************************************************)
(* Every behaviour of the FIFO satisfies the three invariants.             *)
(***************************************************************************)
THEOREM FifoInvariant == Spec => []IInv
BY InitIInv, NextIInv, PTL DEF Spec

(***************************************************************************)
(* The pointers, the counter and the flags stay in range, so no access of  *)
(* reg is out of bounds (conv_integer of the pointers, fifo.vhdl:65-98).   *)
(***************************************************************************)
THEOREM FifoTypeCorrect == Spec => []TypeOK
<1>1. IInv => TypeOK
  BY DEF IInv
<1> QED BY <1>1, FifoInvariant, PTL

(***************************************************************************)
(* Whatever is requested at each edge, empty and full are never both up    *)
(* and exactly one of them is up when the pointers meet.                   *)
(***************************************************************************)
THEOREM FifoFlagsCorrect == Spec => []FlagsTellEqualPointers
<1>1. IInv => FlagsTellEqualPointers
  BY DEF IInv
<1> QED BY <1>1, FifoInvariant, PTL

(***************************************************************************)
(* data_count is the occupancy modulo 2**addrdepth in every reachable      *)
(* state: it errs only when the FIFO is full, when it shows 0.             *)
(***************************************************************************)
THEOREM FifoCountCorrect == Spec => []CountFollowsOccupancy
<1>1. IInv => CountFollowsOccupancy
  BY DEF IInv
<1> QED BY <1>1, FifoInvariant, PTL
-----------------------------------------------------------------------------
(* The words stored are a sequence, and never more than the memory holds.   *)
Stored ==
  /\ Occupancy \in 0..Size
  /\ Contents \in Seq(Word) /\ Len(Contents) = Occupancy
  /\ \A i \in 1..Occupancy : Contents[i] = reg[SlotAt(i - 1)]
  /\ Occupancy = 0 <=> emptyxB = 1
  /\ Occupancy = Size <=> fullxB = 1
  /\ Contents = <<>> <=> emptyxB = 1

LEMMA ContentsIs == IInv => Stored
<1> SUFFICES ASSUME IInv PROVE Stored
  OBVIOUS
<1> USE FifoAssumption DEF IInv, TypeOK, FlagsTellEqualPointers, Bit, Slot
<1>1. /\ Occupancy \in 0..Size
      /\ Occupancy = 0 <=> emptyxB = 1
      /\ Occupancy = Size <=> fullxB = 1
  BY DEF Occupancy
<1>2. \A i \in 1..Occupancy : SlotAt(i - 1) \in Slot
  BY <1>1 DEF SlotAt
<1>3. \A i \in 1..Occupancy : reg[SlotAt(i - 1)] \in Word
  BY <1>2
<1>4. Contents \in [1..Occupancy -> Word]
  BY <1>3 DEF Contents
<1>5. Contents \in Seq(Word) /\ Len(Contents) = Occupancy
  BY <1>1, <1>4
<1>6. Contents = <<>> <=> emptyxB = 1
  BY <1>1, <1>5, EmptySeq
<1>7. \A i \in 1..Occupancy : Contents[i] = reg[SlotAt(i - 1)]
  BY DEF Contents
<1> QED BY <1>1, <1>5, <1>6, <1>7 DEF Stored

LEMMA ContentsThen == IInv' => Stored'
BY ContentsIs, PTL

(* The pointers and flags, for the arithmetic of an edge.                   *)
LEMMA Pointers ==
  ASSUME IInv
  PROVE  /\ RdCntr \in 0..(Size - 1) /\ WrCntr \in 0..(Size - 1)
         /\ emptyxB \in {0, 1} /\ fullxB \in {0, 1}
         /\ RdCntr = WrCntr <=> emptyxB = 1 \/ fullxB = 1
         /\ ~(emptyxB = 1 /\ fullxB = 1)
BY DEF IInv, TypeOK, FlagsTellEqualPointers, Bit, Slot

(* dout is the oldest word, or Zero.                                        *)
LEMMA DoutIsFront == IInv => dout = Queue!Front(Contents)
<1> SUFFICES ASSUME IInv PROVE dout = Queue!Front(Contents)
  OBVIOUS
<1>1. CASE emptyxB = 1
  <2>1. Contents = <<>>
    BY <1>1, ContentsIs DEF Stored
  <2> QED BY <1>1, <2>1 DEF dout, Queue!Front
<1>2. CASE emptyxB = 0
  <2>1. Contents # <<>> /\ Head(Contents) = Contents[1] /\ 1 \in 1..Occupancy
    BY <1>2, ContentsIs DEF Stored
  <2>2. SlotAt(1 - 1) = RdCntr
    BY FifoAssumption DEF SlotAt, IInv, TypeOK, Slot
  <2>3. Contents[1] = reg[RdCntr]
    BY <2>1, <2>2, ContentsIs DEF Stored
  <2> QED BY <1>2, <2>1, <2>3 DEF dout, Queue!Front
<1> QED BY <1>1, <1>2 DEF IInv, TypeOK, Bit

LEMMA DoutThen == IInv' => (dout = Queue!Front(Contents))'
BY DoutIsFront, PTL

(* An accepted write puts its word behind the others (fifo.vhdl:80-91).     *)
LEMMA WriteAppends ==
  ASSUME IInv, IInv', NEW din \in Word, WriteOnly(din), fullxB = 0
  PROVE  Contents' = Append(Contents, din)
<1>0. PICK n \in Nat : n = Occupancy
  BY ContentsIs DEF Stored
<1>1. Occupancy = n /\ Occupancy' = n + 1 /\ n \in 0..(Size - 1)
  BY <1>0, Pointers, FifoAssumption DEF Occupancy, WriteOnly, Inc
<1>2. SlotAt(n) = WrCntr /\ \A i \in 1..n : SlotAt(i - 1) # WrCntr
  BY <1>0, Pointers, FifoAssumption DEF Occupancy, SlotAt
<1>3. \A i \in 1..(n + 1) : SlotAt(i - 1)' = SlotAt(i - 1) /\ SlotAt(i - 1) \in Slot
  BY <1>1, Pointers, FifoAssumption DEF Slot, SlotAt, WriteOnly
<1>4. \A i \in 1..n : Contents'[i] = Contents[i]
  <2> SUFFICES ASSUME NEW i \in 1..n PROVE Contents'[i] = Contents[i]
    OBVIOUS
  <2>1. i \in 1..Occupancy'
    BY <1>1
  <2>2. SlotAt(i - 1) # WrCntr /\ SlotAt(i - 1) \in Slot /\ i \in 1..(n + 1)
    BY <1>1, <1>2, <1>3
  <2>3. reg'[SlotAt(i - 1)] = reg[SlotAt(i - 1)]
    BY <2>2 DEF IInv, TypeOK, WriteOnly
  <2>4. SlotAt(i - 1)' = SlotAt(i - 1)
    BY <1>3, <2>2
  <2>5. Contents'[i] = reg'[SlotAt(i - 1)'] /\ Contents[i] = reg[SlotAt(i - 1)]
    BY <1>1, <2>1 DEF Contents
  <2> QED BY <2>3, <2>4, <2>5
<1>5. Contents'[n + 1] = din
  <2>1. n + 1 \in 1..Occupancy' /\ (n + 1) - 1 = n
    BY <1>1
  <2>2. Contents'[n + 1] = reg'[SlotAt((n + 1) - 1)']
    BY <2>1 DEF Contents
  <2>3. SlotAt((n + 1) - 1)' = WrCntr /\ WrCntr \in Slot
    BY <1>1, <1>2, <1>3, <2>1, Pointers DEF Slot
  <2> QED BY <2>2, <2>3 DEF IInv, TypeOK, WriteOnly
<1>6. /\ Contents \in Seq(Word) /\ Len(Contents) = n
      /\ Contents' \in Seq(Word) /\ Len(Contents') = n + 1
  BY <1>1, ContentsIs, ContentsThen DEF Stored
<1>7. /\ Append(Contents, din) \in Seq(Word) /\ Len(Append(Contents, din)) = n + 1
      /\ \A i \in 1..n : Append(Contents, din)[i] = Contents[i]
      /\ Append(Contents, din)[n + 1] = din
  BY <1>6, AppendProperties
<1>8. \A i \in 1..(n + 1) : Contents'[i] = Append(Contents, din)[i]
  BY <1>1, <1>4, <1>5, <1>7
<1> QED BY <1>6, <1>7, <1>8, SeqEqual

(* A read takes the oldest word away (fifo.vhdl:70-79).                     *)
LEMMA ReadTakesHead ==
  ASSUME IInv, IInv', ReadOnly, emptyxB = 0
  PROVE  Contents' = Tail(Contents)
<1> DEFINE n == Occupancy
<1>1. Occupancy' = n - 1 /\ n \in 1..Size
  BY Pointers, FifoAssumption DEF Occupancy, ReadOnly, Inc
<1>2. \A i \in 1..(n - 1) : SlotAt(i - 1)' = SlotAt(i)
  BY <1>1, Pointers, FifoAssumption DEF SlotAt, ReadOnly, Inc
<1>3. \A i \in 1..(n - 1) : Contents'[i] = Contents[i + 1]
  <2> SUFFICES ASSUME NEW i \in 1..(n - 1) PROVE Contents'[i] = Contents[i + 1]
    OBVIOUS
  <2>1. i \in 1..Occupancy' /\ i + 1 \in 1..Occupancy /\ (i + 1) - 1 = i
    BY <1>1
  <2>2. Contents'[i] = reg'[SlotAt(i - 1)'] /\ Contents[i + 1] = reg[SlotAt((i + 1) - 1)]
    BY <2>1 DEF Contents
  <2> QED BY <1>2, <2>1, <2>2 DEF ReadOnly
<1>4. /\ Contents \in Seq(Word) /\ Len(Contents) = n /\ Contents # <<>>
      /\ Contents' \in Seq(Word) /\ Len(Contents') = n - 1
  BY <1>1, ContentsIs, ContentsThen DEF Stored
<1>5. /\ Tail(Contents) \in Seq(Word) /\ Len(Tail(Contents)) = n - 1
      /\ \A i \in 1..(n - 1) : Tail(Contents)[i] = Contents[i + 1]
  BY <1>4, HeadTailProperties
<1>6. \A i \in 1..(n - 1) : Contents'[i] = Tail(Contents)[i]
  BY <1>3, <1>5
<1> HIDE DEF n
<1> QED BY <1>4, <1>5, <1>6, SeqEqual

(* A read and a write together take one word and put one, full or not, if   *)
(* there is a word to take (fifo.vhdl:61-69).                               *)
LEMMA ReadWriteExchanges ==
  ASSUME IInv, IInv', NEW din \in Word, ReadWrite(din), emptyxB = 0
  PROVE  Contents' = Append(Tail(Contents), din)
<1> DEFINE n == Occupancy
<1>1. Occupancy' = n /\ n \in 1..Size
  BY Pointers, FifoAssumption DEF Occupancy, ReadWrite, Inc
<1>2. \A i \in 1..(n - 1) : SlotAt(i - 1)' = SlotAt(i) /\ SlotAt(i) # WrCntr
  BY <1>1, Pointers, FifoAssumption DEF Occupancy, SlotAt, ReadWrite, Inc
<1>3. SlotAt(n - 1)' = WrCntr
  BY <1>1, Pointers, FifoAssumption DEF Occupancy, SlotAt, ReadWrite, Inc
<1>4. \A i \in 1..(n - 1) : Contents'[i] = Contents[i + 1]
  <2> SUFFICES ASSUME NEW i \in 1..(n - 1) PROVE Contents'[i] = Contents[i + 1]
    OBVIOUS
  <2>1. i \in 1..Occupancy' /\ i + 1 \in 1..Occupancy /\ (i + 1) - 1 = i
    BY <1>1
  <2>2. Contents'[i] = reg'[SlotAt(i - 1)'] /\ Contents[i + 1] = reg[SlotAt((i + 1) - 1)]
    BY <2>1 DEF Contents
  <2>3. SlotAt(i) \in Slot
    BY <1>1, FifoAssumption DEF IInv, TypeOK, Slot, SlotAt
  <2>4. reg'[SlotAt(i)] = reg[SlotAt(i)]
    BY <1>2, <2>3 DEF IInv, TypeOK, ReadWrite
  <2> QED BY <1>2, <2>1, <2>2, <2>4
<1>5. Contents'[n] = din
  <2>1. Contents'[n] = reg'[SlotAt(n - 1)']
    BY <1>1 DEF Contents
  <2> QED BY <1>3, <2>1 DEF IInv, TypeOK, ReadWrite
<1>6. /\ Contents \in Seq(Word) /\ Len(Contents) = n /\ Contents # <<>>
      /\ Contents' \in Seq(Word) /\ Len(Contents') = n
  BY <1>1, ContentsIs, ContentsThen DEF Stored
<1> DEFINE t == Tail(Contents)
<1>7. /\ t \in Seq(Word) /\ Len(t) = n - 1
      /\ \A i \in 1..(n - 1) : t[i] = Contents[i + 1]
  BY <1>6, HeadTailProperties
<1> HIDE DEF t
<1>8. /\ Append(t, din) \in Seq(Word) /\ Len(Append(t, din)) = Len(t) + 1
      /\ \A i \in 1..Len(t) : Append(t, din)[i] = t[i]
      /\ Append(t, din)[Len(t) + 1] = din
  BY <1>7, AppendProperties
<1>9. \A i \in 1..n : Contents'[i] = Append(t, din)[i]
  BY <1>1, <1>4, <1>5, <1>7, <1>8
<1>10. Len(Append(t, din)) = n
  BY <1>1, <1>7, <1>8
<1> HIDE DEF n
<1>11. Contents' = Append(t, din)
  BY <1>6, <1>8, <1>9, <1>10, SeqEqual
<1> QED BY <1>11 DEF t
-----------------------------------------------------------------------------
(* What an edge does to the words stored.                                   *)
LEMMA StepOnContents ==
  ASSUME IInv, IInv', [Next]_vars
  PROVE  \/ Contents' = Contents
         \/ Contents' = <<>>
         \/ Contents # <<>> /\ Contents' = Tail(Contents)
         \/ \E din \in Word :
              \/ Len(Contents) < Size /\ Contents' = Append(Contents, din)
              \/ Contents # <<>> /\ Contents' = Append(Tail(Contents), din)
<1>1. Contents = <<>> <=> emptyxB = 1
  BY ContentsIs DEF Stored
<1>2. (Contents = <<>> <=> emptyxB = 1)'
  BY ContentsThen DEF Stored
<1>3. CASE UNCHANGED <<reg, RdCntr, WrCntr, fullxB>>
  BY <1>3 DEF Contents, SlotAt, Occupancy
<1>4. CASE emptyxB' = 1
  BY <1>2, <1>4
<1>5. ASSUME NEW din \in Word, ReadWrite(din), emptyxB' # 1
      PROVE  Contents # <<>> /\ Contents' = Append(Tail(Contents), din)
  BY <1>1, <1>5, ReadWriteExchanges DEF ReadWrite, IInv, TypeOK, Bit
<1>6. CASE ReadOnly /\ emptyxB = 0
  BY <1>1, <1>6, ReadTakesHead
<1>7. ASSUME NEW din \in Word, WriteOnly(din), fullxB = 0
      PROVE  Len(Contents) < Size /\ Contents' = Append(Contents, din)
  BY <1>7, WriteAppends, ContentsIs, FifoAssumption DEF Stored
<1>8. CASE ReadOnly /\ emptyxB # 0
  BY <1>4, <1>8 DEF ReadOnly
<1>9. ASSUME NEW din \in Word, WriteOnly(din), fullxB # 0
      PROVE  UNCHANGED <<reg, RdCntr, WrCntr, fullxB>>
  BY <1>9 DEF WriteOnly
<1>10. CASE Hold \/ UNCHANGED vars
  BY <1>3, <1>10 DEF Hold, vars
<1>11. CASE Reset
  BY <1>4, <1>11 DEF Reset
<1> QED BY <1>3, <1>4, <1>5, <1>6, <1>7, <1>8, <1>9, <1>10, <1>11 DEF Next, Clk

(* The same edge by its enables: what leaves is what dout shows.            *)
LEMMA ClkOnContents ==
  ASSUME IInv, IInv', NEW rd_en \in Bit, NEW wr_en \in Bit, NEW din \in Word,
         Clk(rd_en, wr_en, din)
  PROVE  /\ rd_en = 1 /\ emptyxB = 0 => Contents # <<>> /\ dout = Head(Contents)
         /\ CASE rd_en = 1 /\ emptyxB = 0 ->
                   Contents' = IF wr_en = 1 THEN Append(Tail(Contents), din) ELSE Tail(Contents)
              [] rd_en = 0 /\ wr_en = 1 /\ fullxB = 0 -> Contents' = Append(Contents, din)
              [] OTHER -> Contents' = Contents
<1>1. emptyxB \in {0, 1} /\ fullxB \in {0, 1} /\ (Contents = <<>> <=> emptyxB = 1)
  BY Pointers, ContentsIs DEF Stored
<1>2. rd_en = 1 /\ emptyxB = 0 => Contents # <<>> /\ dout = Head(Contents)
  BY <1>1, DoutIsFront DEF Queue!Front
<1>3. CASE rd_en = 1 /\ wr_en = 1
  <2>1. ReadWrite(din)
    BY <1>3 DEF Clk
  <2>2. CASE emptyxB = 0
    BY <1>2, <1>3, <2>1, <2>2, ReadWriteExchanges
  <2>3. CASE emptyxB = 1
    <3>1. Contents = <<>> /\ Contents' = <<>>
      BY <1>1, <2>1, <2>3, ContentsThen DEF ReadWrite, Stored
    <3> QED BY <1>3, <2>3, <3>1
  <2> QED BY <1>1, <2>2, <2>3
<1>4. CASE rd_en = 1 /\ wr_en = 0
  <2>1. ReadOnly
    BY <1>4 DEF Clk
  <2>2. CASE emptyxB = 0
    BY <1>2, <1>4, <2>1, <2>2, ReadTakesHead
  <2>3. CASE emptyxB = 1
    <3>1. Contents = <<>> /\ Contents' = <<>>
      BY <1>1, <2>1, <2>3, ContentsThen DEF ReadOnly, Stored
    <3> QED BY <1>4, <2>3, <3>1
  <2> QED BY <1>1, <2>2, <2>3
<1>5. CASE rd_en = 0 /\ wr_en = 1
  <2>1. WriteOnly(din)
    BY <1>5 DEF Clk
  <2>2. CASE fullxB = 0
    BY <1>5, <2>1, <2>2, WriteAppends
  <2>3. CASE fullxB = 1
    <3>1. Contents' = Contents
      BY <2>1, <2>3 DEF WriteOnly, Contents, SlotAt, Occupancy
    <3> QED BY <1>5, <2>3, <3>1
  <2> QED BY <1>1, <2>2, <2>3
<1>6. CASE rd_en = 0 /\ wr_en = 0
  <2>1. Contents' = Contents
    BY <1>6 DEF Clk, Hold, Contents, SlotAt, Occupancy
  <2> QED BY <1>6, <2>1
<1> QED BY <1>2, <1>3, <1>4, <1>5, <1>6 DEF Bit

(***************************************************************************)
(* The FIFO is a bounded queue: for every size and every set of words, the *)
(* words leave in the order they were accepted and dout shows the oldest   *)
(* one, whatever reads, writes and resets come in whatever order           *)
(* (fifo.vhdl:50-98).                                                      *)
(***************************************************************************)
THEOREM FifoImplementsQueue == Spec => ImplementsQueue
<1>1. Init => Queue!Init
  <2> SUFFICES ASSUME Init PROVE Queue!Init
    OBVIOUS
  <2>1. IInv /\ emptyxB = 1
    BY InitIInv DEF Init
  <2>2. Contents = <<>>
    BY <2>1, ContentsIs DEF Stored
  <2>3. dout = Zero
    BY <2>1 DEF dout
  <2> QED BY <2>2, <2>3 DEF Queue!Init
<1>2. IInv /\ IInv' /\ [Next]_vars => [Queue!Next]_(Queue!qvars)
  <2> SUFFICES ASSUME IInv, IInv', [Next]_vars PROVE [Queue!Next]_(Queue!qvars)
    OBVIOUS
  <2>1. dout = Queue!Front(Contents) /\ dout' = Queue!Front(Contents')
    BY DoutIsFront, DoutThen DEF Queue!Front
  <2>2. Queue!Becomes(Contents')
    BY <2>1 DEF Queue!Becomes
  <2>3. CASE Contents' = Contents
    BY <2>1, <2>3 DEF Queue!qvars
  <2>4. CASE Contents' = <<>>
    BY <2>2, <2>4 DEF Queue!Next, Queue!Flush
  <2>5. CASE Contents # <<>> /\ Contents' = Tail(Contents)
    <3>1. Len(Contents) \in 1..Size /\ 1 \in 1..Size
      BY <2>5, ContentsIs, FifoAssumption DEF Stored
    <3>2. Tail(Contents) = SubSeq(Contents, 1 + 1, Len(Contents))
      BY <2>5, ContentsIs, TailIsSubSeq DEF Stored
    <3>3. Queue!Becomes(SubSeq(Contents, 1 + 1, Len(Contents)))
      BY <2>1, <2>5, <3>2 DEF Queue!Becomes
    <3>4. 1 <= Len(Contents)
      BY <3>1
    <3>5. Queue!Remove(1)
      BY <3>3, <3>4 DEF Queue!Remove
    <3> QED BY <3>1, <3>5 DEF Queue!Next
  <2>6. ASSUME NEW din \in Word, Len(Contents) < Size, Contents' = Append(Contents, din)
        PROVE  Queue!Next
    BY <2>2, <2>6 DEF Queue!Next, Queue!Accept
  <2>7. ASSUME NEW din \in Word, Contents # <<>>, Contents' = Append(Tail(Contents), din)
        PROVE  Queue!Next
    BY <2>2, <2>7 DEF Queue!Next, Queue!Exchange
  <2> QED BY <2>3, <2>4, <2>5, <2>6, <2>7, StepOnContents
<1> QED BY <1>1, <1>2, FifoInvariant, PTL DEF Spec, ImplementsQueue, Queue!Spec

(***************************************************************************)
(* For every size: an edge that stores a word raises wr_ack, and an edge   *)
(* that ends with wr_ack up has stored its word, except a write refused by *)
(* a full FIFO while wr_ack was still up (fifo.vhdl:78-88) and a write     *)
(* that met a read on an empty FIFO (fifo.vhdl:61-65).                     *)
(***************************************************************************)
THEOREM FifoAckMeansStored == Spec => AckMeansStored
<1> DEFINE Acked ==
      /\ accepted' = 1 => wr_ack' = 1
      /\ wr_ack' = 1 /\ accepted' = 0 =>
           \/ fullxB = 1 /\ wr_ack = 1
           \/ emptyxB = 1 /\ RdCntr' # RdCntr
<1>1. IInv /\ IInv' /\ [Next]_vars => [Acked]_vars
  <2> SUFFICES ASSUME IInv, IInv', Next PROVE Acked
    OBVIOUS
  <2>1. CASE Reset
    BY <2>1 DEF Reset
  <2>2. ASSUME NEW rd_en \in Bit, NEW wr_en \in Bit, NEW din \in Word, Clk(rd_en, wr_en, din)
        PROVE  Acked
    <3>1. CASE rd_en = 1 /\ wr_en = 1
      <4>1. ReadWrite(din) /\ wr_ack' = 1
        BY <2>2, <3>1 DEF Clk, ReadWrite
      <4>2. CASE emptyxB = 1
        BY <4>1, <4>2, CounterArithmetic DEF ReadWrite, IInv, TypeOK
      <4>3. CASE emptyxB = 0
        <5>1. Contents # <<>> /\ Contents' = Append(Tail(Contents), din)
          BY <4>1, <4>3, ContentsIs, ReadWriteExchanges DEF Stored
        <5>2. accepted' = 1
          BY <2>2, <3>1, <5>1 DEF Clk, Takes
        <5> QED BY <4>1, <5>2
      <4> QED BY <4>2, <4>3 DEF IInv, TypeOK, Bit
    <3>2. CASE rd_en = 0 /\ wr_en = 1
      <4>1. WriteOnly(din)
        BY <2>2, <3>2 DEF Clk
      <4>2. CASE fullxB = 0
        <5>1. Contents' = Append(Contents, din) /\ wr_ack' = 1
          BY <4>1, <4>2, WriteAppends DEF WriteOnly
        <5>2. accepted' = 1
          BY <2>2, <3>2, <5>1 DEF Clk, Takes
        <5> QED BY <5>1, <5>2
      <4>3. CASE fullxB = 1
        <5>1. Contents' = Contents /\ wr_ack' = wr_ack
          BY <4>1, <4>3 DEF WriteOnly, Contents, SlotAt, Occupancy
        <5>2. Len(Append(Contents, din)) = Len(Contents) + 1 /\ Len(Contents) \in Nat
          BY ContentsIs, AppendProperties, LenProperties DEF Stored
        <5>3. accepted' = 0
          BY <2>2, <3>2, <5>1, <5>2 DEF Clk, Takes
        <5> QED BY <4>3, <5>1, <5>3
      <4> QED BY <4>2, <4>3 DEF IInv, TypeOK, Bit
    <3>3. CASE wr_en = 0
      <4>1. wr_ack' = 0 /\ accepted' = 0
        BY <2>2, <3>3 DEF Clk, ReadOnly, Hold
      <4> QED BY <4>1
    <3> QED BY <3>1, <3>2, <3>3 DEF Bit
  <2> QED BY <2>1, <2>2 DEF Next
<1> QED BY <1>1, FifoInvariant, PTL DEF Spec, AckMeansStored
=============================================================================
