-------------------------- MODULE SxiBufferProofs --------------------------
(***************************************************************************)
(* Theorems about SxiBuffer, for every size of the buffer, every number of *)
(* words and any interleaving of the handler, the writer and the readers.  *)
(* The types need only what a place in a function says of its locals       *)
(* (Locals).  Everything else is about one reader (Alone): with a second   *)
(* one it is not true.                                                     *)
(***************************************************************************)
EXTENDS SxiBuffer, SequenceTheorems, TLAPS

\* What a place says of the locals there.
Locals ==
  /\ wpc \in {"put", "count", "store", "advance"} => wcount >= 1
  /\ wcount + wword <= NWritten
  /\ overflow <= handled + wword /\ wover <= overflow
  /\ \A r \in Readers : pc[r] \in {"copy", "drop"} => bytes[r] \in 1..count[r]
  /\ DOMAIN got = Readers

TInv == TypeOK /\ Locals

Safety == Init /\ [][Next]_vars
-----------------------------------------------------------------------------
(* And is the remainder: what it does with an index that left the array.    *)
LEMMA Wrap ==
  ASSUME NEW n \in Int
  PROVE  /\ And(n) \in Index
         /\ n \in Index => And(n) = n
         /\ n \in CB_SIZE..(2 * CB_SIZE - 1) => And(n) = n - CB_SIZE
         /\ n \in (-CB_SIZE)..(-1) => And(n) = n + CB_SIZE
BY SxiAssumption DEF And, Index

(* The macros of circ_buf.h, without their remainders.                      *)
Circ ==
  /\ CIRC_CNT = IF head >= tail THEN head - tail ELSE head - tail + CB_SIZE
  /\ CIRC_SPACE = CB_SIZE - 1 - CIRC_CNT
  /\ CIRC_CNT_TO_END = IF head >= tail THEN head - tail ELSE CB_SIZE - tail
  /\ CIRC_CNT \in 0..(CB_SIZE - 1)

LEMMA CircIs == head \in Index /\ tail \in Index => Circ
<1> SUFFICES ASSUME head \in Index, tail \in Index PROVE Circ
  OBVIOUS
<1>1. CIRC_CNT = IF head >= tail THEN head - tail ELSE head - tail + CB_SIZE
  <2>1. head - tail \in Int /\ (head - tail \in Index \/ head - tail \in (-CB_SIZE)..(-1))
    BY SxiAssumption DEF Index
  <2>2. CIRC_CNT = And(head - tail)
    BY DEF CIRC_CNT
  <2> QED BY <2>1, <2>2, Wrap, SxiAssumption DEF Index
<1>2. CIRC_CNT \in 0..(CB_SIZE - 1)
  BY <1>1, SxiAssumption DEF Index
<1>3. CIRC_SPACE = CB_SIZE - 1 - CIRC_CNT
  <2> DEFINE d == tail - (head + 1)
  <2>1. d \in Int /\ (d \in Index \/ d \in (-CB_SIZE)..(-1))
    BY SxiAssumption DEF Index
  <2>2. CIRC_SPACE = And(d)
    BY DEF CIRC_SPACE
  <2>3. And(d) = IF d >= 0 THEN d ELSE d + CB_SIZE
    BY <2>1, Wrap, SxiAssumption DEF Index
  <2> QED BY <1>1, <2>1, <2>2, <2>3, SxiAssumption DEF Index
<1>4. CIRC_CNT_TO_END = IF head >= tail THEN head - tail ELSE CB_SIZE - tail
  BY <1>1, SxiAssumption DEF CIRC_CNT_TO_END, Least, Index
<1> QED BY <1>1, <1>2, <1>3, <1>4 DEF Circ

LEMMA CircThen == head' \in Index /\ tail' \in Index => Circ'
<1>1. (head \in Index /\ tail \in Index => Circ)'
  BY CircIs, PTL
<1> QED BY <1>1 DEF Index

(* Both pointers wrap by one, or to the end of the array.                   *)
LEMMA Advances ==
  ASSUME NEW p \in Index
  PROVE  /\ And(p + 1) = IF p = CB_SIZE - 1 THEN 0 ELSE p + 1
         /\ \A n \in 0..(CB_SIZE - p) : And(p + n) = IF p + n = CB_SIZE THEN 0 ELSE p + n
<1>1. \A n \in 0..(CB_SIZE - p) : And(p + n) = IF p + n = CB_SIZE THEN 0 ELSE p + n
  <2> TAKE n \in 0..(CB_SIZE - p)
  <2>1. p + n \in Int /\ (p + n \in Index \/ p + n = CB_SIZE)
    BY SxiAssumption DEF Index
  <2> QED BY <2>1, Wrap, SxiAssumption DEF Index
<1>2. 1 \in 0..(CB_SIZE - p)
  BY SxiAssumption DEF Index
<1> QED BY <1>1, <1>2, SxiAssumption DEF Index
-----------------------------------------------------------------------------
LEMMA InitTInv == Init => TInv
<1> SUFFICES ASSUME Init PROVE TInv
  OBVIOUS
<1> USE SxiAssumption
<1>1. head \in Index /\ tail \in Index /\ wslot \in Index
  BY DEF Init, Index
<1>8. wover \in 0..(NWords + NWritten)
  BY DEF Init
<1>2. data \in [Index -> 0..(NWords + NWritten)] /\ overflow \in 0..(NWords + NWritten)
  BY DEF Init
<1>3. arrived \in 0..NWords /\ handled \in 0..arrived /\ wcount \in 0..MaxCount
      /\ wword \in 0..NWritten
  BY DEF Init
<1>4. irq \in BOOLEAN
  BY DEF Init
<1>5. /\ pc \in [Readers -> {"idle", "wait", "sleep", "size", "copy", "drop"}]
      /\ count \in [Readers -> 0..MaxCount] /\ bytes \in [Readers -> 0..MaxCount]
  BY DEF Init
<1>6. wpc \in {"idle", "fault", "space", "loop", "put", "count", "store", "advance"}
  BY DEF Init
<1>7. Locals
  BY DEF Init, Locals
<1> QED BY <1>1, <1>2, <1>3, <1>4, <1>5, <1>6, <1>7, <1>8 DEF TInv, TypeOK

(* Waking moves sleepers only.                                              *)
LEMMA WakeFacts ==
  ASSUME TypeOK, WakeUp
  PROVE  /\ pc' \in [Readers -> {"idle", "wait", "sleep", "size", "copy", "drop"}]
         /\ \A r \in Readers : /\ pc'[r] # "sleep"
                               /\ pc[r] # "sleep" => pc'[r] = pc[r]
                               /\ pc[r] = "sleep" => pc'[r] = "wait"
BY DEF TypeOK, WakeUp

(* A put leaves the pointers and the words in range.                        *)
LEMMA PutFacts ==
  ASSUME TInv, NEW d \in 1..(NWords + NWritten), cb_put(d)
  PROVE  /\ head' \in Index /\ tail' = tail
         /\ data' \in [Index -> 0..(NWords + NWritten)]
         /\ overflow' \in overflow..(overflow + 1)
<1>1. And(head + 1) \in Index
  BY Wrap, SxiAssumption DEF TInv, TypeOK, Index
<1>2. d \in 0..(NWords + NWritten)
  BY SxiAssumption
<1>3. overflow \in Nat
  BY SxiAssumption DEF TInv, TypeOK
<1> QED BY <1>1, <1>2, <1>3 DEF cb_put, TInv, TypeOK

LEMMA TInvNext == TInv /\ [Next]_vars => TInv'
<1> SUFFICES ASSUME TInv, [Next]_vars PROVE TInv'
  OBVIOUS
<1> USE SxiAssumption
<1>1. CASE Arrive
  BY <1>1 DEF Arrive, TInv, TypeOK, Locals, cbvars, rdvars, wrvars
<1>2. CASE IrqEnter
  BY <1>2 DEF IrqEnter, TInv, TypeOK, Locals, cbvars, rdvars, wrvars
<1>3. CASE IrqPut
  <2>1. Words + 1 \in 1..(NWords + NWritten) /\ handled' = handled + 1 /\ handled < arrived
    BY <1>3 DEF IrqPut, Words, TInv, TypeOK
  <2>2. /\ head' \in Index /\ tail' = tail
        /\ data' \in [Index -> 0..(NWords + NWritten)]
        /\ overflow' \in overflow..(overflow + 1)
    BY <1>3, <2>1, PutFacts DEF IrqPut
  <2>3. overflow' <= handled' + wword /\ overflow' \in 0..(NWords + NWritten)
        /\ handled' \in 0..arrived /\ wover <= overflow'
    BY <2>1, <2>2 DEF TInv, TypeOK, Locals
  <2>4. UNCHANGED <<arrived, irq, rdvars, wrvars>>
    BY <1>3 DEF IrqPut
  <2> QED BY <2>2, <2>3, <2>4 DEF TInv, TypeOK, Locals, rdvars, wrvars
<1>4. CASE IrqReturn
  <2>1. UNCHANGED <<cbvars, arrived, handled, count, bytes, got, wrvars>> /\ irq' \in BOOLEAN
    BY <1>4 DEF IrqReturn
  <2> QED BY <1>4, <2>1, WakeFacts DEF IrqReturn, TInv, TypeOK, Locals, cbvars, wrvars
<1>5. ASSUME NEW r \in Readers, Read(r) PROVE TInv'
  <2>1. UNCHANGED <<head, overflow, data, devvars, wrvars>>
    BY <1>5 DEF Read, ReadCall, ReadWait, ReadSignal, ReadSize, ReadCopy, ReadDrop, cbvars
  <2>2. tail' \in Index
    <3>1. CASE ReadDrop(r)
      <4>1. tail + bytes[r] \in Int
        BY DEF TInv, TypeOK, Index
      <4> QED BY <3>1, <4>1, Wrap DEF ReadDrop
    <3>2. CASE ~ReadDrop(r)
      BY <1>5, <3>2 DEF Read, ReadCall, ReadWait, ReadSignal, ReadSize, ReadCopy,
         cbvars, TInv, TypeOK
    <3> QED BY <3>1, <3>2
  <2>3. /\ pc' \in [Readers -> {"idle", "wait", "sleep", "size", "copy", "drop"}]
        /\ count' \in [Readers -> 0..MaxCount] /\ bytes' \in [Readers -> 0..MaxCount]
        /\ \A s \in Readers : pc'[s] \in {"copy", "drop"} => bytes'[s] \in 1..count'[s]
    <3> USE DEF TInv, TypeOK, Locals
    <3>1. CASE ReadCall(r)
      BY <3>1 DEF ReadCall, Goto
    <3>2. CASE ReadWait(r)
      BY <3>2 DEF ReadWait, Goto
    <3>3. CASE Return(r)
      BY <3>3 DEF Return, Goto
    <3>4. CASE ReadSize(r) /\ ~Return(r)
      <4>1. CIRC_CNT_TO_END \in Nat
        BY CircIs DEF Circ, Index
      <4> DEFINE n == Least(CIRC_CNT_TO_END, count[r])
      <4>2. n \in 0..count[r]
        BY <4>1 DEF Least
      <4>3. n # 0 /\ bytes' = [bytes EXCEPT ![r] = n] /\ pc' = [pc EXCEPT ![r] = "copy"]
            /\ count' = count
        BY <3>4 DEF ReadSize, Goto
      <4> HIDE DEF n
      <4> QED BY <4>2, <4>3
    <3>5. CASE ReadCopy(r) /\ ~Return(r)
      BY <3>5 DEF ReadCopy, Goto
    <3>6. CASE ReadDrop(r)
      BY <3>6 DEF ReadDrop, Goto
    <3> QED BY <1>5, <3>1, <3>2, <3>3, <3>4, <3>5, <3>6
            DEF Read, ReadSignal, ReadSize, ReadCopy
  <2>4. DOMAIN got' = Readers
    BY <1>5 DEF Read, ReadCall, ReadWait, ReadSignal, ReadSize, ReadCopy, ReadDrop, Return,
       TInv, Locals
  <2> QED BY <2>1, <2>2, <2>3, <2>4 DEF TInv, TypeOK, Locals, devvars, wrvars
<1>6. CASE WriteCall
  BY <1>6 DEF WriteCall, TInv, TypeOK, Locals, Least, cbvars, devvars, rdvars
<1>7. CASE WriteSpace
  BY <1>7 DEF WriteSpace, TInv, TypeOK, Locals, cbvars, devvars, rdvars
<1>8. CASE WriteLoop
  <2>1. UNCHANGED <<cbvars, devvars, count, bytes, got, wcount, wword, wslot, wover>>
    BY <1>8 DEF WriteLoop
  <2>2. wpc' \in {"idle", "put", "fault"} /\ (wpc' = "put" => wcount > 0)
    BY <1>8 DEF WriteLoop
  <2>3. pc' = pc \/ WakeUp
    BY <1>8 DEF WriteLoop
  <2> QED BY <2>1, <2>2, <2>3, WakeFacts DEF TInv, TypeOK, Locals, cbvars, devvars
<1>9. CASE WritePut
  BY <1>9 DEF WritePut, TInv, TypeOK, Locals, cbvars, devvars, rdvars
<1>13. CASE WriteCount
  BY <1>13 DEF WriteCount, TInv, TypeOK, Locals, devvars, rdvars
<1>10. CASE WriteStore
  <2>1. Words + 1 \in 0..(NWords + NWritten)
    BY <1>10 DEF WriteStore, Words, TInv, TypeOK, Locals
  <2> QED BY <1>10, <2>1 DEF WriteStore, TInv, TypeOK, Locals, devvars, rdvars
<1>11. CASE WriteAdvance
  <2>1. head' \in Index
    BY <1>11, Wrap DEF WriteAdvance, TInv, TypeOK, Index
  <2> QED BY <1>11, <2>1 DEF WriteAdvance, TInv, TypeOK, Locals, devvars, rdvars
<1>12. CASE UNCHANGED vars
  BY <1>12 DEF vars, cbvars, devvars, rdvars, wrvars, TInv, TypeOK, Locals
<1> QED BY <1>1, <1>2, <1>3, <1>4, <1>5, <1>6, <1>7, <1>8, <1>9, <1>10, <1>11, <1>12, <1>13
        DEF Next, Handler, Write

(* Types, for any number of readers (sxi_sim_driver.c:80-181): both         *)
(* pointers stay in the array and each call's counts in their range.        *)
THEOREM SxiTypeCorrect == Spec => []TypeOK
<1>1. Spec => []TInv
  BY InitTInv, TInvNext, PTL DEF Spec
<1>2. TInv => TypeOK
  BY DEF TInv
<1> QED BY <1>1, <1>2, PTL
-----------------------------------------------------------------------------
(* The words stored, and what the pointers do to them.                      *)

Stored == 0..(NWords + NWritten)

\* The slot i places after the tail.
SlotAt(i) == IF tail + i < CB_SIZE THEN tail + i ELSE tail + i - CB_SIZE

Contained ==
  /\ Contents \in Seq(Stored) /\ Len(Contents) = CIRC_CNT
  /\ \A i \in 1..CIRC_CNT : /\ SlotAt(i - 1) \in Index
                            /\ Contents[i] = data[SlotAt(i - 1)]

LEMMA ContentsIs == TypeOK => Contained
<1> SUFFICES ASSUME TypeOK PROVE Contained
  OBVIOUS
<1>1. CIRC_CNT \in 0..(CB_SIZE - 1) /\ CIRC_CNT \in Nat
  BY CircIs, SxiAssumption DEF TypeOK, Circ
<1>2. \A i \in 1..CIRC_CNT : SlotAt(i - 1) \in Index /\ And(tail + i - 1) = SlotAt(i - 1)
  <2> SUFFICES ASSUME NEW i \in 1..CIRC_CNT
               PROVE  SlotAt(i - 1) \in Index /\ And(tail + i - 1) = SlotAt(i - 1)
    OBVIOUS
  <2>1. tail + i - 1 \in Int /\ (tail + i - 1 \in Index \/ tail + i - 1 \in CB_SIZE..(2 * CB_SIZE - 1))
    BY <1>1, SxiAssumption DEF TypeOK, Index
  <2> QED BY <2>1, <1>1, Wrap, SxiAssumption DEF SlotAt, TypeOK, Index
<1>3. \A i \in 1..CIRC_CNT : data[SlotAt(i - 1)] \in Stored
  BY <1>2 DEF TypeOK, Stored
<1>4. \A i \in 1..CIRC_CNT : data[And(tail + i - 1)] \in Stored
  BY <1>2, <1>3
<1>5. Contents \in [1..CIRC_CNT -> Stored]
  BY <1>4 DEF Contents
<1>6. Contents \in Seq(Stored) /\ Len(Contents) = CIRC_CNT
  BY <1>1, <1>5
<1> QED BY <1>2, <1>6 DEF Contained, Contents

LEMMA ContentsThen == TypeOK' => Contained'
BY ContentsIs, PTL

LEMMA CircNow ==
  ASSUME TypeOK
  PROVE  /\ head \in 0..(CB_SIZE - 1) /\ tail \in 0..(CB_SIZE - 1)
         /\ Circ
BY CircIs DEF TypeOK, Index

LEMMA CircNext ==
  ASSUME TypeOK'
  PROVE  /\ head' \in 0..(CB_SIZE - 1) /\ tail' \in 0..(CB_SIZE - 1)
         /\ Circ'
BY CircThen DEF TypeOK, Index

(* A store in the slot of the head is not seen by the readers.              *)
LEMMA StoreUnseen ==
  ASSUME TypeOK, TypeOK', UNCHANGED <<head, tail>>,
         \A i \in Index : i # head => data'[i] = data[i]
  PROVE  /\ UNCHANGED <<CIRC_CNT, CIRC_SPACE, CIRC_CNT_TO_END>>
         /\ Contents' = Contents
<1>1. UNCHANGED <<CIRC_CNT, CIRC_SPACE, CIRC_CNT_TO_END>>
  BY DEF CIRC_CNT, CIRC_SPACE, CIRC_CNT_TO_END
<1>2. \A i \in 1..CIRC_CNT : SlotAt(i - 1)' = SlotAt(i - 1) /\ SlotAt(i - 1) # head
  BY CircNow, SxiAssumption DEF Circ, SlotAt
<1>3. Contained /\ Contained'
  BY ContentsIs, ContentsThen
<1>4. \A i \in 1..CIRC_CNT : Contents'[i] = Contents[i]
  <2> SUFFICES ASSUME NEW i \in 1..CIRC_CNT PROVE Contents'[i] = Contents[i]
    OBVIOUS
  <2>1. Contents'[i] = data'[SlotAt(i - 1)'] /\ Contents[i] = data[SlotAt(i - 1)]
        /\ SlotAt(i - 1) \in Index
    BY <1>1, <1>3 DEF Contained
  <2> QED BY <1>2, <2>1
<1>5. /\ Contents \in Seq(Stored) /\ Contents' \in Seq(Stored)
      /\ Len(Contents) = CIRC_CNT /\ Len(Contents') = CIRC_CNT
  BY <1>1, <1>3 DEF Contained
<1> QED BY <1>1, <1>4, <1>5, SeqEqual

(* A new head shows the word in its old slot, and takes one slot of room.   *)
LEMMA HeadAppends ==
  ASSUME TypeOK, TypeOK', NEW w \in Stored, CIRC_SPACE # 0,
         head' = And(head + 1), tail' = tail, data'[head] = w,
         \A i \in Index : i # head => data'[i] = data[i]
  PROVE  /\ CIRC_CNT' = CIRC_CNT + 1 /\ CIRC_CNT < CB_SIZE - 1
         /\ CIRC_CNT_TO_END <= CIRC_CNT_TO_END'
         /\ Contents' = Append(Contents, w)
<1>1. head' = IF head = CB_SIZE - 1 THEN 0 ELSE head + 1
  BY Advances DEF TypeOK
<1>2. /\ CIRC_CNT' = CIRC_CNT + 1 /\ CIRC_CNT < CB_SIZE - 1
      /\ CIRC_CNT_TO_END <= CIRC_CNT_TO_END'
  BY <1>1, CircNow, CircNext, SxiAssumption DEF Circ
<1> DEFINE n == CIRC_CNT
<1>3. n \in Nat /\ CIRC_CNT' = n + 1
  BY <1>2, CircNow, SxiAssumption DEF Circ
<1>4. \A i \in 1..n : SlotAt(i - 1)' = SlotAt(i - 1) /\ SlotAt(i - 1) # head
  BY CircNow, SxiAssumption DEF Circ, SlotAt
<1>5. \A i \in Nat : i = n => SlotAt(i)' = head
  BY CircNow, <1>2, SxiAssumption DEF Circ, SlotAt
<1>6. Contained /\ Contained'
  BY ContentsIs, ContentsThen
<1>7. \A i \in 1..n : Contents'[i] = Contents[i]
  <2> SUFFICES ASSUME NEW i \in 1..n PROVE Contents'[i] = Contents[i]
    OBVIOUS
  <2>0. i \in 1..CIRC_CNT /\ i \in 1..CIRC_CNT'
    BY <1>3
  <2>1. Contents'[i] = data'[SlotAt(i - 1)'] /\ Contents[i] = data[SlotAt(i - 1)]
        /\ SlotAt(i - 1) \in Index
    BY <2>0, <1>6 DEF Contained
  <2> QED BY <1>4, <2>1
<1>8. Contents'[n + 1] = w
  <2>1. PICK m \in Nat : m = n
    BY <1>3
  <2>2. m + 1 \in 1..CIRC_CNT' /\ (m + 1) - 1 = m
    BY <1>3, <2>1
  <2>3. Contents'[m + 1] = data'[SlotAt((m + 1) - 1)']
    BY <2>2, <1>6 DEF Contained
  <2>4. Contents'[m + 1] = data'[SlotAt(m)']
    BY <2>2, <2>3
  <2>5. SlotAt(m)' = head
    BY <1>5, <2>1
  <2> QED BY <2>1, <2>4, <2>5
<1>9. /\ Contents \in Seq(Stored) /\ Contents' \in Seq(Stored)
      /\ Len(Contents) = n /\ Len(Contents') = n + 1
  BY <1>3, <1>6 DEF Contained
<1>10. /\ Append(Contents, w) \in Seq(Stored) /\ Len(Append(Contents, w)) = n + 1
       /\ \A i \in 1..n : Append(Contents, w)[i] = Contents[i]
       /\ Append(Contents, w)[n + 1] = w
  BY <1>9, AppendProperties
<1> HIDE DEF n
<1>11. \A i \in 1..(n + 1) : Contents'[i] = Append(Contents, w)[i]
  BY <1>3, <1>7, <1>8, <1>10
<1> QED BY <1>2, <1>9, <1>10, <1>11, SeqEqual

(* A new tail drops the oldest words, and nothing else.                     *)
LEMMA TailDrops ==
  ASSUME TypeOK, TypeOK', NEW n \in 1..MaxCount, n <= CIRC_CNT_TO_END,
         tail' = And(tail + n), UNCHANGED <<head, data>>
  PROVE  /\ n <= CIRC_CNT
         /\ CIRC_CNT' = CIRC_CNT - n
         /\ CIRC_SPACE' = CIRC_SPACE + n
         /\ Contents' = SubSeq(Contents, n + 1, Len(Contents))
<1>0. n \in Nat \ {0}
  BY SxiAssumption
<1>1. tail' = IF tail + n = CB_SIZE THEN 0 ELSE tail + n
  <2>1. n \in 0..(CB_SIZE - tail)
    BY <1>0, CircNow, SxiAssumption DEF Circ
  <2> QED BY <2>1, Advances DEF TypeOK
<1>2. n <= CIRC_CNT /\ CIRC_CNT' = CIRC_CNT - n /\ CIRC_SPACE' = CIRC_SPACE + n
  BY <1>0, <1>1, CircNow, CircNext, SxiAssumption DEF Circ
<1> DEFINE c == CIRC_CNT
<1>3. c \in Nat /\ CIRC_CNT' = c - n /\ c - n \in Nat
  BY <1>0, <1>2, CircNow, SxiAssumption DEF Circ
<1>4. \A i \in 1..(c - n) : SlotAt(i - 1)' = SlotAt(n + i - 1)
  BY <1>0, <1>1, <1>2, CircNow, SxiAssumption DEF Circ, SlotAt
<1>5. Contained /\ Contained'
  BY ContentsIs, ContentsThen
<1>6. \A i \in 1..(c - n) : Contents'[i] = Contents[n + i]
  <2> SUFFICES ASSUME NEW i \in 1..(c - n) PROVE Contents'[i] = Contents[n + i]
    OBVIOUS
  <2>1. i \in 1..CIRC_CNT' /\ n + i \in 1..CIRC_CNT
    BY <1>0, <1>3
  <2>2. Contents'[i] = data'[SlotAt(i - 1)'] /\ Contents[n + i] = data[SlotAt(n + i - 1)]
    BY <2>1, <1>5 DEF Contained
  <2> QED BY <1>4, <2>2
<1>7. /\ Contents \in Seq(Stored) /\ Contents' \in Seq(Stored)
      /\ Len(Contents) = c /\ Len(Contents') = c - n
  BY <1>3, <1>5 DEF Contained
<1> DEFINE s == SubSeq(Contents, n + 1, c)
<1>8. \A i \in (n + 1)..c : Contents[i] \in Stored
  BY <1>0, <1>3, <1>7, ElementOfSeq
<1>9. /\ s \in Seq(Stored) /\ Len(s) = IF n + 1 <= c THEN c - (n + 1) + 1 ELSE 0
      /\ \A i \in 1..(c - (n + 1) + 1) : s[i] = Contents[(n + 1) + i - 1]
  <2>1. n + 1 \in Int /\ c \in Int
    BY <1>0, <1>3
  <2> HIDE DEF c
  <2> QED BY <2>1, <1>8, SubSeqProperties
<1> HIDE DEF c, s
<1>10. Len(s) = c - n /\ \A i \in 1..(c - n) : s[i] = Contents[n + i]
  <2>1. c - (n + 1) + 1 = c - n /\ \A i \in 1..(c - n) : (n + 1) + i - 1 = n + i
    BY <1>0, <1>3
  <2>2. Len(s) = c - n
    BY <1>0, <1>3, <1>9
  <2> QED BY <1>9, <2>1, <2>2
<1>11. Contents' = s
  BY <1>6, <1>7, <1>9, <1>10, SeqEqual
<1> QED BY <1>2, <1>7, <1>11 DEF s
-----------------------------------------------------------------------------
(***************************************************************************)
(* The invariant, for one reader.  Until the handler puts amid a put of    *)
(* the writer (raced), the writer has the room it looked for, the handler  *)
(* left its slot and the overflow it read alone, what the reader counted   *)
(* is still there, what it copied is what its drop removes, and the words  *)
(* that passed are in order.                                               *)
(***************************************************************************)
Alone == \A r, s \in Readers : r = s

Placed ==
  /\ wpc \in {"store", "advance"} => wslot = head /\ CIRC_SPACE # 0
  /\ wpc = "advance" => data[head] = Words + 1
  /\ wpc = "count" => wover = overflow

Counted == \A r \in Readers : pc[r] \in {"copy", "drop"} => bytes[r] <= CIRC_CNT_TO_END

Copied == \A r \in Readers : pc[r] = "drop" => got[r] = SubSeq(Contents, 1, bytes[r])

Ordered ==
  /\ taken \in Seq(Stored)
  /\ \A i \in 1..Len(Passed) : Passed[i] <= Words
  /\ \A i \in 1..(Len(Passed) - 1) : Passed[i] < Passed[i + 1]
  /\ Len(Passed) + overflow = Words

Calm == Placed /\ Counted /\ Copied /\ Ordered

\* With an idle device the writer alone puts words, and finds room.
Undisturbed ==
  arrived = 0 => /\ ~raced /\ overflow = 0 /\ ~irq
                 /\ wpc = "put" => CIRC_SPACE # 0
                 /\ wpc # "count"

\* Whoever fills the buffer wakes the readers before it leaves the processor.
Awake ==
  wpc \in {"idle", "fault", "space"} /\ CIRC_SPACE = 0 /\ ~irq
    => \A r \in Readers : pc[r] # "sleep"

Inv == TInv /\ (~raced => Calm) /\ Undisturbed /\ Awake

LEMMA WordsRange == TInv => Words \in Nat /\ overflow \in Nat /\ (handled < arrived \/ wcount >= 1 => Words + 1 \in Stored)
BY SxiAssumption DEF TInv, TypeOK, Locals, Words, Stored

(* Words that pass in the order they are put stay in order.                 *)
LEMMA OrderPut ==
  ASSUME TInv, Ordered, Words + 1 \in Stored, UNCHANGED <<taken, overflow>>,
         Contents' = Append(Contents, Words + 1), Words' = Words + 1
  PROVE  Ordered'
<1>1. Contents \in Seq(Stored) /\ taken \in Seq(Stored)
  BY ContentsIs DEF TInv, Contained, Ordered
<1>2. Passed \in Seq(Stored)
  BY <1>1, ConcatProperties DEF Passed
<1>3. Append(Contents, Words + 1) = Contents \o <<Words + 1>>
  BY <1>1, AppendIsConcat
<1>4. <<Words + 1>> \in Seq(Stored)
  OBVIOUS
<1>5. Passed' = Passed \o <<Words + 1>>
  BY <1>1, <1>3, <1>4, ConcatAssociative DEF Passed
<1>6. Passed' = Append(Passed, Words + 1)
  BY <1>2, <1>5, AppendIsConcat
<1> DEFINE p == Passed
<1>7. p \in Seq(Stored) /\ Len(p) \in Nat /\ p' = Append(p, Words + 1)
  BY <1>2, <1>6, LenProperties
<1>8. /\ Len(p') = Len(p) + 1
      /\ \A i \in 1..Len(p) : p'[i] = p[i]
      /\ p'[Len(p) + 1] = Words + 1
  BY <1>7, AppendProperties
<1>9. \A i \in 1..Len(p) : p[i] \in Nat /\ p[i] <= Words
  <2> SUFFICES ASSUME NEW i \in 1..Len(p) PROVE p[i] \in Nat /\ p[i] <= Words
    OBVIOUS
  <2>1. p[i] \in Stored
    BY <1>7, ElementOfSeq
  <2>2. p[i] <= Words
    BY DEF Ordered
  <2> HIDE DEF p
  <2> QED BY <2>1, <2>2, SxiAssumption DEF Stored
<1>10. \A i \in 1..(Len(p) - 1) : p[i] < p[i + 1]
  BY DEF Ordered
<1>11. Words \in Nat /\ overflow \in Nat /\ Len(p) + overflow = Words
  BY WordsRange DEF Ordered
<1> HIDE DEF p
<1>12. \A i \in 1..Len(p') : p'[i] <= Words + 1
  BY <1>7, <1>8, <1>9, <1>11
<1>13. \A i \in 1..(Len(p') - 1) : p'[i] < p'[i + 1]
  <2> SUFFICES ASSUME NEW i \in 1..Len(p) PROVE p'[i] < p'[i + 1]
    BY <1>7, <1>8
  <2>1. CASE i = Len(p)
    BY <2>1, <1>7, <1>8, <1>9, <1>11
  <2>2. CASE i # Len(p)
    <3>1. i \in 1..(Len(p) - 1) /\ i + 1 \in 1..Len(p)
      BY <2>2, <1>7
    <3> QED BY <3>1, <1>8, <1>10
  <2> QED BY <2>1, <2>2
<1>14. Len(p') + overflow' = Words'
  BY <1>7, <1>8, <1>11
<1> QED BY <1>1, <1>12, <1>13, <1>14 DEF p, Ordered

LEMMA OrderKept ==
  ASSUME TInv, Ordered, taken' \in Seq(Stored), Passed' = Passed,
         \/ UNCHANGED <<overflow, Words>>
         \/ overflow' = overflow + 1 /\ Words' = Words + 1
  PROVE  Ordered'
<1>1. Words \in Nat /\ overflow \in Nat
  BY WordsRange
<1>2. Contents \in Seq(Stored) /\ taken \in Seq(Stored)
  BY ContentsIs DEF TInv, Contained, Ordered
<1>3. Passed \in Seq(Stored)
  BY <1>2, ConcatProperties DEF Passed
<1>4. Len(Passed) \in Nat /\ \A i \in 1..Len(Passed) : Passed[i] \in Nat
  <2>1. \A i \in 1..Len(Passed) : Passed[i] \in Stored
    BY <1>3, ElementOfSeq
  <2> QED BY <1>3, <2>1, LenProperties DEF Stored
<1>5. \A i \in 1..Len(Passed) : Passed[i] <= Words'
  BY <1>1, <1>4 DEF Ordered
<1>6. Len(Passed) + overflow' = Words'
  BY <1>1, <1>4 DEF Ordered
<1> QED BY <1>5, <1>6 DEF Ordered

(* A longer buffer begins as it did.                                        *)
LEMMA PrefixKept ==
  ASSUME NEW s \in Seq(Stored), NEW w \in Stored, NEW n \in 0..Len(s)
  PROVE  SubSeq(Append(s, w), 1, n) = SubSeq(s, 1, n)
<1>1. Len(s) \in Nat
  BY LenProperties
<1>2. Append(s, w) = s \o <<w>> /\ <<w>> \in Seq(Stored)
  BY AppendIsConcat
<1>3. CASE n = 0
  BY <1>3, SubSeqEmpty
<1>4. CASE n # 0
  <2>1. 1 \in 1..Len(s) /\ n \in 1..Len(s)
    BY <1>1, <1>4
  <2> QED BY <1>2, <2>1, SubSeqOfConcat1
<1> QED BY <1>3, <1>4

(* A put moves neither the end of a round nor the words it copied.          *)
LEMMA RoundKept ==
  ASSUME TInv, TypeOK', Counted, Copied, UNCHANGED <<pc, bytes, got>>, NEW w \in Stored,
         CIRC_CNT_TO_END <= CIRC_CNT_TO_END',
         Contents' = Contents \/ Contents' = Append(Contents, w)
  PROVE  Counted' /\ Copied'
<1>1. \A r \in Readers : pc[r] \in {"copy", "drop"} =>
        /\ bytes[r] \in Nat /\ bytes[r] <= CIRC_CNT_TO_END
  BY SxiAssumption DEF TInv, TypeOK, Locals, Counted
<1>2. CIRC_CNT_TO_END \in Nat /\ CIRC_CNT_TO_END' \in Nat /\ CIRC_CNT_TO_END <= CIRC_CNT
      /\ CIRC_CNT \in Nat
  BY CircNow, CircNext, SxiAssumption DEF Circ, TInv
<1>3. Counted'
  BY <1>1, <1>2 DEF Counted
<1>4. Contents \in Seq(Stored) /\ Len(Contents) = CIRC_CNT
  BY ContentsIs DEF TInv, Contained
<1>5. \A r \in Readers : pc[r] = "drop" => bytes[r] \in 0..Len(Contents)
  BY <1>1, <1>2, <1>4
<1>6. \A r \in Readers : pc[r] = "drop" =>
        SubSeq(Contents', 1, bytes[r]) = SubSeq(Contents, 1, bytes[r])
  BY <1>4, <1>5, PrefixKept
<1>7. Copied'
  BY <1>6 DEF Copied
<1> QED BY <1>3, <1>7

(* A step that leaves the buffer alone, puts no word, and moves nobody to a *)
(* place of which the invariant speaks.                                     *)
LEMMA CalmQuiet ==
  ASSUME TInv, Calm, UNCHANGED <<cbvars, taken, Words>>,
         wpc' \in {"store", "advance", "count"} => UNCHANGED <<wpc, wslot, wover>>,
         \A r \in Readers : pc'[r] \in {"copy", "drop"} =>
           pc'[r] = pc[r] /\ bytes'[r] = bytes[r] /\ got'[r] = got[r]
  PROVE  Calm'
<1>1. UNCHANGED <<CIRC_CNT, CIRC_SPACE, CIRC_CNT_TO_END, Contents>>
  BY DEF cbvars, CIRC_CNT, CIRC_SPACE, CIRC_CNT_TO_END, Contents
<1>2. Placed'
  BY <1>1 DEF Calm, Placed, cbvars
<1>3. Counted' /\ Copied'
  BY <1>1 DEF Calm, Counted, Copied
<1>4. taken' \in Seq(Stored) /\ Passed' = Passed
  BY <1>1 DEF Calm, Ordered, Passed
<1>5. Ordered'
  BY <1>4, OrderKept DEF Calm, cbvars
<1> QED BY <1>2, <1>3, <1>5 DEF Calm

LEMMA CalmNext ==
  ASSUME Alone, TInv, TInv', Calm, ~raced, ~raced', [Next]_vars
  PROVE  Calm'
<1> USE DEF cbvars, devvars, rdvars, wrvars, hvars
<1>0. TypeOK /\ TypeOK'
  BY DEF TInv
<1>1. CASE Arrive \/ IrqEnter
  BY <1>1, CalmQuiet DEF Arrive, IrqEnter, Words
<1>2. CASE IrqReturn
  BY <1>0, <1>2, CalmQuiet, WakeFacts DEF IrqReturn, Words
<1>3. CASE IrqPut
  <2>1. wpc \notin {"store", "advance"} /\ UNCHANGED <<pc, bytes, got, wpc, taken>>
    BY <1>3 DEF IrqPut
  <2>2. Placed'
    <3>1. wpc = "count" => UNCHANGED <<wover, overflow>>
      BY <1>3 DEF IrqPut, cb_put
    <3> QED BY <2>1, <3>1 DEF Calm, Placed
  <2>3. Words' = Words + 1 /\ Words + 1 \in Stored
    BY <1>3, WordsRange DEF IrqPut, Words, TInv, TypeOK
  <2>4. CASE CIRC_SPACE = 0
    <3>1. UNCHANGED <<head, tail, data>> /\ overflow' = overflow + 1
      BY <1>3, <2>4 DEF IrqPut, cb_put
    <3>2. CIRC_CNT_TO_END' = CIRC_CNT_TO_END /\ Contents' = Contents
      BY <3>1 DEF CIRC_CNT, CIRC_CNT_TO_END, Contents
    <3>3. Counted' /\ Copied'
      BY <2>1, <3>2 DEF Calm, Counted, Copied
    <3>4. taken' \in Seq(Stored) /\ Passed' = Passed
      BY <2>1, <3>2 DEF Calm, Ordered, Passed
    <3>5. Ordered'
      BY <2>3, <3>1, <3>4, OrderKept DEF Calm
    <3> QED BY <2>2, <3>3, <3>5 DEF Calm
  <2>5. CASE CIRC_SPACE # 0
    <3>1. /\ head' = And(head + 1) /\ UNCHANGED <<tail, overflow>>
          /\ data' = [data EXCEPT ![head] = Words + 1]
      BY <1>3, <2>5 DEF IrqPut, cb_put
    <3>2. data'[head] = Words + 1 /\ \A i \in Index : i # head => data'[i] = data[i]
      BY <1>0, <3>1 DEF TypeOK
    <3>3. /\ CIRC_CNT_TO_END <= CIRC_CNT_TO_END'
          /\ Contents' = Append(Contents, Words + 1)
      BY <1>0, <2>3, <2>5, <3>1, <3>2, HeadAppends
    <3>4. Counted' /\ Copied'
      BY <1>0, <2>1, <2>3, <3>3, RoundKept DEF Calm
    <3>5. Ordered'
      BY <2>1, <2>3, <3>1, <3>3, OrderPut DEF Calm
    <3> QED BY <2>2, <3>4, <3>5 DEF Calm
  <2> QED BY <2>4, <2>5
<1>4. ASSUME NEW r \in Readers, ReadCall(r) \/ ReadWait(r) \/ ReadSignal(r)
      PROVE  Calm'
  BY <1>0, <1>4, CalmQuiet
     DEF ReadCall, ReadWait, ReadSignal, Return, Goto, Words, TInv, TypeOK, Locals
<1>5. ASSUME NEW r \in Readers, ReadSize(r) PROVE Calm'
  <2>1. CASE Return(r)
    BY <1>0, <1>5, <2>1, CalmQuiet DEF ReadSize, Return, Goto, Words, TypeOK
  <2>2. CASE ~Return(r)
    <3>1. /\ bytes' = [bytes EXCEPT ![r] = Least(CIRC_CNT_TO_END, count[r])]
          /\ pc' = [pc EXCEPT ![r] = "copy"]
          /\ UNCHANGED <<cbvars, devvars, wrvars, taken, got>>
      BY <1>5, <2>2 DEF ReadSize, Goto
    <3>2. UNCHANGED <<CIRC_CNT, CIRC_SPACE, CIRC_CNT_TO_END, Contents, Words>>
      BY <3>1 DEF CIRC_CNT, CIRC_SPACE, CIRC_CNT_TO_END, Contents, Words
    <3>3. Placed'
      BY <3>1, <3>2 DEF Calm, Placed
    <3>4. CIRC_CNT_TO_END \in Nat /\ count[r] \in Nat
      BY <1>0, CircNow, SxiAssumption DEF Circ, TypeOK
    <3>5. Least(CIRC_CNT_TO_END, count[r]) <= CIRC_CNT_TO_END
      BY <3>4 DEF Least
    <3>6. Counted'
      BY <1>0, <3>1, <3>2, <3>5 DEF Calm, Counted, TypeOK
    <3>7. Copied'
      BY <1>0, <3>1, <3>2 DEF Calm, Copied, TypeOK
    <3>8. Ordered'
      BY <3>1, <3>2, OrderKept DEF Calm, Ordered, Passed
    <3> QED BY <3>3, <3>6, <3>7, <3>8 DEF Calm
  <2> QED BY <2>1, <2>2
<1>6. ASSUME NEW r \in Readers, ReadCopy(r) PROVE Calm'
  <2>1. CASE Return(r)
    BY <1>0, <1>6, <2>1, CalmQuiet DEF ReadCopy, Return, Goto, Words, TypeOK
  <2>2. CASE ~Return(r)
    <3>1. /\ got' = [got EXCEPT ![r] = Window(bytes[r])]
          /\ pc' = [pc EXCEPT ![r] = "drop"] /\ pc[r] = "copy"
          /\ UNCHANGED <<cbvars, devvars, wrvars, taken, bytes>>
      BY <1>6, <2>2 DEF ReadCopy, Goto
    <3>2. UNCHANGED <<CIRC_CNT, CIRC_SPACE, CIRC_CNT_TO_END, Contents, Words>>
      BY <3>1 DEF CIRC_CNT, CIRC_SPACE, CIRC_CNT_TO_END, Contents, Words
    <3>3. Placed'
      BY <3>1, <3>2 DEF Calm, Placed
    <3>4. Counted'
      BY <1>0, <3>1, <3>2 DEF Calm, Counted, TypeOK
    <3>5. Window(bytes[r]) = SubSeq(Contents, 1, bytes[r])
      <4>1. bytes[r] \in 1..MaxCount /\ bytes[r] <= CIRC_CNT_TO_END /\ bytes[r] \in Nat
        BY <1>0, <3>1, SxiAssumption DEF Calm, Counted, TInv, TypeOK, Locals
      <4> DEFINE n == bytes[r]
      <4>2. n \in Nat /\ \A i \in 1..n : /\ i \in 1..CIRC_CNT
                                         /\ tail + i - 1 \in Index
                                         /\ SlotAt(i - 1) = tail + i - 1
        BY <1>0, <4>1, CircNow, SxiAssumption DEF Circ, SlotAt, Index
      <4>3. Contained
        BY <1>0, ContentsIs
      <4> HIDE DEF n
      <4>4. \A i \in 1..n : Contents[i] = data[tail + i - 1] /\ Contents[i] \in Stored
        BY <1>0, <4>2, <4>3 DEF Contained, TypeOK, Stored
      <4>5. \A i \in 1..n : Window(n)[i] = Contents[i]
        BY <4>2, <4>4 DEF Window
      <4>6. Window(n) \in Seq(Stored) /\ Len(Window(n)) = n
        <5>1. Window(n) \in [1..n -> Stored]
          BY <4>2, <4>4 DEF Window
        <5> QED BY <4>2, <5>1
      <4> DEFINE s == SubSeq(Contents, 1, n)
      <4>7. /\ s \in Seq(Stored) /\ Len(s) = n
            /\ \A i \in 1..n : s[i] = Contents[i]
        <5>1. \A i \in 1..n : Contents[i] \in Stored
          BY <4>4
        <5>2. n \in Int /\ 1 \in Int
          BY <4>2
        <5>3. /\ s \in Seq(Stored) /\ Len(s) = IF 1 <= n THEN n - 1 + 1 ELSE 0
              /\ \A i \in 1..(n - 1 + 1) : s[i] = Contents[1 + i - 1]
          BY <5>1, <5>2, SubSeqProperties
        <5> HIDE DEF s
        <5> QED BY <5>3, <4>2
      <4> HIDE DEF s
      <4>8. Window(n) = s
        BY <4>5, <4>6, <4>7, SeqEqual
      <4> QED BY <4>8 DEF n, s
    <3>6. Copied'
      BY <1>0, <3>1, <3>2, <3>5 DEF Calm, Copied, TInv, TypeOK, Locals
    <3>7. Ordered'
      BY <3>1, <3>2, OrderKept DEF Calm, Ordered, Passed
    <3> QED BY <3>3, <3>4, <3>6, <3>7 DEF Calm
  <2> QED BY <2>1, <2>2
<1>7. ASSUME NEW r \in Readers, ReadDrop(r) PROVE Calm'
  <2> DEFINE n == bytes[r]
  <2>1. /\ tail' = And(tail + n) /\ taken' = taken \o got[r]
        /\ pc' = [pc EXCEPT ![r] = "size"] /\ pc[r] = "drop"
        /\ UNCHANGED <<head, overflow, data, wrvars, handled>>
    BY <1>7 DEF ReadDrop, Goto
  <2>2. n \in 1..MaxCount /\ n <= CIRC_CNT_TO_END /\ got[r] = SubSeq(Contents, 1, n)
    BY <1>0, <2>1, SxiAssumption DEF Calm, Counted, Copied, TInv, TypeOK, Locals
  <2> HIDE DEF n
  <2>3. /\ n <= CIRC_CNT /\ CIRC_SPACE' = CIRC_SPACE + n
        /\ Contents' = SubSeq(Contents, n + 1, Len(Contents))
    BY <1>0, <2>1, <2>2, TailDrops
  <2>4. n \in Nat \ {0} /\ CIRC_SPACE \in Nat /\ CIRC_CNT \in Nat
    BY <1>0, <2>2, CircNow, SxiAssumption DEF Circ
  <2>5. UNCHANGED Words
    BY <2>1 DEF Words
  <2>6. Placed'
    BY <2>1, <2>3, <2>4, <2>5 DEF Calm, Placed
  <2>7. \A s \in Readers : pc'[s] = "size"
    BY <1>0, <2>1 DEF Alone, TypeOK
  <2>8. Counted' /\ Copied'
    BY <2>7 DEF Counted, Copied
  <2>9. /\ Contents \in Seq(Stored) /\ Len(Contents) = CIRC_CNT /\ Contents' \in Seq(Stored)
        /\ taken \in Seq(Stored)
    BY <1>0, ContentsIs, ContentsThen DEF Contained, Calm, Ordered
  <2>10. got[r] \o Contents' = Contents
    <3>1. /\ 1 \in 1..(Len(Contents) + 1) /\ n \in (1 - 1)..Len(Contents)
          /\ Len(Contents) \in n..Len(Contents)
      BY <2>3, <2>4, <2>9
    <3>2. SubSeq(Contents, 1, n) \o SubSeq(Contents, n + 1, Len(Contents))
            = SubSeq(Contents, 1, Len(Contents))
      BY <2>9, <3>1, ConcatAdjacentSubSeq
    <3> QED BY <2>2, <2>3, <2>9, <3>2, SubSeqFull
  <2>11. got[r] \in Seq(Stored)
    <3>1. \A i \in 1..n : Contents[i] \in Stored
      BY <2>3, <2>4, <2>9, ElementOfSeq
    <3> QED BY <2>2, <2>4, <3>1, SubSeqProperties
  <2>12. taken' \in Seq(Stored) /\ Passed' = Passed
    <3>1. taken' \in Seq(Stored)
      BY <2>1, <2>9, <2>11, ConcatProperties
    <3>2. (taken \o got[r]) \o Contents' = taken \o (got[r] \o Contents')
      <4>1. \A s, t, u \in Seq(Stored) : (s \o t) \o u = s \o (t \o u)
        BY ConcatAssociative
      <4> QED BY <2>9, <2>11, <4>1
    <3> QED BY <2>1, <2>10, <3>1, <3>2 DEF Passed
  <2>13. Ordered'
    BY <2>1, <2>5, <2>12, OrderKept DEF Calm
  <2> QED BY <2>6, <2>8, <2>13 DEF Calm
<1>8. CASE WriteCall \/ WriteSpace
  BY <1>0, <1>8, CalmQuiet DEF WriteCall, WriteSpace, Words
<1>9. CASE WriteLoop
  <2>1. UNCHANGED <<cbvars, taken, Words, bytes, got>>
        /\ wpc' \in {"idle", "put", "fault"} /\ (pc' = pc \/ WakeUp)
    BY <1>9 DEF WriteLoop, Words
  <2> QED BY <1>0, <2>1, CalmQuiet, WakeFacts
<1>10. CASE WritePut
  <2>1. UNCHANGED <<head, tail, data, pc, bytes, got, taken>> /\ wslot' = head
    BY <1>10 DEF WritePut
  <2>2. UNCHANGED <<CIRC_CNT, CIRC_SPACE, CIRC_CNT_TO_END, Contents>>
    BY <2>1 DEF CIRC_CNT, CIRC_SPACE, CIRC_CNT_TO_END, Contents
  <2>3. Placed'
    BY <1>10, <2>1, <2>2 DEF WritePut, Placed
  <2>4. Counted' /\ Copied'
    BY <2>1, <2>2 DEF Calm, Counted, Copied
  <2>5. UNCHANGED <<overflow, Words>>
    BY <1>10 DEF WritePut, Words
  <2>6. Ordered'
    BY <2>1, <2>2, <2>5, OrderKept DEF Calm, Ordered, Passed
  <2> QED BY <2>3, <2>4, <2>6 DEF Calm
<1>14. CASE WriteCount
  <2>1. UNCHANGED <<head, tail, data, pc, bytes, got, taken>> /\ wpc' = "loop"
        /\ overflow' = overflow + 1
    BY <1>14 DEF WriteCount, Calm, Placed
  <2>2. UNCHANGED <<CIRC_CNT, CIRC_SPACE, CIRC_CNT_TO_END, Contents>>
    BY <2>1 DEF CIRC_CNT, CIRC_SPACE, CIRC_CNT_TO_END, Contents
  <2>3. Placed'
    BY <2>1 DEF Placed
  <2>4. Counted' /\ Copied'
    BY <2>1, <2>2 DEF Calm, Counted, Copied
  <2>5. Words' = Words + 1
    BY <1>0, <1>14, SxiAssumption DEF WriteCount, TypeOK, Words
  <2>6. Ordered'
    BY <2>1, <2>2, <2>5, OrderKept DEF Calm, Ordered, Passed
  <2> QED BY <2>3, <2>4, <2>6 DEF Calm
<1>11. CASE WriteStore
  <2>1. /\ data' = [data EXCEPT ![head] = Words + 1]
        /\ UNCHANGED <<head, tail, overflow, pc, bytes, got, taken, Words, wslot>>
        /\ wpc = "store" /\ wpc' = "advance"
    BY <1>11 DEF WriteStore, Words, Calm, Placed
  <2>2. data'[head] = Words + 1 /\ \A i \in Index : i # head => data'[i] = data[i]
    BY <1>0, <2>1 DEF TypeOK
  <2>3. UNCHANGED <<CIRC_CNT, CIRC_SPACE, CIRC_CNT_TO_END, Contents>>
    BY <1>0, <2>1, <2>2, StoreUnseen
  <2>4. Placed'
    BY <2>1, <2>2, <2>3 DEF Calm, Placed
  <2>5. Counted' /\ Copied'
    BY <2>1, <2>3 DEF Calm, Counted, Copied
  <2>6. Ordered'
    BY <2>1, <2>3, OrderKept DEF Calm, Ordered, Passed
  <2> QED BY <2>4, <2>5, <2>6 DEF Calm
<1>12. CASE WriteAdvance
  <2>1. /\ head' = And(head + 1) /\ CIRC_SPACE # 0 /\ data[head] = Words + 1
        /\ UNCHANGED <<tail, data, overflow, pc, bytes, got, taken>> /\ wpc' = "loop"
    BY <1>12 DEF WriteAdvance, Calm, Placed
  <2>2. Words' = Words + 1 /\ Words + 1 \in Stored
    BY <1>0, <1>12, WordsRange DEF WriteAdvance, Words, TInv, TypeOK, Locals
  <2>3. /\ CIRC_CNT_TO_END <= CIRC_CNT_TO_END'
        /\ Contents' = Append(Contents, Words + 1)
    BY <1>0, <2>1, <2>2, HeadAppends
  <2>4. Placed'
    BY <2>1 DEF Placed
  <2>5. Counted' /\ Copied'
    BY <1>0, <2>1, <2>2, <2>3, RoundKept DEF Calm
  <2>6. Ordered'
    BY <2>1, <2>2, <2>3, OrderPut DEF Calm
  <2> QED BY <2>4, <2>5, <2>6 DEF Calm
<1>13. CASE UNCHANGED vars
  BY <1>13, CalmQuiet DEF vars, Words
<1> QED BY <1>1, <1>2, <1>3, <1>4, <1>5, <1>6, <1>7, <1>8, <1>9, <1>10, <1>11, <1>12, <1>13, <1>14
        DEF Next, Handler, Write, Read

LEMMA UndisturbedNext ==
  ASSUME TInv, TInv', ~raced => Calm, Undisturbed, [Next]_vars
  PROVE  Undisturbed'
<1> SUFFICES ASSUME arrived' = 0
             PROVE  ~raced' /\ overflow' = 0 /\ ~irq' /\ (wpc' = "put" => CIRC_SPACE' # 0)
                     /\ wpc' # "count"
  BY DEF Undisturbed
<1> USE DEF cbvars, devvars, rdvars, wrvars, hvars
<1>0. TypeOK /\ TypeOK'
  BY DEF TInv
<1>1. arrived = 0
  <2>1. arrived' = arrived \/ arrived' = arrived + 1
    BY DEF Next, Handler, Write, Read, Arrive, IrqEnter, IrqPut, IrqReturn, ReadCall,
       ReadWait, ReadSignal, ReadSize, ReadCopy, ReadDrop, WriteCall, WriteSpace, WriteLoop,
       WritePut, WriteCount, WriteStore, WriteAdvance, vars
  <2>2. arrived \in Nat
    BY <1>0, SxiAssumption DEF TypeOK
  <2> QED BY <2>1, <2>2
<1>2. ~raced /\ overflow = 0 /\ ~irq /\ (wpc = "put" => CIRC_SPACE # 0) /\ wpc # "count"
      /\ Calm /\ handled = 0
  BY <1>0, <1>1 DEF Undisturbed, TypeOK
<1>3. CASE UNCHANGED <<head, tail>> /\ UNCHANGED <<overflow, raced, irq>>
           /\ (wpc' = "put" => wpc = "put" \/ CIRC_SPACE # 0) /\ wpc' # "count"
  BY <1>2, <1>3 DEF CIRC_SPACE
<1>4. CASE Arrive \/ Handler
  BY <1>1, <1>2, <1>4, <1>0 DEF Arrive, Handler, IrqEnter, IrqPut, IrqReturn, TypeOK
<1>5. ASSUME NEW r \in Readers, ReadCall(r) \/ ReadWait(r) \/ ReadSignal(r) \/ ReadSize(r)
                                 \/ ReadCopy(r)
      PROVE  UNCHANGED <<head, tail, overflow, raced, irq, wpc>>
  BY <1>5 DEF ReadCall, ReadWait, ReadSignal, ReadSize, ReadCopy
<1>6. ASSUME NEW r \in Readers, ReadDrop(r)
      PROVE  ~raced' /\ overflow' = 0 /\ ~irq' /\ (wpc' = "put" => CIRC_SPACE' # 0)
             /\ wpc' # "count"
  <2>1. UNCHANGED <<overflow, raced, irq, wpc, head, data>> /\ tail' = And(tail + bytes[r])
    BY <1>6 DEF ReadDrop
  <2>2. bytes[r] \in 1..MaxCount /\ bytes[r] <= CIRC_CNT_TO_END
    BY <1>0, <1>2, <1>6, SxiAssumption DEF ReadDrop, Calm, Counted, TInv, TypeOK, Locals
  <2>3. CIRC_SPACE' = CIRC_SPACE + bytes[r]
    BY <1>0, <2>1, <2>2, TailDrops
  <2>4. CIRC_SPACE' # 0
    BY <1>0, <2>2, <2>3, CircNow, SxiAssumption DEF Circ
  <2> QED BY <1>2, <2>1, <2>4
<1>7. CASE WriteCall \/ WriteSpace \/ WriteLoop \/ WriteStore
  BY <1>3, <1>7, <1>0, CircNow, SxiAssumption DEF WriteCall, WriteSpace, WriteLoop, WriteStore, Circ
<1>8. CASE WritePut
  BY <1>2, <1>8 DEF WritePut
<1>9. CASE WriteAdvance
  BY <1>2, <1>9 DEF WriteAdvance
<1>10. CASE UNCHANGED vars
  BY <1>2, <1>3, <1>10 DEF vars
<1>11. CASE WriteCount
  BY <1>2, <1>11 DEF WriteCount
<1> QED BY <1>2, <1>3, <1>4, <1>5, <1>6, <1>7, <1>8, <1>9, <1>10, <1>11 DEF Next, Write, Read

(* A reader sleeps only on an empty buffer, and whoever fills it wakes it.  *)
LEMMA AwakeNext ==
  ASSUME Alone, TInv, TInv', Awake, [Next]_vars
  PROVE  Awake'
<1> SUFFICES ASSUME wpc' \in {"idle", "fault", "space"}, CIRC_SPACE' = 0, ~irq',
                    NEW r \in Readers
             PROVE  pc'[r] # "sleep"
  BY DEF Awake
<1> USE DEF cbvars, devvars, rdvars, wrvars, hvars
<1>0. TypeOK /\ TypeOK'
  BY DEF TInv
<1>1. CASE Arrive \/ IrqEnter
  BY <1>1 DEF Arrive, IrqEnter, CIRC_SPACE, Awake
<1>2. CASE IrqPut
  BY <1>2 DEF IrqPut
<1>3. CASE IrqReturn
  BY <1>0, <1>3, WakeFacts DEF IrqReturn
<1>4. ASSUME NEW s \in Readers, ReadWait(s) PROVE pc'[r] # "sleep"
  <2>1. s = r /\ UNCHANGED <<head, tail>>
    BY <1>4 DEF Alone, ReadWait
  <2>2. CIRC_SPACE = 0
    BY <2>1 DEF CIRC_SPACE
  <2>3. CIRC_CNT_TO_END # 0
    BY <1>0, <2>2, CircNow, SxiAssumption DEF Circ
  <2> QED BY <1>0, <1>4, <2>1, <2>3 DEF ReadWait, Goto, TypeOK
<1>5. ASSUME NEW s \in Readers, ReadDrop(s) PROVE pc'[r] # "sleep"
  <2>1. s = r
    BY DEF Alone
  <2> QED BY <1>0, <1>5, <2>1 DEF ReadDrop, Goto, TypeOK
<1>6. ASSUME NEW s \in Readers, ReadCall(s) \/ ReadSignal(s) \/ ReadSize(s) \/ ReadCopy(s)
      PROVE  pc'[r] # "sleep"
  <2>1. s = r /\ UNCHANGED <<head, tail, irq, wpc>>
    BY <1>6 DEF Alone, ReadCall, ReadSignal, ReadSize, ReadCopy
  <2>2. pc[r] # "sleep"
    BY <2>1 DEF CIRC_SPACE, Awake
  <2> QED BY <1>0, <1>6, <2>1, <2>2
          DEF ReadCall, ReadSignal, ReadSize, ReadCopy, Return, Goto, TypeOK
<1>7. CASE WriteCall
  BY <1>7 DEF WriteCall, CIRC_SPACE, Awake
<1>8. CASE WriteLoop
  <2>1. UNCHANGED <<head, tail>>
    BY <1>8 DEF WriteLoop
  <2>2. CIRC_SPACE = 0
    BY <2>1 DEF CIRC_SPACE
  <2>3. WakeUp
    BY <1>8, <2>2 DEF WriteLoop
  <2> QED BY <1>0, <2>3, WakeFacts
<1>9. CASE WriteSpace \/ WritePut \/ WriteCount \/ WriteStore \/ WriteAdvance
  BY <1>9 DEF WriteSpace, WritePut, WriteCount, WriteStore, WriteAdvance
<1>10. CASE UNCHANGED vars
  BY <1>10 DEF vars, CIRC_SPACE, Awake
<1> QED BY <1>1, <1>2, <1>3, <1>4, <1>5, <1>6, <1>7, <1>8, <1>9, <1>10
        DEF Next, Handler, Write, Read
-----------------------------------------------------------------------------
LEMMA InitEmpty == Init => CIRC_CNT = 0 /\ Contents = <<>>
<1> SUFFICES ASSUME Init PROVE CIRC_CNT = 0 /\ Contents = <<>>
  OBVIOUS
<1>1. TypeOK
  BY InitTInv DEF TInv
<1>2. CIRC_CNT = 0
  BY <1>1, CircNow, SxiAssumption DEF Circ, Init
<1>3. Contents \in Seq(Stored) /\ Len(Contents) = 0
  BY <1>1, <1>2, ContentsIs DEF Contained
<1> QED BY <1>2, <1>3, EmptySeq

LEMMA InitInv == Init => Inv
<1> SUFFICES ASSUME Init PROVE Inv
  OBVIOUS
<1>1. TInv /\ Contents = <<>>
  BY InitTInv, InitEmpty
<1>2. taken = <<>> /\ <<>> \in Seq(Stored)
  BY DEF Init
<1>3. Passed = <<>>
  BY <1>1, <1>2, ConcatEmptySeq DEF Passed
<1>4. Ordered
  BY <1>2, <1>3 DEF Init, Ordered, Words
<1>5. Placed /\ Counted /\ Copied /\ Undisturbed /\ Awake
  BY DEF Init, Placed, Counted, Copied, Undisturbed, Awake
<1> QED BY <1>1, <1>4, <1>5 DEF Inv, Calm

LEMMA RacedStays == [Next]_vars /\ ~raced' => ~raced
BY DEF Next, Handler, Write, Read, Arrive, IrqEnter, IrqPut, IrqReturn, ReadCall, ReadWait,
   ReadSignal, ReadSize, ReadCopy, ReadDrop, WriteCall, WriteSpace, WriteLoop, WritePut,
   WriteCount, WriteStore, WriteAdvance, vars, hvars

LEMMA InvNext ==
  ASSUME Alone
  PROVE  Inv /\ [Next]_vars => Inv'
<1> SUFFICES ASSUME Inv, [Next]_vars PROVE Inv'
  OBVIOUS
<1>1. TInv /\ TInv'
  BY TInvNext DEF Inv
<1>2. ~raced' => Calm'
  BY <1>1, CalmNext, RacedStays DEF Inv
<1>3. Undisturbed'
  BY <1>1, UndisturbedNext DEF Inv
<1>4. Awake'
  BY <1>1, AwakeNext DEF Inv
<1> QED BY <1>1, <1>2, <1>3, <1>4 DEF Inv

LEMMA SxiInvariant == ASSUME Alone PROVE Spec => []Inv
BY InitInv, InvNext, PTL DEF Spec

(***************************************************************************)
(* One reader, whatever step the handler or the writer runs between its    *)
(* look at the count, its copy and its drop: the words it copies are in    *)
(* the array and stored (sxi_sim_driver.c:135-147), for every size.        *)
(***************************************************************************)
THEOREM SxiCopyInside == ASSUME Alone PROVE Spec => []CopyInsideBuffer
<1>1. Inv => CopyInsideBuffer
  BY SxiAssumption DEF Inv, TInv, TypeOK, Locals, Calm, Counted, CopyInsideBuffer
<1> QED BY <1>1, SxiInvariant, PTL

(***************************************************************************)
(* One reader: every word is delivered once and in order, is still stored, *)
(* or was counted as an overflow, until the handler puts amid a put of     *)
(* sxi_write: between its test for room and its new head, or inside its    *)
(* b->overflow += 1 (sxi_sim_driver.c:100-108).  For every size and any    *)
(* counts.                                                                 *)
(***************************************************************************)
THEOREM SxiNoneLost == ASSUME Alone PROVE Spec => []NoneLostUncounted
<1>1. Inv => NoneLostUncounted
  BY DEF Inv, Calm, Ordered, NoneLostUncounted
<1> QED BY <1>1, SxiInvariant, PTL

(* With an idle device the room sxi_write saw does not shrink before its    *)
(* put, so it never makes the buffer overflow (sxi_sim_driver.c:167-176).   *)
THEOREM SxiWriterNeverOverflows == ASSUME Alone PROVE Spec => []WriterNeverOverflows
<1>1. Inv => WriterNeverOverflows
  BY DEF Inv, Undisturbed, WriterNeverOverflows
<1> QED BY <1>1, SxiInvariant, PTL

(* A writer that yields to its reader never yields to one that sleeps       *)
(* (sxi_sim_driver.c:163-165).                                              *)
THEOREM SxiWriterYieldsToAwake == ASSUME Alone PROVE Spec => []WriterYieldsToAwake
<1>1. Inv => WriterYieldsToAwake
  BY DEF Inv, Awake, WriterYieldsToAwake
<1> QED BY <1>1, SxiInvariant, PTL

(* Sleep begins on an empty buffer; words come by the handler or a writer.  *)
LEMMA SleeperNext ==
  ASSUME Alone, TInv, TInv', SleeperHasWaker, [Next]_vars
  PROVE  SleeperHasWaker'
<1> SUFFICES ASSUME ~irq', wpc' = "idle", CIRC_CNT' # 0, NEW r \in Readers
             PROVE  pc'[r] # "sleep"
  BY DEF SleeperHasWaker
<1> USE DEF cbvars, devvars, rdvars, wrvars, hvars
<1>0. TypeOK /\ TypeOK'
  BY DEF TInv
<1>1. CASE Arrive \/ IrqEnter
  BY <1>1 DEF Arrive, IrqEnter, CIRC_CNT, SleeperHasWaker
<1>2. CASE IrqPut
  BY <1>2 DEF IrqPut
<1>3. CASE IrqReturn
  BY <1>0, <1>3, WakeFacts DEF IrqReturn
<1>4. ASSUME NEW s \in Readers, ReadWait(s) PROVE pc'[r] # "sleep"
  <2>1. s = r /\ UNCHANGED <<head, tail>>
    BY <1>4 DEF Alone, ReadWait
  <2>2. CIRC_CNT # 0
    BY <2>1 DEF CIRC_CNT
  <2>3. CIRC_CNT_TO_END # 0
    <3>1. tail \in Nat /\ head \in Nat /\ tail < CB_SIZE /\ CB_SIZE \in Nat
      BY <1>0, SxiAssumption DEF TypeOK, Index
    <3>2. /\ CIRC_CNT = IF head >= tail THEN head - tail ELSE head - tail + CB_SIZE
          /\ CIRC_CNT_TO_END = IF head >= tail THEN head - tail ELSE CB_SIZE - tail
      BY <1>0, CircIs DEF Circ, TypeOK
    <3> QED BY <2>2, <3>1, <3>2
  <2> QED BY <1>0, <1>4, <2>1, <2>3 DEF ReadWait, Goto, TypeOK
<1>5. ASSUME NEW s \in Readers, ReadDrop(s) PROVE pc'[r] # "sleep"
  <2>1. s = r
    BY DEF Alone
  <2> QED BY <1>0, <1>5, <2>1 DEF ReadDrop, Goto, TypeOK
<1>6. ASSUME NEW s \in Readers, ReadCall(s) \/ ReadSignal(s) \/ ReadSize(s) \/ ReadCopy(s)
      PROVE  pc'[r] # "sleep"
  <2>1. s = r /\ UNCHANGED <<head, tail, irq, wpc>>
    BY <1>6 DEF Alone, ReadCall, ReadSignal, ReadSize, ReadCopy
  <2>2. pc[r] # "sleep"
    BY <2>1 DEF CIRC_CNT, SleeperHasWaker
  <2> QED BY <1>0, <1>6, <2>1, <2>2
          DEF ReadCall, ReadSignal, ReadSize, ReadCopy, Return, Goto, TypeOK
<1>7. CASE WriteCall
  BY <1>7 DEF WriteCall, CIRC_CNT, SleeperHasWaker
<1>8. CASE WriteLoop
  BY <1>0, <1>8, WakeFacts DEF WriteLoop
<1>9. CASE WriteSpace \/ WritePut \/ WriteCount \/ WriteStore \/ WriteAdvance
  BY <1>9 DEF WriteSpace, WritePut, WriteCount, WriteStore, WriteAdvance
<1>10. CASE UNCHANGED vars
  BY <1>10 DEF vars, CIRC_CNT, SleeperHasWaker
<1> QED BY <1>1, <1>2, <1>3, <1>4, <1>5, <1>6, <1>7, <1>8, <1>9, <1>10
        DEF Next, Handler, Write, Read

(***************************************************************************)
(* One reader never sleeps over words with nobody to wake it, for every    *)
(* size and wherever handler and writer are between test, put and wake-up, *)
(* amid an interrupted put as well (sxi_sim_driver.c:131, 178, 228).  It   *)
(* is the safety half of ReaderReturns.                                    *)
(***************************************************************************)
THEOREM SxiSleeperHasWaker == ASSUME Alone PROVE Spec => []SleeperHasWaker
<1>1. Init => SleeperHasWaker
  BY DEF Init, SleeperHasWaker
<1>2. Inv => TInv
  BY DEF Inv
<1> QED BY <1>1, <1>2, SleeperNext, SxiInvariant, PTL DEF Spec
-----------------------------------------------------------------------------
(* What a step does to the words stored, before a race.                     *)
LEMMA StepOnContents ==
  ASSUME Inv, Inv', Next, ~raced, ~raced'
  PROVE  \/ Contents' = Contents
         \/ \E w \in 1..(NWords + NWritten) :
              Len(Contents) < CB_SIZE - 1 /\ Contents' = Append(Contents, w)
         \/ \E n \in 1..(CB_SIZE - 1) :
              n <= Len(Contents) /\ Contents' = SubSeq(Contents, n + 1, Len(Contents))
<1> USE DEF cbvars
<1>0. TypeOK /\ TypeOK' /\ TInv /\ Calm /\ Len(Contents) = CIRC_CNT
  BY ContentsIs DEF Inv, TInv, Contained
<1>1. CASE UNCHANGED <<head, tail, data>>
  BY <1>1 DEF Contents, CIRC_CNT
<1>2. CASE IrqPut /\ CIRC_SPACE # 0
  <2>1. Words + 1 \in Stored /\ Words + 1 \in 1..(NWords + NWritten)
    BY <1>0, <1>2, WordsRange DEF IrqPut, Stored
  <2>2. /\ head' = And(head + 1) /\ tail' = tail
        /\ data' = [data EXCEPT ![head] = Words + 1]
    BY <1>2 DEF IrqPut, cb_put
  <2>3. data'[head] = Words + 1 /\ \A i \in Index : i # head => data'[i] = data[i]
    BY <1>0, <2>2 DEF TypeOK
  <2> QED BY <1>0, <1>2, <2>1, <2>2, <2>3, HeadAppends
<1>3. CASE WriteStore
  <2>1. data' = [data EXCEPT ![head] = Words + 1] /\ UNCHANGED <<head, tail>>
    BY <1>0, <1>3 DEF WriteStore, Calm, Placed
  <2>2. \A i \in Index : i # head => data'[i] = data[i]
    BY <1>0, <2>1 DEF TypeOK
  <2> QED BY <1>0, <2>1, <2>2, StoreUnseen
<1>4. CASE WriteAdvance
  <2>1. /\ head' = And(head + 1) /\ CIRC_SPACE # 0 /\ data[head] = Words + 1
        /\ UNCHANGED <<tail, data>>
    BY <1>0, <1>4 DEF WriteAdvance, Calm, Placed
  <2>2. Words + 1 \in Stored /\ Words + 1 \in 1..(NWords + NWritten)
    BY <1>0, <1>4, WordsRange DEF WriteAdvance, Stored, TInv, Locals
  <2> QED BY <1>0, <2>1, <2>2, HeadAppends
<1>5. ASSUME NEW r \in Readers, ReadDrop(r)
      PROVE  \E n \in 1..(CB_SIZE - 1) :
               n <= Len(Contents) /\ Contents' = SubSeq(Contents, n + 1, Len(Contents))
  <2>1. bytes[r] \in 1..MaxCount /\ bytes[r] <= CIRC_CNT_TO_END
    BY <1>0, <1>5, SxiAssumption DEF ReadDrop, Calm, Counted, TInv, TypeOK, Locals
  <2>2. tail' = And(tail + bytes[r]) /\ UNCHANGED <<head, data>>
    BY <1>5 DEF ReadDrop
  <2>3. /\ bytes[r] <= CIRC_CNT
        /\ Contents' = SubSeq(Contents, bytes[r] + 1, Len(Contents))
    BY <1>0, <2>1, <2>2, TailDrops
  <2>4. bytes[r] \in 1..(CB_SIZE - 1)
    BY <1>0, <2>1, <2>3, CircNow, SxiAssumption DEF Circ
  <2> QED BY <1>0, <2>3, <2>4
<1>6. CASE IrqPut /\ CIRC_SPACE = 0
  BY <1>1, <1>6 DEF IrqPut, cb_put
<1>7. CASE Arrive \/ IrqEnter \/ IrqReturn
  BY <1>1, <1>7 DEF Arrive, IrqEnter, IrqReturn
<1>8. ASSUME NEW r \in Readers, ReadCall(r) \/ ReadWait(r) \/ ReadSignal(r) \/ ReadSize(r)
                                 \/ ReadCopy(r)
      PROVE  UNCHANGED <<head, tail, data>>
  BY <1>8 DEF ReadCall, ReadWait, ReadSignal, ReadSize, ReadCopy
<1>9. CASE WriteCall \/ WriteSpace \/ WriteLoop \/ WritePut \/ WriteCount
  BY <1>1, <1>9 DEF WriteCall, WriteSpace, WriteLoop, WritePut, WriteCount
<1> QED BY <1>1, <1>2, <1>3, <1>4, <1>5, <1>6, <1>7, <1>8, <1>9
        DEF Next, Handler, Write, Read

(* The word at the tail is the oldest one.                                  *)
Shown == IF Contents = <<>> THEN 0 ELSE data[tail]

LEMMA FrontIs == TypeOK => Shown = Queue!Front(Contents)
<1> SUFFICES ASSUME TypeOK PROVE Shown = Queue!Front(Contents)
  OBVIOUS
<1>1. Contents \in Seq(Stored) /\ Len(Contents) = CIRC_CNT
  BY ContentsIs DEF Contained
<1>2. ASSUME Contents # <<>> PROVE Head(Contents) = data[tail]
  <2>1. 1 \in 1..CIRC_CNT
    BY <1>1, <1>2, EmptySeq
  <2>2. Contents[1] = data[SlotAt(1 - 1)]
    BY <2>1, ContentsIs DEF Contained
  <2>3. SlotAt(1 - 1) = tail
    BY CircNow, SxiAssumption DEF SlotAt
  <2> QED BY <1>1, <2>2, <2>3
<1> QED BY <1>2 DEF Shown, Queue!Front

LEMMA FrontThen == TypeOK' => Shown' = Queue!Front(Contents')
<1>1. (TypeOK => Shown = Queue!Front(Contents))'
  BY FrontIs, PTL
<1> QED BY <1>1 DEF Queue!Front

(***************************************************************************)
(* The buffer is a queue of CB_SIZE - 1 words: with one reader every step  *)
(* of the handler, of the writer and of the reader, in whatever order,     *)
(* appends a word, removes the oldest ones, or does not touch the words,   *)
(* until the handler puts amid a put of the writer                         *)
(* (sxi_sim_driver.c:85-113).                                              *)
(***************************************************************************)
THEOREM SxiImplementsQueue == ASSUME Alone PROVE Spec => ImplementsQueue
<1>1. Init => Queue!Init
  <2> SUFFICES ASSUME Init PROVE Queue!Init
    OBVIOUS
  <2>1. Contents = <<>>
    BY InitEmpty
  <2> QED BY <2>1 DEF Queue!Init
<1>2. Inv /\ Inv' /\ [Next]_vars => [raced' \/ Queue!Next \/ UNCHANGED Queue!qvars]_vars
  <2> SUFFICES ASSUME Inv, Inv', Next, ~raced' PROVE Queue!Next \/ UNCHANGED Queue!qvars
    OBVIOUS
  <2>1. ~raced
    BY RacedStays
  <2>2. Shown = Queue!Front(Contents) /\ Shown' = Queue!Front(Contents')
    BY FrontIs, FrontThen DEF Inv, TInv
  <2>3. Queue!Becomes(Contents')
    BY <2>2 DEF Queue!Becomes, Shown
  <2>4. CASE Contents' = Contents
    BY <2>2, <2>4 DEF Queue!qvars, Shown, Queue!Front
  <2>5. ASSUME NEW w \in 1..(NWords + NWritten), Len(Contents) < CB_SIZE - 1,
               Contents' = Append(Contents, w)
        PROVE  Queue!Next
    BY <2>3, <2>5 DEF Queue!Next, Queue!Accept
  <2>6. ASSUME NEW n \in 1..(CB_SIZE - 1), n <= Len(Contents),
               Contents' = SubSeq(Contents, n + 1, Len(Contents))
        PROVE  Queue!Next
    <3>1. Queue!Becomes(SubSeq(Contents, n + 1, Len(Contents)))
      BY <2>2, <2>6 DEF Queue!Becomes, Shown
    <3>2. Queue!Remove(n)
      BY <2>6, <3>1 DEF Queue!Remove
    <3> QED BY <3>2 DEF Queue!Next
  <2> QED BY <2>1, <2>4, <2>5, <2>6, StepOnContents
<1> QED
  BY <1>1, <1>2, SxiInvariant, PTL DEF Spec, ImplementsQueue
=============================================================================
