--------------------------- MODULE ClocksimProofs ---------------------------
(***************************************************************************)
(* Theorems about Clocksim for every length of frame, readout and row, the *)
(* 1280 of the code among them, which TLC cannot enumerate.  The invariant *)
(* needs the call chain and the counters together: a mode returns to its   *)
(* caller because of the chain, and with its counter cleared because of    *)
(* the counters.  On that invariant rests the refinement: the place of the *)
(* waveform that ClocksimWaveform has come to can be read off the stack    *)
(* and the counters, and the group at that place is the one driven next.   *)
(***************************************************************************)
EXTENDS ClocksimWaveform, SequenceTheorems, TLAPS

IInv == TypeOK /\ CallChain /\ CountersBelongToCalls

(* The reset branch leaves an empty call chain and cleared counters.       *)
LEMMA InitIInv == Init => IInv
BY ClocksimAssumption
DEF Init, IInv, TypeOK, CallChain, CountersBelongToCalls, OnStack, In,
    Mode, STACK_SIZE, Signal

(* The signals a step drives are signals of the connector.                 *)
LEMMA SignalsStayInRange == TypeOK /\ Next => (state \subseteq Signal)'
<1> SUFFICES ASSUME TypeOK, Next PROVE state' \subseteq Signal
  OBVIOUS
<1>1. state' = state \/ \E high, low \in SUBSET Signal : Drive(high, low)
  BY DEF Next, Frame, Readout, Row, Down, PixelMaybe, Pixel, Signal, Vertical,
         HorizontalFirst, HorizontalSecond
<1> QED BY <1>1 DEF TypeOK, Drive

(* No edge of iSCLK breaks the conjunction, whichever mode is on top.      *)
LEMMA NextIInv == IInv /\ [Next]_vars => IInv'
<1> SUFFICES ASSUME IInv, [Next]_vars PROVE IInv'
  OBVIOUS
<1> USE ClocksimAssumption
    DEF IInv, TypeOK, CallChain, CountersBelongToCalls, OnStack, In, Mode,
        STACK_SIZE
<1>1. CASE Frame
  BY <1>1 DEF Frame, Call, Restart, Drive
<1>2. CASE Readout
  BY <1>2 DEF Readout, Call, Restart
<1>3. CASE Row
  BY <1>3 DEF Row, Call, Return
<1>4. CASE Down
  <2> state' \subseteq Signal
    BY <1>4, SignalsStayInRange DEF Next
  <2>1. CASE down_pixel = 0
    BY <1>4, <2>1 DEF Down, Call
  <2>2. CASE down_pixel = 1
    BY <1>4, <2>2 DEF Down, Call
  <2>3. CASE down_pixel = 2
    BY <1>4, <2>3 DEF Down, Return
  <2> QED BY <2>1, <2>2, <2>3
<1>5. CASE PixelMaybe
  BY <1>5 DEF PixelMaybe, Call, Return
<1>6. CASE Pixel
  <2> state' \subseteq Signal
    BY <1>6, SignalsStayInRange DEF Next
  <2> QED BY <1>6 DEF Pixel, Return
<1>7. CASE UNCHANGED vars
  BY <1>7 DEF vars
<1> QED BY <1>1, <1>2, <1>3, <1>4, <1>5, <1>6, <1>7 DEF Next

LEMMA ClocksimInvariant == Spec => []IInv
BY InitIInv, NextIInv, PTL DEF Spec

(***************************************************************************)
(* Every variable stays in the range its VHDL declaration gives it: idx    *)
(* never leaves the stack of four, the loop counters never pass their      *)
(* limit (clocksim.vhdl:75-82).                                            *)
(***************************************************************************)
THEOREM ClocksimTypeCorrect == Spec => []TypeOK
<1>1. IInv => TypeOK
  BY DEF IInv
<1> QED BY <1>1, ClocksimInvariant, PTL

(***************************************************************************)
(* The stack always holds a chain of calls that test/clocksim.c makes.     *)
(***************************************************************************)
THEOREM ClocksimCallChain == Spec => []CallChain
<1>1. IInv => CallChain
  BY DEF IInv
<1> QED BY <1>1, ClocksimInvariant, PTL

(***************************************************************************)
(* No mode starts with a step or loop counter left over from another call. *)
(***************************************************************************)
THEOREM ClocksimCounters == Spec => []CountersBelongToCalls
<1>1. IInv => CountersBelongToCalls
  BY DEF IInv
<1> QED BY <1>1, ClocksimInvariant, PTL
-----------------------------------------------------------------------------
(* The program of the waveform, place by place.                             *)
Groups == {"down_1", "down_2", "pixel_1", "pixel_2", "frame_end"}

(* n copies of a loop body: its length, and what each place holds.          *)
LEMMA TimesIs ==
  ASSUME NEW s \in Seq(Groups), NEW m \in Nat \ {0}, Len(s) = m, NEW n \in Nat
  PROVE  /\ W!Times(n, s) \in Seq(Groups) /\ Len(W!Times(n, s)) = n * m
         /\ \A q \in 0..(n - 1), r \in 1..m : W!Times(n, s)[q * m + r] = s[r]
<1>1. \A i \in 1..(n * m) : ((i - 1) % m) + 1 \in 1..m
  OBVIOUS
<1>2. \A i \in 1..Len(s) : s[i] \in Groups
  BY ElementOfSeq
<1> DEFINE f == [i \in 1..(n * m) |-> s[((i - 1) % m) + 1]]
<1>3. W!Times(n, s) = f
  BY DEF W!Times
<1>4. n * m \in Nat
  OBVIOUS
<1>5. f \in Seq(Groups) /\ Len(f) = n * m
  <2>1. \A i \in 1..(n * m) : s[((i - 1) % m) + 1] \in Groups
    BY <1>1, <1>2
  <2>2. f \in Seq(Groups)
    BY <1>4, <2>1, IsASeq
  <2>3. Len(f) = n * m
    BY <1>4
  <2> QED BY <2>2, <2>3
<1>6. ASSUME NEW q \in 0..(n - 1), NEW r \in 1..m PROVE f[q * m + r] = s[r]
  <2>1. q * m + r \in 1..(n * m)
    OBVIOUS
  <2>2. ((q * m + r - 1) % m) = r - 1
    <3>1. PICK t \in 0..(m - 1) : t = r - 1
      OBVIOUS
    <3>2. (q * m + t) % m = t
      OBVIOUS
    <3>3. q * m + r - 1 = q * m + t
      BY <3>1
    <3> QED BY <3>1, <3>2, <3>3
  <2> QED BY <2>1, <2>2
<1> HIDE DEF f
<1> QED BY <1>3, <1>5, <1>6

(* Two pieces of program one after the other.                               *)
LEMMA Joined ==
  \A s, t \in Seq(Groups) :
     /\ s \o t \in Seq(Groups) /\ Len(s \o t) = Len(s) + Len(t)
     /\ Len(s) \in Nat /\ Len(t) \in Nat
     /\ \A i \in 1..Len(s) : (s \o t)[i] = s[i]
     /\ \A i \in 1..Len(t) : (s \o t)[Len(s) + i] = t[i]
<1> TAKE s, t \in Seq(Groups)
<1>1. Len(s) \in Nat /\ Len(t) \in Nat
  BY LenProperties
<1>2. /\ s \o t \in Seq(Groups) /\ Len(s \o t) = Len(s) + Len(t)
      /\ \A i \in 1..Len(s) + Len(t) : (s \o t)[i] = IF i <= Len(s) THEN s[i] ELSE t[i - Len(s)]
  BY ConcatProperties
<1>3. PICK m, n \in Nat : m = Len(s) /\ n = Len(t)
  BY <1>1
<1>4. PICK c : c = s \o t
  OBVIOUS
<1>5. /\ c \in Seq(Groups) /\ Len(c) = m + n
      /\ \A i \in 1..(m + n) : c[i] = IF i <= m THEN s[i] ELSE t[i - m]
  BY <1>2, <1>3, <1>4
<1>6. ASSUME NEW i \in 1..m PROVE c[i] = s[i]
  BY <1>5
<1>7. ASSUME NEW i \in 1..n PROVE c[m + i] = t[i]
  <2>1. m + i \in 1..(m + n) /\ ~(m + i <= m) /\ (m + i) - m = i
    OBVIOUS
  <2> QED BY <1>5, <2>1
<1> QED BY <1>3, <1>4, <1>5, <1>6, <1>7

(* A program of one group.                                                  *)
LEMMA One ==
  ASSUME NEW x \in Groups
  PROVE  <<x>> \in Seq(Groups) /\ Len(<<x>>) = 1 /\ <<x>>[1] = x
OBVIOUS

(* The two groups of a pixel.                                               *)
LEMMA PixelIs ==
  /\ W!pixel \in Seq(Groups) /\ Len(W!pixel) = 2
  /\ W!pixel[1] = "pixel_1" /\ W!pixel[2] = "pixel_2"
BY DEF W!pixel, Groups

(* The downs of a frame and of a row.                                       *)
LEMMA DownIs ==
  /\ W!down(FALSE) \in Seq(Groups) /\ Len(W!down(FALSE)) = 2
  /\ W!down(FALSE)[1] = "down_1" /\ W!down(FALSE)[2] = "down_2"
  /\ W!down(TRUE) \in Seq(Groups) /\ Len(W!down(TRUE)) = 6
  /\ W!down(TRUE)[1] = "down_1" /\ W!down(TRUE)[2] = "pixel_1" /\ W!down(TRUE)[3] = "pixel_2"
  /\ W!down(TRUE)[4] = "down_2" /\ W!down(TRUE)[5] = "pixel_1" /\ W!down(TRUE)[6] = "pixel_2"
<1>1. PICK a : a = <<"down_1">>
  OBVIOUS
<1>2. PICK b : b = <<"down_2">>
  OBVIOUS
<1>3. /\ a \in Seq(Groups) /\ Len(a) = 1 /\ a[1] = "down_1"
      /\ b \in Seq(Groups) /\ Len(b) = 1 /\ b[1] = "down_2"
  BY <1>1, <1>2, One DEF Groups
<1>4. PICK p : p = W!pixel
  OBVIOUS
<1>5. p \in Seq(Groups) /\ Len(p) = 2 /\ p[1] = "pixel_1" /\ p[2] = "pixel_2"
  BY <1>4, PixelIs
<1>6. PICK e : e = <<>>
  OBVIOUS
<1>7. e \in Seq(Groups) /\ Len(e) = 0
  BY <1>6, EmptySeq
<1>8. W!down(TRUE) = ((a \o p) \o b) \o p /\ W!down(FALSE) = ((a \o e) \o b) \o e
  BY <1>1, <1>2, <1>4, <1>6 DEF W!down, W!pixel_maybe
<1>9. PICK u : u = a \o p
  OBVIOUS
<1>10. u \in Seq(Groups) /\ Len(u) = 3 /\ u[1] = "down_1" /\ u[2] = "pixel_1" /\ u[3] = "pixel_2"
  <2>1. /\ u \in Seq(Groups) /\ Len(u) = Len(a) + Len(p)
        /\ \A i \in 1..Len(a) : u[i] = a[i]
        /\ \A i \in 1..Len(p) : u[Len(a) + i] = p[i]
    BY <1>3, <1>5, <1>9, Joined, Zenon
  <2>2. u[1] = a[1] /\ u[1 + 1] = p[1] /\ u[1 + 2] = p[2]
    BY <1>3, <1>5, <2>1
  <2> QED BY <1>3, <1>5, <2>1, <2>2
<1>11. PICK v : v = u \o b
  OBVIOUS
<1>12. v \in Seq(Groups) /\ Len(v) = 4 /\ v[1] = "down_1" /\ v[2] = "pixel_1" /\ v[3] = "pixel_2"
       /\ v[4] = "down_2"
  <2>1. /\ v \in Seq(Groups) /\ Len(v) = Len(u) + Len(b)
        /\ \A i \in 1..Len(u) : v[i] = u[i]
        /\ \A i \in 1..Len(b) : v[Len(u) + i] = b[i]
    BY <1>3, <1>10, <1>11, Joined, Zenon
  <2>2. v[1] = u[1] /\ v[2] = u[2] /\ v[3] = u[3] /\ v[3 + 1] = b[1]
    BY <1>3, <1>10, <2>1
  <2> QED BY <1>3, <1>10, <2>1, <2>2
<1>13. PICK w : w = v \o p
  OBVIOUS
<1>14. /\ w \in Seq(Groups) /\ Len(w) = 6
       /\ w[1] = v[1] /\ w[2] = v[2] /\ w[3] = v[3] /\ w[4] = v[4]
       /\ w[5] = p[1] /\ w[6] = p[2]
  <2>1. /\ w \in Seq(Groups) /\ Len(w) = Len(v) + Len(p)
        /\ \A i \in 1..Len(v) : w[i] = v[i]
        /\ \A i \in 1..Len(p) : w[Len(v) + i] = p[i]
    BY <1>5, <1>12, <1>13, Joined, Zenon
  <2>2. w[4 + 1] = p[1] /\ w[4 + 2] = p[2]
    BY <1>5, <1>12, <2>1
  <2> QED BY <1>5, <1>12, <2>1, <2>2
<1>15. PICK y : y = a \o b
  OBVIOUS
<1>16. y \in Seq(Groups) /\ Len(y) = 2 /\ y[1] = a[1] /\ y[2] = b[1]
  <2>1. /\ y \in Seq(Groups) /\ Len(y) = Len(a) + Len(b)
        /\ \A i \in 1..Len(a) : y[i] = a[i]
        /\ \A i \in 1..Len(b) : y[Len(a) + i] = b[i]
    BY <1>3, <1>15, Joined, Zenon
  <2>2. y[1 + 1] = b[1]
    BY <1>3, <2>1
  <2> QED BY <1>3, <2>1, <2>2
<1>17. W!down(FALSE) = y /\ W!down(TRUE) = w
  <2>1. a \o e = a /\ y \o e = y
    BY <1>3, <1>6, <1>16, ConcatEmptySeq
  <2> QED BY <1>8, <1>9, <1>11, <1>13, <1>15, <2>1
<1> QED BY <1>3, <1>5, <1>12, <1>14, <1>16, <1>17

FrameLen == NDown * 6 + 1
RowLen == 2 + NPixel * 2

(* A frame: its downs with their pixels, and the group that ends it.        *)
LEMMA FrameIs ==
  /\ W!frame \in Seq(Groups) /\ Len(W!frame) = FrameLen /\ FrameLen \in Nat \ {0}
  /\ \A q \in 0..(NDown - 1), r \in 1..6 : W!frame[q * 6 + r] = W!down(TRUE)[r]
  /\ W!frame[FrameLen] = "frame_end"
<1>1. PICK d : d = W!Times(NDown, W!down(TRUE))
  OBVIOUS
<1>2. PICK e : e = <<"frame_end">>
  OBVIOUS
<1>3. e \in Seq(Groups) /\ Len(e) = 1 /\ e[1] = "frame_end"
  BY <1>2, One DEF Groups
<1>4. /\ d \in Seq(Groups) /\ Len(d) = NDown * 6
      /\ \A q \in 0..(NDown - 1), r \in 1..6 : d[q * 6 + r] = W!down(TRUE)[r]
  <2>1. NDown \in Nat /\ 6 \in Nat \ {0}
    BY ClocksimAssumption
  <2>2. W!down(TRUE) \in Seq(Groups) /\ Len(W!down(TRUE)) = 6
    BY DownIs
  <2>3. PICK s \in Seq(Groups) : s = W!down(TRUE)
    BY <2>2
  <2>4. Len(s) = 6
    BY <2>2, <2>3
  <2>5. /\ W!Times(NDown, s) \in Seq(Groups) /\ Len(W!Times(NDown, s)) = NDown * 6
        /\ \A q \in 0..(NDown - 1), r \in 1..6 : W!Times(NDown, s)[q * 6 + r] = s[r]
    BY <2>1, <2>4, TimesIs
  <2> QED BY <1>1, <2>3, <2>5
<1>5. W!frame = d \o e
  BY <1>1, <1>2 DEF W!frame
<1>6. PICK f : f = d \o e
  OBVIOUS
<1>7. /\ f \in Seq(Groups) /\ Len(f) = Len(d) + Len(e)
      /\ \A i \in 1..Len(d) : f[i] = d[i]
      /\ \A i \in 1..Len(e) : f[Len(d) + i] = e[i]
  BY <1>3, <1>4, <1>6, Joined, Zenon
<1>8. NDown \in Nat
  BY ClocksimAssumption
<1>9. Len(f) = FrameLen /\ FrameLen \in Nat \ {0}
  BY <1>3, <1>4, <1>7, <1>8 DEF FrameLen
<1>10. ASSUME NEW q \in 0..(NDown - 1), NEW r \in 1..6 PROVE f[q * 6 + r] = W!down(TRUE)[r]
  <2>1. q * 6 + r \in 1..(NDown * 6)
    BY <1>8
  <2> QED BY <1>4, <1>7, <2>1
<1>11. f[FrameLen] = "frame_end"
  <2>1. 1 \in 1..Len(e) /\ Len(d) + 1 = FrameLen
    BY <1>3, <1>4 DEF FrameLen
  <2> QED BY <1>3, <1>7, <2>1
<1> QED BY <1>5, <1>6, <1>7, <1>9, <1>10, <1>11

(* A row: one down without pixels, then the pixels.                         *)
LEMMA RowIs ==
  /\ W!row \in Seq(Groups) /\ Len(W!row) = RowLen /\ RowLen \in Nat \ {0}
  /\ W!row[1] = "down_1" /\ W!row[2] = "down_2"
  /\ \A q \in 0..(NPixel - 1) : /\ W!row[2 + (q * 2 + 1)] = "pixel_1"
                                /\ W!row[2 + (q * 2 + 2)] = "pixel_2"
<1>1. PICK d : d = W!down(FALSE)
  OBVIOUS
<1>2. d \in Seq(Groups) /\ Len(d) = 2 /\ d[1] = "down_1" /\ d[2] = "down_2"
  BY <1>1, DownIs
<1>3. PICK e : e = W!Times(NPixel, W!pixel)
  OBVIOUS
<1>4. /\ e \in Seq(Groups) /\ Len(e) = NPixel * 2
      /\ \A q \in 0..(NPixel - 1), r \in 1..2 : e[q * 2 + r] = W!pixel[r]
  <2>1. NPixel \in Nat /\ 2 \in Nat \ {0}
    BY ClocksimAssumption
  <2>3. PICK s \in Seq(Groups) : s = W!pixel
    BY PixelIs
  <2>4. Len(s) = 2
    BY <2>3, PixelIs
  <2>5. /\ W!Times(NPixel, s) \in Seq(Groups) /\ Len(W!Times(NPixel, s)) = NPixel * 2
        /\ \A q \in 0..(NPixel - 1), r \in 1..2 : W!Times(NPixel, s)[q * 2 + r] = s[r]
    BY <2>1, <2>4, TimesIs
  <2> QED BY <1>3, <2>3, <2>5
<1>5. W!row = d \o e
  BY <1>1, <1>3 DEF W!row
<1>6. PICK f : f = d \o e
  OBVIOUS
<1>7. /\ f \in Seq(Groups) /\ Len(f) = Len(d) + Len(e)
      /\ \A i \in 1..Len(d) : f[i] = d[i]
      /\ \A i \in 1..Len(e) : f[Len(d) + i] = e[i]
  BY <1>2, <1>4, <1>6, Joined, Zenon
<1>8. NPixel \in Nat
  BY ClocksimAssumption
<1>9. Len(f) = RowLen /\ RowLen \in Nat \ {0}
  BY <1>2, <1>4, <1>7, <1>8 DEF RowLen
<1>10. ASSUME NEW q \in 0..(NPixel - 1)
       PROVE f[2 + (q * 2 + 1)] = "pixel_1" /\ f[2 + (q * 2 + 2)] = "pixel_2"
  <2>1. q * 2 + 1 \in 1..(NPixel * 2) /\ q * 2 + 2 \in 1..(NPixel * 2)
    BY <1>8
  <2>2. f[2 + (q * 2 + 1)] = e[q * 2 + 1] /\ f[2 + (q * 2 + 2)] = e[q * 2 + 2]
    BY <1>2, <1>4, <1>7, <2>1
  <2> QED BY <1>4, <2>2, PixelIs
<1>11. f[1] = "down_1" /\ f[2] = "down_2"
  BY <1>2, <1>7
<1> QED BY <1>5, <1>6, <1>7, <1>9, <1>10, <1>11

(* A readout: its rows.                                                     *)
LEMMA ReadoutIs ==
  /\ W!readout \in Seq(Groups) /\ Len(W!readout) = NRow * RowLen
  /\ \A q \in 0..(NRow - 1), r \in 1..RowLen : W!readout[q * RowLen + r] = W!row[r]
<1>1. PICK s \in Seq(Groups) : s = W!row
  BY RowIs
<1>2. Len(s) = RowLen /\ RowLen \in Nat \ {0} /\ NRow \in Nat
  BY <1>1, RowIs, ClocksimAssumption
<1>3. PICK m \in Nat \ {0} : m = RowLen
  BY <1>2
<1>4. Len(s) = m
  BY <1>2, <1>3
<1>5. /\ W!Times(NRow, s) \in Seq(Groups) /\ Len(W!Times(NRow, s)) = NRow * m
      /\ \A q \in 0..(NRow - 1), r \in 1..m : W!Times(NRow, s)[q * m + r] = s[r]
  BY <1>2, <1>4, TimesIs
<1> QED BY <1>1, <1>3, <1>5 DEF W!readout

\* The place where the frames that repeat begin, and the last place.
Again == FrameLen + NRow * RowLen
Last == Again + FrameLen

(* The group of signals at each place.                                      *)
LEMMA ProgramIs ==
  /\ Len(Played!Program) = Last /\ Len(W!frame \o W!readout) = Again
  /\ Again \in Nat /\ Again >= FrameLen /\ FrameLen = NDown * 6 + 1
  /\ \A b \in {0, Again} :
       /\ \A q \in 0..(NDown - 1), r \in 1..6 : Played!Program[b + (q * 6 + r)] = W!down(TRUE)[r]
       /\ Played!Program[b + FrameLen] = "frame_end"
  /\ \A q \in 0..(NRow - 1), r \in 1..RowLen :
       Played!Program[FrameLen + (q * RowLen + r)] = W!row[r]
<1>1. PICK f : f = W!frame
  OBVIOUS
<1>2. PICK g : g = W!readout
  OBVIOUS
<1>3. /\ f \in Seq(Groups) /\ Len(f) = FrameLen /\ FrameLen \in Nat \ {0}
      /\ \A q \in 0..(NDown - 1), r \in 1..6 : f[q * 6 + r] = W!down(TRUE)[r]
      /\ f[FrameLen] = "frame_end"
  BY <1>1, FrameIs, Zenon
<1>4. /\ g \in Seq(Groups) /\ Len(g) = NRow * RowLen
      /\ \A q \in 0..(NRow - 1), r \in 1..RowLen : g[q * RowLen + r] = W!row[r]
  BY <1>2, ReadoutIs, Zenon
<1>5. PICK h : h = f \o g
  OBVIOUS
<1>6. /\ h \in Seq(Groups) /\ Len(h) = Len(f) + Len(g)
      /\ \A i \in 1..Len(f) : h[i] = f[i]
      /\ \A i \in 1..Len(g) : h[Len(f) + i] = g[i]
  BY <1>3, <1>4, <1>5, Joined, Zenon
<1>7. PICK p : p = h \o f
  OBVIOUS
<1>8. /\ p \in Seq(Groups) /\ Len(p) = Len(h) + Len(f)
      /\ \A i \in 1..Len(h) : p[i] = h[i]
      /\ \A i \in 1..Len(f) : p[Len(h) + i] = f[i]
  BY <1>3, <1>6, <1>7, Joined, Zenon
<1>9. Played!Program = p /\ W!frame \o W!readout = h
  BY <1>1, <1>2, <1>5, <1>7 DEF Played!Program
<1>10. NDown \in Nat \ {0} /\ NRow \in Nat \ {0} /\ RowLen \in Nat \ {0} /\ NRow * RowLen \in Nat
  <2>1. NDown \in Nat \ {0} /\ NRow \in Nat \ {0} /\ RowLen \in Nat \ {0}
    BY ClocksimAssumption, RowIs
  <2>2. PICK m \in Nat : m = RowLen
    BY <2>1
  <2>3. NRow * m \in Nat
    BY <2>1
  <2> QED BY <2>1, <2>2, <2>3
<1>11. /\ Len(h) = Again /\ Len(p) = Last /\ Again \in Nat /\ Again >= FrameLen
  BY <1>3, <1>4, <1>6, <1>8, <1>10 DEF Again, Last
<1>12. ASSUME NEW i \in 1..FrameLen PROVE p[0 + i] = f[i] /\ p[Again + i] = f[i]
  <2>1. i \in 1..Len(f) /\ i \in 1..Len(h) /\ 0 + i = i
    BY <1>3, <1>11
  <2>2. p[i] = h[i] /\ h[i] = f[i] /\ p[Len(h) + i] = f[i]
    BY <1>6, <1>8, <2>1
  <2> QED BY <1>11, <2>1, <2>2
<1>13. ASSUME NEW i \in 1..(NRow * RowLen) PROVE p[FrameLen + i] = g[i]
  <2>1. i \in 1..Len(g) /\ FrameLen + i \in 1..Len(h)
    BY <1>3, <1>4, <1>6, <1>10
  <2> QED BY <1>3, <1>6, <1>8, <2>1
<1>14. ASSUME NEW b \in {0, Again}
       PROVE  /\ \A q \in 0..(NDown - 1), r \in 1..6 : p[b + (q * 6 + r)] = W!down(TRUE)[r]
              /\ p[b + FrameLen] = "frame_end"
  <2>1. ASSUME NEW q \in 0..(NDown - 1), NEW r \in 1..6 PROVE p[b + (q * 6 + r)] = W!down(TRUE)[r]
    <3>1. q * 6 + r \in 1..FrameLen
      BY <1>10 DEF FrameLen
    <3>2. p[b + (q * 6 + r)] = f[q * 6 + r]
      BY <1>12, <3>1
    <3> QED BY <1>3, <3>2
  <2>2. FrameLen \in 1..FrameLen
    BY <1>3
  <2> QED BY <1>3, <1>12, <2>1, <2>2
<1>15. ASSUME NEW q \in 0..(NRow - 1), NEW r \in 1..RowLen
       PROVE  p[FrameLen + (q * RowLen + r)] = W!row[r]
  <2>1. q * RowLen + r \in 1..(NRow * RowLen)
    <3>1. PICK m \in Nat \ {0} : m = RowLen
      BY <1>10
    <3>2. q * m + r \in 1..(NRow * m)
      BY <1>10, <3>1
    <3> QED BY <3>1, <3>2
  <2> QED BY <1>4, <1>13, <2>1
<1> QED BY <1>9, <1>11, <1>14, <1>15 DEF FrameLen
-----------------------------------------------------------------------------
(***************************************************************************)
(* Which place of the program the machine has come to, read off its stack  *)
(* and its counters.  Later frames are the ones at Again, whose beginning  *)
(* is also the end of the frame before.                                    *)
(***************************************************************************)
(* Groups a pixel has emitted, by its step.                                 *)
PixelDone == IF pixel_step = 0 THEN 0 ELSE IF pixel_step <= 5 THEN 1 ELSE 2

(* Groups a down of a frame has emitted, by the depth of the stack.         *)
InDown == CASE idx = 1 -> down_pixel * 3
            [] idx = 2 -> (down_pixel - 1) * 3 + (IF pm_step = 7 THEN 3 ELSE 1)
            [] OTHER -> (down_pixel - 1) * 3 + 1 + PixelDone

(* Groups a row has emitted, by the mode on top of the stack.               *)
InRow == CASE In("ROW") -> IF row_down = 0 THEN 0 ELSE 2 + row_pixels * 2
           [] In("PIXEL") -> row_pixels * 2 + PixelDone
           [] OTHER -> down_pixel

(* Where the frame that is being played begins.                             *)
Base == IF readout_rows = 0 THEN 0 ELSE Again

(* The place x; the end of a later frame and its beginning are one place.   *)
Near(x) == at = x \/ (x = Again /\ at = Last)

(* The place, while the chain of calls began in FRAME.                      *)
FramePlace ==
  /\ readout_rows \in {0, NRow}
  /\ idx = 0 => Near(Base + frame_downs * 6)
  /\ idx >= 1 => /\ frame_downs >= 1 /\ pm_step \in {0, 7} /\ (idx = 3 => pm_step = 7)
                 /\ Near(Base + (frame_downs - 1) * 6 + InDown)

(* The place, while the chain of calls began in READOUT.                    *)
ReadoutPlace ==
  /\ idx = 0 => \/ at = FrameLen + readout_rows * RowLen
                \/ readout_rows = NRow /\ at = Last
  /\ idx >= 1 => /\ readout_rows >= 1
                 /\ at = FrameLen + (readout_rows - 1) * RowLen + InRow
                 /\ In("PIXEL") => row_pixels >= 1 /\ row_down = 1
                 /\ In("DOWN") \/ In("PIXEL_MAYBE") => row_pixels = 0 /\ row_down = 1

Where ==
  /\ stack[0] = "FRAME" => FramePlace
  /\ stack[0] = "READOUT" => ReadoutPlace

HInv == IInv /\ Where

(* A step that emits the group that comes next.                             *)
LEMMA Plays ==
  ASSUME NEW x \in Nat, Near(x), x < Last, NEW g, g = Played!Program[x + 1],
         at' = Played!Advance(at),
         state' = (state \ Played!Effect[g].low) \cup Played!Effect[g].high
  PROVE  at' = x + 1 /\ Played!Play
<1>1. /\ Len(Played!Program) = Last /\ Len(W!frame \o W!readout) = Again
      /\ Again \in Nat
  BY ProgramIs
<1>2. Played!Advance(at) = IF at = Last THEN Again + 1 ELSE at + 1
  BY <1>1 DEF Played!Advance
<1>3. Played!Advance(at) = x + 1
  BY <1>1, <1>2 DEF Near
<1>4. Played!Program[Played!Advance(at)] = g
  BY <1>3
<1> QED BY <1>3, <1>4 DEF Played!Play

(* The lengths of the parts as numbers.                                     *)
LEMMA Sizes ==
  /\ NDown \in Nat \ {0} /\ NRow \in Nat \ {0} /\ NPixel \in Nat \ {0}
  /\ FrameLen = NDown * 6 + 1 /\ RowLen = 2 + NPixel * 2 /\ RowLen \in Nat
  /\ Again \in Nat /\ Again >= FrameLen /\ Last = Again + FrameLen
  /\ Again = FrameLen + NRow * RowLen
  /\ Base \in {0, Again}
BY ClocksimAssumption, ProgramIs, RowIs DEF FrameLen, RowLen, Last, Again, Base

(* What each group does to the signals.                                     *)
LEMMA Effects ==
  /\ Played!Effect["down_1"].high = {"P1VI", "P1VS"}
  /\ Played!Effect["down_1"].low = {"P2VI", "P2VS", "TG"}
  /\ Played!Effect["down_2"].high = {"P2VI", "P2VS", "TG"}
  /\ Played!Effect["down_2"].low = {"P1VI", "P1VS"}
  /\ Played!Effect["pixel_1"].high = HorizontalFirst
  /\ Played!Effect["pixel_1"].low = HorizontalSecond
  /\ Played!Effect["pixel_2"].high = HorizontalSecond
  /\ Played!Effect["pixel_2"].low = HorizontalFirst
  /\ Played!Effect["frame_end"].high = {}
  /\ Played!Effect["frame_end"].low = {"P2VI"}
BY DEF Played!Effect, HorizontalFirst, HorizontalSecond

(* A place in a frame's downs, and in a row.                                *)
LEMMA InFrame ==
  ASSUME NEW b \in {0, Again}, NEW d \in 1..NDown, NEW o \in 0..5
  PROVE  /\ b + (d - 1) * 6 + o \in Nat /\ b + (d - 1) * 6 + o < Last
         /\ Played!Program[b + (d - 1) * 6 + o + 1] = W!down(TRUE)[o + 1]
<1> USE Sizes
<1>1. PICK q \in 0..(NDown - 1) : q = d - 1
  OBVIOUS
<1>2. PICK r \in 1..6 : r = o + 1
  OBVIOUS
<1>3. Played!Program[b + (q * 6 + r)] = W!down(TRUE)[r]
  BY ProgramIs
<1>4. b + (q * 6 + r) = b + (d - 1) * 6 + o + 1
  BY <1>1, <1>2
<1>5. b + q * 6 + o \in Nat /\ b + q * 6 + o < Last
  OBVIOUS
<1> QED BY <1>1, <1>2, <1>3, <1>4, <1>5

LEMMA InReadout ==
  ASSUME NEW d \in 1..NRow, NEW o \in 0..(RowLen - 1)
  PROVE  /\ FrameLen + (d - 1) * RowLen + o \in Nat
         /\ FrameLen + (d - 1) * RowLen + o < Last
         /\ Played!Program[FrameLen + (d - 1) * RowLen + o + 1] = W!row[o + 1]
<1>0. PICK m \in Nat : m = RowLen
  BY Sizes
<1>1. PICK q \in 0..(NRow - 1) : q = d - 1
  BY Sizes
<1>2. PICK r \in 1..m : r = o + 1
  BY <1>0
<1>3. Played!Program[FrameLen + (q * m + r)] = W!row[r]
  BY <1>0, ProgramIs
<1>4. q * m \in Nat /\ q * m + m <= NRow * m
  BY Sizes
<1>5. PICK k \in Nat : k = q * m
  BY <1>4
<1>6. FrameLen + k + o \in Nat /\ FrameLen + k + o < Last
  BY <1>0, <1>4, <1>5, Sizes
<1>7. FrameLen + (k + r) = FrameLen + k + o + 1
  BY <1>2, Sizes
<1> QED BY <1>0, <1>1, <1>2, <1>3, <1>5, <1>6, <1>7

(* What the invariant of Clocksim says of where the machine is.             *)
LEMMA Chain ==
  ASSUME IInv
  PROVE  /\ stack[0] \in {"FRAME", "READOUT"} /\ idx \in 0..3
         /\ frame_downs \in 0..NDown /\ readout_rows \in 0..NRow /\ row_pixels \in 0..NPixel
         /\ down_pixel \in 0..2 /\ pixel_step \in 0..7 /\ pm_step \in 0..7
         /\ ft \in {0, 1} /\ row_down \in {0, 1}
         /\ stack \in [0..3 -> Mode]
         /\ In("FRAME") => idx = 0 /\ stack[0] = "FRAME"
         /\ In("READOUT") => idx = 0 /\ stack[0] = "READOUT"
         /\ In("ROW") => idx = 1 /\ stack[0] = "READOUT" /\ down_pixel = 0
         /\ In("DOWN") => /\ pm_step = 0 /\ pixel_step = 0
                          /\ \/ idx = 1 /\ stack[0] = "FRAME"
                             \/ idx = 2 /\ stack[0] = "READOUT" /\ stack[1] = "ROW"
         /\ In("PIXEL_MAYBE") =>
              /\ pixel_step = 0 /\ down_pixel \in {1, 2}
              /\ \/ idx = 2 /\ stack[0] = "FRAME" /\ stack[1] = "DOWN" /\ ft = 1
                 \/ idx = 3 /\ stack[0] = "READOUT" /\ stack[2] = "DOWN" /\ ft = 0
         /\ In("PIXEL") =>
              \/ idx = 3 /\ stack[0] = "FRAME" /\ stack[2] = "PIXEL_MAYBE" /\ down_pixel \in {1, 2}
              \/ idx = 2 /\ stack[0] = "READOUT" /\ stack[1] = "ROW"
         /\ idx = 0 => /\ row_down = 0 /\ row_pixels = 0 /\ down_pixel = 0 /\ pm_step = 0
                       /\ pixel_step = 0
         /\ row_pixels # 0 => row_down = 1
         /\ pixel_step # 0 => In("PIXEL")
         /\ idx = 0 => In(stack[0])
BY DEF IInv, TypeOK, CallChain, CountersBelongToCalls, OnStack, In, STACK_SIZE

(* How the history variable follows a step of Clocksim.                     *)
Counts == at' = IF Emits THEN Played!Advance(at) ELSE at

(* What each mode is to keep: one lemma for each of the six.                *)
PlaysOrWaits == Where' /\ (Played!Play \/ UNCHANGED <<at, state>>)

(* FRAME calls the next down, or emits the end of the frame.                *)
LEMMA FramePlays == ASSUME HInv, Frame, Counts PROVE PlaysOrWaits
<1>1. /\ In("FRAME") /\ idx = 0 /\ stack[0] = "FRAME" /\ row_down = 0 /\ down_pixel = 0 /\ pm_step = 0
      /\ frame_downs \in 0..NDown /\ stack \in [0..3 -> Mode] /\ readout_rows \in 0..NRow
  BY Chain DEF HInv, Frame
<1>2. readout_rows \in {0, NRow} /\ Near(Base + frame_downs * 6)
  BY <1>1 DEF HInv, Where, FramePlace
<1>3. UNCHANGED <<row_down, down_pixel, pixel_step, pm_step, readout_rows, row_pixels>> /\ Base' = Base
  BY DEF Frame, Base
<1>4. ~In("DOWN") /\ ~In("PIXEL")
  BY <1>1 DEF In
<1>5. CASE frame_downs < NDown
  <2>1. idx' = 1 /\ stack' = [stack EXCEPT ![1] = "DOWN"] /\ frame_downs' = frame_downs + 1
        /\ UNCHANGED state
    BY <1>1, <1>5, Sizes DEF Frame, Call
  <2>2. at' = at
    BY <1>1, <1>4, <1>5 DEF Counts, Emits
  <2>3. stack'[0] = "FRAME" /\ InDown' = 0
    BY <1>1, <1>3, <2>1 DEF InDown
  <2>4. FramePlace'
    <3>1. at' = Base + frame_downs * 6 \/ (Base + frame_downs * 6 = Again /\ at' = Last)
      BY <1>2, <2>2 DEF Near
    <3>2. Base' + (frame_downs' - 1) * 6 + InDown' = Base + frame_downs * 6
      BY <1>1, <1>3, <2>1, <2>3, Sizes
    <3> QED BY <1>1, <1>2, <1>3, <2>1, <3>1, <3>2 DEF FramePlace, Near
  <2> QED BY <2>1, <2>2, <2>3, <2>4 DEF PlaysOrWaits, Where
<1>6. CASE frame_downs >= NDown
  <2>1. idx' = 0 /\ stack' = [stack EXCEPT ![0] = "READOUT"] /\ frame_downs' = 0
        /\ state' = (state \ {"P2VI"}) \cup {}
    BY <1>1, <1>6, Sizes DEF Frame, Restart, Drive
  <2>2. Emits /\ frame_downs = NDown
    BY <1>1, <1>6, Sizes DEF Emits
  <2>3. PICK x \in Nat : x = Base + frame_downs * 6
    BY <1>1, Sizes
  <2>4. Near(x) /\ x < Last /\ x + 1 = Base + FrameLen
    BY <1>2, <2>2, <2>3, Sizes
  <2>5. Played!Program[x + 1] = "frame_end"
    BY <2>4, ProgramIs, Sizes
  <2>6. at' = x + 1 /\ Played!Play
    <3>1. at' = Played!Advance(at)
      BY <2>2 DEF Counts
    <3> QED BY <2>1, <2>4, <2>5, <3>1, Effects, Plays
  <2>7. stack'[0] = "READOUT"
    BY <1>1, <2>1
  <2>8. at' = FrameLen + readout_rows' * RowLen \/ (readout_rows' = NRow /\ at' = Last)
    BY <1>2, <1>3, <2>4, <2>6, Sizes DEF Base
  <2> QED BY <2>1, <2>6, <2>7, <2>8 DEF PlaysOrWaits, Where, ReadoutPlace
<1> QED BY <1>1, <1>5, <1>6, Sizes

(* READOUT emits nothing: it calls the next row, or returns to FRAME.       *)
LEMMA ReadoutPlays == ASSUME HInv, Readout, Counts PROVE PlaysOrWaits
<1>1. /\ In("READOUT") /\ idx = 0 /\ stack[0] = "READOUT" /\ row_down = 0 /\ down_pixel = 0 /\ pm_step = 0
      /\ row_pixels = 0 /\ pixel_step = 0
      /\ stack \in [0..3 -> Mode] /\ readout_rows \in 0..NRow
  BY Chain DEF HInv, Readout
<1>2. \/ at = FrameLen + readout_rows * RowLen
      \/ readout_rows = NRow /\ at = Last
  BY <1>1 DEF HInv, Where, ReadoutPlace
<1>3. UNCHANGED <<state, row_down, down_pixel, pixel_step, pm_step, row_pixels>> /\ at' = at
  BY <1>1 DEF Readout, Counts, Emits, In
<1>4. CASE readout_rows < NRow
  <2>1. idx' = 1 /\ stack' = [stack EXCEPT ![1] = "ROW"] /\ readout_rows' = readout_rows + 1
    BY <1>1, <1>4, Sizes DEF Readout, Call
  <2>2. stack'[0] = "READOUT" /\ stack'[1] = "ROW"
    BY <1>1, <2>1
  <2>3. InRow' = 0 /\ ~In("PIXEL")' /\ ~In("DOWN")' /\ ~In("PIXEL_MAYBE")'
    BY <1>1, <1>3, <2>1, <2>2 DEF InRow, In
  <2>4. at' = FrameLen + (readout_rows' - 1) * RowLen + InRow'
    BY <1>1, <1>2, <1>3, <1>4, <2>1, <2>3, Sizes
  <2> QED BY <1>1, <1>3, <2>1, <2>2, <2>3, <2>4 DEF PlaysOrWaits, Where, ReadoutPlace
<1>5. CASE readout_rows >= NRow
  <2>1. idx' = 0 /\ stack' = [stack EXCEPT ![0] = "FRAME"] /\ readout_rows' = readout_rows
        /\ frame_downs' = 0 /\ readout_rows = NRow
    BY <1>1, <1>5, Sizes DEF Readout, Restart
  <2>2. stack'[0] = "FRAME" /\ Base' = Again
    BY <1>1, <2>1, Sizes DEF Base
  <2>3. FramePlace'
    <3>1. Base' + frame_downs' * 6 = Again
      BY <2>1, <2>2, Sizes
    <3>2. at' = Again \/ at' = Last
      BY <1>2, <1>3, <2>1, Sizes
    <3> QED BY <2>1, <3>1, <3>2 DEF FramePlace, Near
  <2> QED BY <1>3, <2>2, <2>3 DEF PlaysOrWaits, Where
<1> QED BY <1>1, <1>4, <1>5, Sizes

(* ROW emits nothing: it calls its down, then the pixels, then returns.     *)
LEMMA RowPlays == ASSUME HInv, Row, Counts PROVE PlaysOrWaits
<1>1. /\ In("ROW") /\ idx = 1 /\ stack[0] = "READOUT" /\ stack[1] = "ROW" /\ down_pixel = 0
      /\ stack \in [0..3 -> Mode] /\ readout_rows \in 0..NRow /\ row_pixels \in 0..NPixel
      /\ row_down \in {0, 1} /\ (row_pixels # 0 => row_down = 1) /\ pixel_step = 0
  BY Chain DEF HInv, Row, In
<1>2. /\ readout_rows >= 1
      /\ at = FrameLen + (readout_rows - 1) * RowLen + (IF row_down = 0 THEN 0 ELSE 2 + row_pixels * 2)
  <2>1. readout_rows >= 1 /\ at = FrameLen + (readout_rows - 1) * RowLen + InRow
    BY <1>1 DEF HInv, Where, ReadoutPlace
  <2>2. InRow = IF row_down = 0 THEN 0 ELSE 2 + row_pixels * 2
    BY <1>1 DEF InRow, In
  <2> QED BY <2>1, <2>2
<1>3. UNCHANGED <<state, down_pixel, pixel_step, pm_step, readout_rows>> /\ at' = at
  BY <1>1 DEF Row, Counts, Emits, In
<1>4. CASE row_down = 0
  <2>1. idx' = 2 /\ stack' = [stack EXCEPT ![2] = "DOWN"] /\ row_down' = 1 /\ row_pixels' = row_pixels
    BY <1>1, <1>4 DEF Row, Call
  <2>2. stack'[0] = "READOUT" /\ stack'[2] = "DOWN"
    BY <1>1, <2>1
  <2>3. InRow' = 0 /\ ~In("PIXEL")' /\ row_pixels = 0
    BY <1>1, <1>3, <1>4, <2>1, <2>2 DEF InRow, In
  <2> QED BY <1>1, <1>2, <1>3, <1>4, <2>1, <2>2, <2>3 DEF PlaysOrWaits, Where, ReadoutPlace
<1>5. CASE row_down = 1 /\ row_pixels < NPixel
  <2>1. /\ idx' = 2 /\ stack' = [stack EXCEPT ![2] = "PIXEL"] /\ row_down' = row_down
        /\ row_pixels' = row_pixels + 1
    BY <1>1, <1>5, Sizes DEF Row, Call
  <2>2. stack'[0] = "READOUT" /\ stack'[2] = "PIXEL"
    BY <1>1, <2>1
  <2>3. InRow' = 2 + row_pixels * 2 /\ ~In("DOWN")' /\ ~In("PIXEL_MAYBE")'
    BY <1>1, <1>3, <2>1, <2>2 DEF InRow, In, PixelDone
  <2> QED BY <1>1, <1>2, <1>3, <1>5, <2>1, <2>2, <2>3 DEF PlaysOrWaits, Where, ReadoutPlace
<1>6. CASE row_down = 1 /\ row_pixels >= NPixel
  <2>1. idx' = 0 /\ stack' = stack /\ row_pixels = NPixel
    BY <1>1, <1>6, Sizes DEF Row, Return
  <2>2. at' = FrameLen + readout_rows' * RowLen
    <3>1. PICK m \in Nat : m = RowLen
      BY Sizes
    <3>2. m = 2 + NPixel * 2
      BY <3>1, Sizes
    <3>3. at = FrameLen + (readout_rows - 1) * m + m
      BY <1>1, <1>2, <1>6, <2>1, <3>1, <3>2, Sizes
    <3>4. (readout_rows - 1) * m + m = readout_rows * m
      BY <1>1, Sizes
    <3> QED BY <1>1, <1>3, <3>1, <3>3, <3>4, Sizes
  <2> QED BY <1>1, <1>3, <2>1, <2>2 DEF PlaysOrWaits, Where, ReadoutPlace
<1> QED BY <1>1, <1>4, <1>5, <1>6, Sizes

(* DOWN emits its two groups, each before a call of PIXEL_MAYBE.            *)
LEMMA DownPlays == ASSUME HInv, Down, Counts PROVE PlaysOrWaits
<1>1. /\ In("DOWN") /\ pm_step = 0 /\ pixel_step = 0 /\ down_pixel \in 0..2 /\ frame_downs \in 0..NDown
      /\ \/ idx = 1 /\ stack[0] = "FRAME"
         \/ idx = 2 /\ stack[0] = "READOUT" /\ stack[1] = "ROW"
      /\ stack \in [0..3 -> Mode] /\ readout_rows \in 0..NRow
  BY Chain DEF HInv, Down
<1>2. /\ UNCHANGED <<ft, row_down, pixel_step, pm_step, frame_downs, readout_rows, row_pixels>>
      /\ Base' = Base
      /\ ~In("PIXEL") /\ ~In("FRAME") /\ ~In("ROW") /\ ~In("PIXEL_MAYBE")
  BY <1>1 DEF Down, Base, In
<1>3. /\ down_pixel = 0 => /\ idx' = idx + 1 /\ stack' = [stack EXCEPT ![idx + 1] = "PIXEL_MAYBE"]
                           /\ down_pixel' = 1
                           /\ state' = (state \ {"P2VI", "P2VS", "TG"}) \cup {"P1VI", "P1VS"}
      /\ down_pixel = 1 => /\ idx' = idx + 1 /\ stack' = [stack EXCEPT ![idx + 1] = "PIXEL_MAYBE"]
                           /\ down_pixel' = 2
                           /\ state' = (state \ {"P1VI", "P1VS"}) \cup {"P2VI", "P2VS", "TG"}
      /\ down_pixel = 2 => /\ idx' = idx - 1 /\ stack' = stack
                           /\ down_pixel' = 0 /\ state' = state
  BY DEF Down, Call, Return, Drive
<1>4. /\ down_pixel \in {0, 1} => at' = Played!Advance(at)
      /\ down_pixel = 2 => at' = at
  BY <1>1, <1>2 DEF Counts, Emits
<1>5. CASE idx = 1 /\ stack[0] = "FRAME"
  <2>1. /\ readout_rows \in {0, NRow} /\ frame_downs \in 1..NDown
        /\ Near(Base + (frame_downs - 1) * 6 + down_pixel * 3)
    BY <1>1, <1>5 DEF HInv, Where, FramePlace, InDown
  <2>2. CASE down_pixel \in {0, 1}
    <3>1. PICK x : x = Base + (frame_downs - 1) * 6 + down_pixel * 3
      OBVIOUS
    <3>2. down_pixel * 3 \in 0..5 /\ Base \in {0, Again}
      BY <2>2, Sizes
    <3>3. x \in Nat /\ x < Last /\ Played!Program[x + 1] = W!down(TRUE)[down_pixel * 3 + 1]
      BY <2>1, <3>1, <3>2, InFrame
    <3>4. Near(x)
      BY <2>1, <3>1
    <3>5. at' = x + 1 /\ Played!Play
      <4>1. CASE down_pixel = 0
        <5>0. down_pixel * 3 + 1 = 1
          BY <4>1
        <5>1. Played!Program[x + 1] = "down_1"
          BY <3>3, <5>0, DownIs
        <5> QED BY <1>3, <1>4, <3>3, <3>4, <4>1, <5>1, Effects, Plays
      <4>2. CASE down_pixel = 1
        <5>0. down_pixel * 3 + 1 = 4
          BY <4>2
        <5>1. Played!Program[x + 1] = "down_2"
          BY <3>3, <5>0, DownIs
        <5> QED BY <1>3, <1>4, <3>3, <3>4, <4>2, <5>1, Effects, Plays
      <4> QED BY <2>2, <4>1, <4>2
    <3>6. idx' = 2 /\ stack'[0] = "FRAME" /\ down_pixel' = down_pixel + 1
      BY <1>1, <1>3, <1>5, <2>2
    <3>7. InDown' = down_pixel * 3 + 1
      <4>1. InDown' = (down_pixel' - 1) * 3 + 1
        BY <1>1, <1>2, <3>6 DEF InDown
      <4> QED BY <1>1, <3>6, <4>1
    <3>8. at' = Base' + (frame_downs' - 1) * 6 + InDown'
      BY <1>1, <1>2, <3>1, <3>5, <3>7, Sizes
    <3>9. FramePlace'
      BY <1>1, <1>2, <2>1, <3>6, <3>8 DEF FramePlace, Near
    <3> QED BY <3>5, <3>6, <3>9 DEF PlaysOrWaits, Where
  <2>3. CASE down_pixel = 2
    <3>1. idx' = 0 /\ stack'[0] = "FRAME"
      BY <1>3, <1>5, <2>3
    <3>2. Base + (frame_downs - 1) * 6 + down_pixel * 3 = Base' + frame_downs' * 6
      BY <1>1, <1>2, <2>3, Sizes
    <3>3. FramePlace'
      BY <1>2, <1>4, <2>1, <2>3, <3>1, <3>2 DEF FramePlace, Near
    <3> QED BY <1>3, <1>4, <2>3, <3>1, <3>3 DEF PlaysOrWaits, Where
  <2> QED BY <1>1, <2>2, <2>3
<1>6. CASE idx = 2 /\ stack[0] = "READOUT" /\ stack[1] = "ROW"
  <2>1. /\ readout_rows \in 1..NRow /\ row_pixels = 0 /\ row_down = 1
        /\ at = FrameLen + (readout_rows - 1) * RowLen + down_pixel
    <3>1. InRow = down_pixel
      BY <1>2 DEF InRow
    <3> QED BY <1>1, <1>6, <3>1 DEF HInv, Where, ReadoutPlace
  <2>2. CASE down_pixel \in {0, 1}
    <3>1. PICK x : x = FrameLen + (readout_rows - 1) * RowLen + down_pixel
      OBVIOUS
    <3>2. down_pixel \in 0..(RowLen - 1)
      BY <2>2, Sizes
    <3>3. x \in Nat /\ x < Last /\ Played!Program[x + 1] = W!row[down_pixel + 1]
      BY <2>1, <3>1, <3>2, InReadout
    <3>4. Near(x)
      BY <2>1, <3>1 DEF Near
    <3>5. at' = x + 1 /\ Played!Play
      <4>1. CASE down_pixel = 0
        <5>1. Played!Program[x + 1] = "down_1"
          BY <3>3, <4>1, RowIs
        <5> QED BY <1>3, <1>4, <3>3, <3>4, <4>1, <5>1, Effects, Plays
      <4>2. CASE down_pixel = 1
        <5>1. Played!Program[x + 1] = "down_2"
          BY <3>3, <4>2, RowIs
        <5> QED BY <1>3, <1>4, <3>3, <3>4, <4>2, <5>1, Effects, Plays
      <4> QED BY <2>2, <4>1, <4>2
    <3>6. idx' = 3 /\ stack'[0] = "READOUT" /\ stack'[3] = "PIXEL_MAYBE" /\ down_pixel' = down_pixel + 1
      BY <1>1, <1>3, <1>6, <2>2
    <3>7. InRow' = down_pixel + 1 /\ ~In("PIXEL")'
      BY <3>6 DEF InRow, In
    <3>8. at' = FrameLen + (readout_rows' - 1) * RowLen + InRow'
      <4>1. PICK k : k = FrameLen + (readout_rows - 1) * RowLen
        OBVIOUS
      <4>2. k \in Int
        BY <1>1, <4>1, Sizes
      <4> QED BY <1>1, <1>2, <3>1, <3>5, <3>7, <4>1, <4>2
    <3>9. ReadoutPlace'
      BY <1>2, <2>1, <3>6, <3>7, <3>8 DEF ReadoutPlace
    <3> QED BY <3>5, <3>6, <3>9 DEF PlaysOrWaits, Where
  <2>3. CASE down_pixel = 2
    <3>1. idx' = 1 /\ stack' = stack
      BY <1>3, <1>6, <2>3
    <3>2. InRow' = 2 /\ ~In("PIXEL")' /\ ~In("DOWN")' /\ ~In("PIXEL_MAYBE")'
      BY <1>2, <1>6, <2>1, <3>1 DEF InRow, In
    <3>3. ReadoutPlace'
      BY <1>2, <1>4, <2>1, <2>3, <3>1, <3>2 DEF ReadoutPlace
    <3> QED BY <1>3, <1>4, <1>6, <2>3, <3>1, <3>3 DEF PlaysOrWaits, Where
  <2> QED BY <1>1, <2>2, <2>3
<1> QED BY <1>1, <1>5, <1>6

(* PIXEL_MAYBE emits nothing: a frame's calls a pixel, a row's waits.       *)
LEMMA PixelMaybePlays == ASSUME HInv, PixelMaybe, Counts PROVE PlaysOrWaits
<1>1. /\ In("PIXEL_MAYBE") /\ pixel_step = 0 /\ down_pixel \in {1, 2} /\ pm_step \in 0..7
      /\ frame_downs \in 0..NDown /\ ft \in {0, 1}
      /\ \/ idx = 2 /\ stack[0] = "FRAME" /\ stack[1] = "DOWN" /\ ft = 1
         \/ idx = 3 /\ stack[0] = "READOUT" /\ stack[2] = "DOWN" /\ ft = 0
      /\ stack \in [0..3 -> Mode] /\ readout_rows \in 0..NRow
  BY Chain DEF HInv, PixelMaybe
<1>2. /\ UNCHANGED <<state, ft, row_down, down_pixel, pixel_step, frame_downs, readout_rows, row_pixels>>
      /\ Base' = Base /\ at' = at
      /\ ~In("PIXEL") /\ ~In("FRAME") /\ ~In("ROW")
  BY <1>1 DEF PixelMaybe, Base, In, Counts, Emits
<1>3. CASE idx = 2 /\ stack[0] = "FRAME" /\ stack[1] = "DOWN" /\ ft = 1
  <2>1. /\ readout_rows \in {0, NRow} /\ frame_downs >= 1 /\ pm_step \in {0, 7}
        /\ Near(Base + (frame_downs - 1) * 6 + ((down_pixel - 1) * 3 + (IF pm_step = 7 THEN 3 ELSE 1)))
    BY <1>1, <1>3 DEF HInv, Where, FramePlace, InDown
  <2>2. CASE pm_step = 0
    <3>1. idx' = 3 /\ stack' = [stack EXCEPT ![3] = "PIXEL"] /\ pm_step' = 7
      BY <1>3, <2>2 DEF PixelMaybe, Call
    <3>2. stack'[0] = "FRAME" /\ InDown' = (down_pixel - 1) * 3 + 1
      BY <1>1, <1>2, <1>3, <3>1 DEF InDown, PixelDone
    <3>3. FramePlace'
      BY <1>2, <2>1, <2>2, <3>1, <3>2 DEF FramePlace, Near
    <3> QED BY <1>2, <3>2, <3>3 DEF PlaysOrWaits, Where
  <2>3. CASE pm_step = 7
    <3>1. idx' = 1 /\ stack' = stack /\ pm_step' = 0
      BY <1>3, <2>3 DEF PixelMaybe, Return
    <3>2. InDown' = (down_pixel - 1) * 3 + 3
      <4>1. InDown' = down_pixel * 3
        BY <1>2, <3>1 DEF InDown
      <4> QED BY <1>1, <4>1
    <3>3. FramePlace'
      BY <1>2, <2>1, <2>3, <3>1, <3>2 DEF FramePlace, Near
    <3> QED BY <1>2, <1>3, <3>1, <3>3 DEF PlaysOrWaits, Where
  <2> QED BY <2>1, <2>2, <2>3
<1>4. CASE idx = 3 /\ stack[0] = "READOUT" /\ stack[2] = "DOWN" /\ ft = 0
  <2>1. /\ readout_rows >= 1 /\ row_pixels = 0 /\ row_down = 1
        /\ at = FrameLen + (readout_rows - 1) * RowLen + down_pixel
    <3>1. InRow = down_pixel
      BY <1>2 DEF InRow
    <3> QED BY <1>1, <1>4, <3>1 DEF HInv, Where, ReadoutPlace
  <2>2. \/ idx' = 3 /\ stack' = stack
        \/ idx' = 2 /\ stack' = stack
    BY <1>1, <1>4 DEF PixelMaybe, Return
  <2>3. InRow' = down_pixel /\ ~In("PIXEL")'
    <3>1. stack[idx'] \in {"PIXEL_MAYBE", "DOWN"}
      BY <1>1, <1>4, <2>2 DEF In
    <3> QED BY <1>2, <2>2, <3>1 DEF InRow, In
  <2>4. ReadoutPlace'
    BY <1>2, <2>1, <2>2, <2>3 DEF ReadoutPlace
  <2> QED BY <1>2, <1>4, <2>2, <2>4 DEF PlaysOrWaits, Where
<1> QED BY <1>1, <1>3, <1>4

(* PIXEL emits its two groups at steps 0 and 5.                             *)
LEMMA PixelPlays == ASSUME HInv, Pixel, Counts PROVE PlaysOrWaits
<1>1. /\ In("PIXEL") /\ pixel_step \in 0..7 /\ down_pixel \in 0..2 /\ row_pixels \in 0..NPixel
      /\ frame_downs \in 0..NDown /\ readout_rows \in 0..NRow
      /\ \/ idx = 3 /\ stack[0] = "FRAME" /\ stack[2] = "PIXEL_MAYBE" /\ down_pixel \in {1, 2}
         \/ idx = 2 /\ stack[0] = "READOUT" /\ stack[1] = "ROW"
      /\ stack \in [0..3 -> Mode]
  BY Chain DEF HInv, Pixel
<1>2. /\ UNCHANGED <<row_down, down_pixel, pm_step, frame_downs, readout_rows, row_pixels, stack>>
      /\ Base' = Base
      /\ ~In("DOWN") /\ ~In("FRAME") /\ ~In("ROW") /\ ~In("PIXEL_MAYBE")
  BY <1>1 DEF Pixel, Base, In, Return
<1>3. /\ pixel_step = 0 => state' = (state \ HorizontalSecond) \cup HorizontalFirst
      /\ pixel_step = 5 => state' = (state \ HorizontalFirst) \cup HorizontalSecond
      /\ pixel_step \notin {0, 5} => state' = state
      /\ pixel_step # 7 => pixel_step' = pixel_step + 1 /\ idx' = idx
      /\ pixel_step = 7 => pixel_step' = 0 /\ idx' = idx - 1
  BY <1>1 DEF Pixel, Drive, Return
<1>4. at' = IF pixel_step \in {0, 5} THEN Played!Advance(at) ELSE at
  BY <1>1, <1>2 DEF Counts, Emits
<1>5. /\ PixelDone \in 0..2
      /\ pixel_step = 0 => PixelDone = 0 /\ PixelDone' = 1
      /\ pixel_step = 5 => PixelDone = 1 /\ PixelDone' = 2
      /\ pixel_step \in {1, 2, 3, 4, 6} => PixelDone' = PixelDone
      /\ pixel_step = 7 => PixelDone = 2
  BY <1>1, <1>3 DEF PixelDone
<1>6. CASE idx = 3 /\ stack[0] = "FRAME" /\ stack[2] = "PIXEL_MAYBE" /\ down_pixel \in {1, 2}
  <2>1. /\ readout_rows \in {0, NRow} /\ frame_downs \in 1..NDown /\ pm_step = 7
        /\ Near(Base + (frame_downs - 1) * 6 + ((down_pixel - 1) * 3 + 1 + PixelDone))
    BY <1>1, <1>6 DEF HInv, Where, FramePlace, InDown
  <2>2. CASE pixel_step \in {0, 5}
    <3>1. PICK o : o = (down_pixel - 1) * 3 + 1 + PixelDone
      OBVIOUS
    <3>2. o \in 0..5 /\ Base \in {0, Again}
      BY <1>5, <1>6, <2>2, <3>1, Sizes
    <3>3. PICK x : x = Base + (frame_downs - 1) * 6 + o
      OBVIOUS
    <3>4. x \in Nat /\ x < Last /\ Played!Program[x + 1] = W!down(TRUE)[o + 1] /\ Near(x)
      BY <2>1, <3>1, <3>2, <3>3, InFrame
    <3>5. at' = x + 1 /\ Played!Play
      <4>1. CASE pixel_step = 0
        <5>1. o + 1 \in {2, 5}
          BY <1>5, <1>6, <3>1, <4>1
        <5>2. Played!Program[x + 1] = "pixel_1"
          BY <3>4, <5>1, DownIs
        <5> QED BY <1>3, <1>4, <3>4, <4>1, <5>2, Effects, Plays
      <4>2. CASE pixel_step = 5
        <5>1. o + 1 \in {3, 6}
          BY <1>5, <1>6, <3>1, <4>2
        <5>2. Played!Program[x + 1] = "pixel_2"
          BY <3>4, <5>1, DownIs
        <5> QED BY <1>3, <1>4, <3>4, <4>2, <5>2, Effects, Plays
      <4> QED BY <2>2, <4>1, <4>2
    <3>6. InDown' = o + 1 /\ idx' = 3
      BY <1>1, <1>2, <1>3, <1>5, <1>6, <2>2, <3>1 DEF InDown
    <3>7. at' = Base' + (frame_downs' - 1) * 6 + InDown'
      BY <1>1, <1>2, <3>2, <3>3, <3>5, <3>6, Sizes
    <3>8. FramePlace'
      BY <1>2, <2>1, <3>6, <3>7 DEF FramePlace, Near
    <3> QED BY <1>2, <1>6, <3>5, <3>8 DEF PlaysOrWaits, Where
  <2>3. CASE pixel_step \notin {0, 5}
    <3>1. InDown' = (down_pixel - 1) * 3 + 1 + PixelDone /\ idx' \in {2, 3}
      <4>1. CASE pixel_step = 7
        <5>1. idx' = 2
          BY <1>3, <1>6, <4>1
        <5>2. InDown' = (down_pixel - 1) * 3 + 3
          BY <1>2, <2>1, <5>1 DEF InDown
        <5> QED BY <1>5, <1>6, <4>1, <5>1, <5>2
      <4>2. CASE pixel_step # 7
        <5>1. idx' = 3 /\ PixelDone' = PixelDone
          BY <1>1, <1>3, <1>5, <1>6, <2>3, <4>2
        <5> QED BY <1>2, <5>1 DEF InDown
      <4> QED BY <4>1, <4>2
    <3>2. FramePlace'
      BY <1>2, <1>4, <2>1, <2>3, <3>1 DEF FramePlace, Near
    <3> QED BY <1>2, <1>3, <1>4, <1>6, <2>3, <3>2 DEF PlaysOrWaits, Where
  <2> QED BY <2>2, <2>3
<1>7. CASE idx = 2 /\ stack[0] = "READOUT" /\ stack[1] = "ROW"
  <2>1. /\ readout_rows \in 1..NRow /\ row_pixels \in 1..NPixel /\ row_down = 1
        /\ at = FrameLen + (readout_rows - 1) * RowLen + (row_pixels * 2 + PixelDone)
    <3>1. InRow = row_pixels * 2 + PixelDone
      BY <1>1, <1>2 DEF InRow
    <3> QED BY <1>1, <1>7, <3>1 DEF HInv, Where, ReadoutPlace
  <2>2. CASE pixel_step \in {0, 5}
    <3>1. PICK o : o = row_pixels * 2 + PixelDone
      OBVIOUS
    <3>2. o \in 0..(RowLen - 1)
      BY <1>5, <2>1, <2>2, <3>1, Sizes
    <3>3. PICK x : x = FrameLen + (readout_rows - 1) * RowLen + o
      OBVIOUS
    <3>4. x \in Nat /\ x < Last /\ Played!Program[x + 1] = W!row[o + 1] /\ Near(x)
      BY <2>1, <3>1, <3>2, <3>3, InReadout DEF Near
    <3>5. PICK q \in 0..(NPixel - 1) : q = row_pixels - 1
      BY <2>1, Sizes
    <3>6. at' = x + 1 /\ Played!Play
      <4>1. CASE pixel_step = 0
        <5>1. o + 1 = 2 + (q * 2 + 1)
          BY <1>5, <2>1, <3>1, <3>5, <4>1
        <5>2. Played!Program[x + 1] = "pixel_1"
          BY <3>4, <5>1, RowIs
        <5> QED BY <1>3, <1>4, <3>4, <4>1, <5>2, Effects, Plays
      <4>2. CASE pixel_step = 5
        <5>1. o + 1 = 2 + (q * 2 + 2)
          BY <1>5, <2>1, <3>1, <3>5, <4>2
        <5>2. Played!Program[x + 1] = "pixel_2"
          BY <3>4, <5>1, RowIs
        <5> QED BY <1>3, <1>4, <3>4, <4>2, <5>2, Effects, Plays
      <4> QED BY <2>2, <4>1, <4>2
    <3>7. idx' = idx /\ ~In("ROW")' /\ ~In("DOWN")' /\ ~In("PIXEL_MAYBE")' /\ In("PIXEL")'
      BY <1>1, <1>2, <1>3, <2>2 DEF In
    <3>8. InRow' = o + 1
      BY <1>1, <1>2, <1>5, <2>1, <2>2, <3>1, <3>7 DEF InRow
    <3>9. at' = FrameLen + (readout_rows' - 1) * RowLen + InRow'
      <4>1. PICK k : k = FrameLen + (readout_rows - 1) * RowLen
        OBVIOUS
      <4>2. k \in Int
        BY <1>1, <4>1, Sizes
      <4> QED BY <1>2, <3>2, <3>3, <3>6, <3>8, <4>1, <4>2
    <3>10. ReadoutPlace'
      BY <1>2, <1>7, <2>1, <3>7, <3>9 DEF ReadoutPlace
    <3> QED BY <1>2, <1>7, <3>6, <3>10 DEF PlaysOrWaits, Where
  <2>3. CASE pixel_step \notin {0, 5}
    <3>1. ~In("DOWN")' /\ ~In("PIXEL_MAYBE")' /\ idx' \in {1, 2}
      BY <1>1, <1>2, <1>3, <1>7 DEF In
    <3>2. InRow' = row_pixels * 2 + PixelDone
      <4>1. CASE pixel_step = 7
        <5>1. In("ROW")'
          BY <1>2, <1>3, <1>7, <4>1 DEF In
        <5>2. InRow' = 2 + row_pixels * 2
          BY <1>2, <2>1, <5>1 DEF InRow, In
        <5> QED BY <1>5, <2>1, <4>1, <5>2
      <4>2. CASE pixel_step # 7
        <5>1. In("PIXEL")' /\ PixelDone' = PixelDone
          BY <1>1, <1>2, <1>3, <1>5, <2>3, <4>2 DEF In
        <5> QED BY <1>2, <5>1 DEF InRow, In
      <4> QED BY <4>1, <4>2
    <3>3. ReadoutPlace'
      BY <1>2, <1>4, <2>1, <2>3, <3>1, <3>2 DEF ReadoutPlace
    <3> QED BY <1>2, <1>3, <1>4, <1>7, <2>3, <3>3 DEF PlaysOrWaits, Where
  <2> QED BY <2>2, <2>3
<1> QED BY <1>1, <1>6, <1>7

(***************************************************************************)
(* For every length of frame, readout and row the stack machine drives the *)
(* signals in the order of the nested loops of test/clocksim.c: a frame, a *)
(* readout, and frames for ever (clocksim.vhdl:84-213).                    *)
(***************************************************************************)
THEOREM ClocksimPlaysWaveform == HSpec => PlaysWaveform
<1>1. HInit => HInv
  <2> SUFFICES ASSUME HInit PROVE HInv
    OBVIOUS
  <2>1. IInv
    BY InitIInv DEF HInit
  <2>2. stack[0] = "FRAME" /\ idx = 0 /\ readout_rows = 0 /\ frame_downs = 0 /\ at = 0
    BY DEF HInit, Init, STACK_SIZE
  <2>3. Base + frame_downs * 6 = 0
    BY <2>2 DEF Base
  <2> QED BY <2>1, <2>2, <2>3 DEF HInv, Where, FramePlace, Near
<1>2. HInv /\ [HNext]_<<vars, at>> => HInv' /\ [Played!Play]_<<at, state>>
  <2> SUFFICES ASSUME HInv, [HNext]_<<vars, at>> PROVE HInv' /\ [Played!Play]_<<at, state>>
    OBVIOUS
  <2>1. IInv'
    BY NextIInv DEF HInv, HNext
  <2>2. CASE HNext
    <3>1. Counts /\ Next
      BY <2>2 DEF HNext, Counts
    <3>2. PlaysOrWaits
      BY <3>1, FramePlays, ReadoutPlays, RowPlays, DownPlays, PixelMaybePlays, PixelPlays DEF Next
    <3> QED BY <2>1, <3>2 DEF PlaysOrWaits, HInv
  <2>3. CASE UNCHANGED <<vars, at>>
    <3>1. Where'
      BY <2>3 DEF HInv, Where, FramePlace, ReadoutPlace, Near, Base, InDown, InRow, In, PixelDone, vars
    <3>2. UNCHANGED <<at, state>>
      BY <2>3 DEF vars
    <3> QED BY <2>1, <3>1, <3>2 DEF HInv
  <2> QED BY <2>2, <2>3
<1>3. HInit => Played!Init
  BY DEF HInit, Init, Played!Init
<1> QED BY <1>1, <1>2, <1>3, PTL DEF HSpec, PlaysWaveform, Played!Spec
-----------------------------------------------------------------------------
USE DEF StepsPixel, StepsDown, StepsRow, CallsDown, CallsRow

(* The periods left, by the chain of calls on the stack.                    *)
OfRow == IF row_down = 0 THEN 21 + NPixel * 9 ELSE (NPixel - row_pixels) * 9 + 1

LeftByChain ==
  /\ stack[0] = "FRAME" =>
       /\ idx = 0 => Left = PhaseLeft
       /\ idx >= 1 => ft = 1
       /\ idx = 1 => Left = PhaseLeft + 3 - down_pixel + (2 - down_pixel) * 10
       /\ idx >= 2 => Left = PhaseLeft + 3 - down_pixel + (2 - down_pixel) * 10
                               + (IF pm_step = 7 THEN 1 ELSE 10)
                               + (IF idx = 3 THEN 8 - pixel_step ELSE 0)
  /\ stack[0] = "READOUT" =>
       /\ idx = 0 => Left = PhaseLeft
       /\ idx = 1 => Left = PhaseLeft + OfRow
       /\ idx = 2 /\ stack[2] = "PIXEL" => Left = PhaseLeft + OfRow + 8 - pixel_step
       /\ idx >= 2 /\ stack[2] = "DOWN" =>
            /\ ft = 0
            /\ Left = PhaseLeft + OfRow + 3 - down_pixel + (2 - down_pixel) * 8
                        + (IF idx = 2 THEN 0 ELSE IF pm_step = 7 THEN 1 ELSE 8 - pm_step)

LEMMA LeftIs == IInv => LeftByChain
<1> SUFFICES ASSUME IInv PROVE LeftByChain
  OBVIOUS
<1> USE DEF IInv, TypeOK, CallChain, OnStack, In, STACK_SIZE
<1>1. PhaseLeft \in Int /\ OfRow \in Int
  BY ClocksimAssumption DEF PhaseLeft, OfRow
<1>2. CASE stack[0] = "FRAME"
  <2>1. /\ RowLeft = 0
        /\ DownLeft = IF idx = 0 THEN 0 ELSE 3 - down_pixel + (2 - down_pixel) * 10
        /\ PixelMaybeLeft = IF idx < 2 THEN 0 ELSE IF pm_step = 7 THEN 1 ELSE 10
        /\ PixelLeft = IF idx = 3 THEN 8 - pixel_step ELSE 0
    BY <1>2 DEF RowLeft, DownLeft, PixelMaybeLeft, PixelLeft
  <2> QED BY <1>1, <1>2, <2>1 DEF Left, LeftByChain
<1>3. CASE stack[0] = "READOUT"
  <2>1. RowLeft = IF idx = 0 THEN 0 ELSE OfRow
    BY <1>3 DEF RowLeft, OfRow
  <2>2. CASE idx <= 1
    <3>1. DownLeft = 0 /\ PixelMaybeLeft = 0 /\ PixelLeft = 0
      BY <1>3, <2>2 DEF DownLeft, PixelMaybeLeft, PixelLeft
    <3> QED BY <1>1, <1>3, <2>1, <2>2, <3>1 DEF Left, LeftByChain
  <2>3. CASE idx = 2 /\ stack[2] = "PIXEL"
    <3>1. DownLeft = 0 /\ PixelMaybeLeft = 0 /\ PixelLeft = 8 - pixel_step
      BY <1>3, <2>3 DEF DownLeft, PixelMaybeLeft, PixelLeft
    <3> QED BY <1>1, <1>3, <2>1, <2>3, <3>1 DEF Left, LeftByChain
  <2>4. CASE idx >= 2 /\ stack[2] = "DOWN"
    <3>1. /\ ft = 0 /\ DownLeft = 3 - down_pixel + (2 - down_pixel) * 8 /\ PixelLeft = 0
          /\ PixelMaybeLeft = IF idx = 2 THEN 0 ELSE IF pm_step = 7 THEN 1 ELSE 8 - pm_step
      BY <1>3, <2>4 DEF DownLeft, PixelMaybeLeft, PixelLeft
    <3> QED BY <1>1, <1>3, <2>1, <2>4, <3>1 DEF Left, LeftByChain
  <2> QED BY <1>3, <2>2, <2>3, <2>4
<1> QED BY <1>2, <1>3

LEMMA LeftThen == IInv' => LeftByChain'
BY LeftIs, PTL

(* One down, row or pixel less to come.                                     *)
LEMMA OneLess ==
  ASSUME NEW n \in Nat, NEW r \in 0..n, r < n, NEW k \in Nat
  PROVE  (n - (r + 1)) * k + k = (n - r) * k
<1>1. PICK d \in Nat : d = n - (r + 1)
  OBVIOUS
<1>2. n - r = d + 1
  BY <1>1
<1>3. (d + 1) * k = d * k + k
  OBVIOUS
<1> QED BY <1>1, <1>2, <1>3

LEMMA Periods ==
  ASSUME IInv
  PROVE  /\ PhaseLeft \in Nat \ {0}
         /\ row_pixels <= NPixel /\ OfRow \in Nat \ {0}
         /\ down_pixel \in 0..2 /\ pixel_step \in 0..7 /\ pm_step \in 0..7
         /\ (2 - down_pixel) * 10 \in Nat /\ (2 - down_pixel) * 8 \in Nat
<1> USE ClocksimAssumption DEF IInv, TypeOK
<1>1. NDown - frame_downs \in Nat /\ NRow - readout_rows \in Nat /\ NPixel - row_pixels \in Nat
  OBVIOUS
<1>2. (NRow - readout_rows) * (22 + NPixel * 9) \in Nat
  BY <1>1
<1> QED BY <1>1, <1>2 DEF PhaseLeft, OfRow

CountsDown ==
  /\ Left >= 1
  /\ IF stack'[0] = stack[0] THEN Left' = Left - 1 ELSE Left = 1 /\ Left' = PhaseLeft'

LEMMA AtLeastOne == IInv => Left >= 1
<1> SUFFICES ASSUME IInv PROVE Left >= 1
  OBVIOUS
<1>1. LeftByChain
  BY LeftIs
<1> QED BY <1>1, Periods DEF LeftByChain, IInv, CallChain

LEMMA FrameCounts == ASSUME IInv, IInv', Frame PROVE CountsDown
<1>1. LeftByChain /\ LeftByChain' /\ Left >= 1
  BY LeftIs, LeftThen, AtLeastOne
<1>2. idx = 0 /\ stack[0] = "FRAME" /\ down_pixel = 0 /\ stack \in [0..3 -> Mode]
      /\ NDown \in Nat /\ frame_downs \in 0..NDown
  BY ClocksimAssumption
  DEF IInv, TypeOK, CallChain, CountersBelongToCalls, OnStack, In, Frame, STACK_SIZE
<1>left. Left = PhaseLeft
  BY <1>1, <1>2 DEF LeftByChain
<1>3. CASE frame_downs < NDown
  <2>1. idx' = 1 /\ stack'[0] = "FRAME" /\ down_pixel' = 0 /\ frame_downs' = frame_downs + 1
    BY <1>2, <1>3 DEF Frame, Call
  <2>2. Left' = PhaseLeft' + 3 - down_pixel' + (2 - down_pixel') * 10
    BY <1>1, <2>1 DEF LeftByChain
  <2>3. PhaseLeft = PhaseLeft' + 24 /\ PhaseLeft \in Int /\ PhaseLeft' \in Int
    BY <1>2, <1>3, <2>1 DEF PhaseLeft
  <2>4. Left' = PhaseLeft' + 23
    BY <2>1, <2>2, <2>3
  <2>5. Left' = Left - 1
    BY <1>left, <2>3, <2>4
  <2> QED BY <1>1, <1>2, <2>1, <2>5 DEF CountsDown
<1>4. CASE frame_downs >= NDown
  <2>1. idx' = 0 /\ stack'[0] = "READOUT" /\ frame_downs = NDown
    BY <1>2, <1>4, ClocksimAssumption DEF Frame, Restart, IInv, TypeOK, STACK_SIZE
  <2>2. Left = 1
    BY <1>left, <1>2, <2>1, ClocksimAssumption DEF PhaseLeft
  <2>3. Left' = PhaseLeft'
    BY <1>1, <2>1 DEF LeftByChain
  <2> QED BY <1>2, <2>1, <2>2, <2>3 DEF CountsDown
<1> QED BY <1>3, <1>4, ClocksimAssumption DEF IInv, TypeOK

LEMMA ReadoutCounts == ASSUME IInv, IInv', Readout PROVE CountsDown
<1>1. LeftByChain /\ LeftByChain' /\ Left >= 1
  BY LeftIs, LeftThen, AtLeastOne
<1>2. idx = 0 /\ stack[0] = "READOUT" /\ row_down = 0 /\ stack \in [0..3 -> Mode]
      /\ NRow \in Nat /\ readout_rows \in 0..NRow
  BY ClocksimAssumption
  DEF IInv, TypeOK, CallChain, CountersBelongToCalls, OnStack, In, Readout, STACK_SIZE
<1>left. Left = PhaseLeft
  BY <1>1, <1>2 DEF LeftByChain
<1>3. CASE readout_rows < NRow
  <2>1. idx' = 1 /\ stack'[0] = "READOUT" /\ row_down' = 0 /\ readout_rows' = readout_rows + 1
    BY <1>2, <1>3 DEF Readout, Call
  <2>2. Left' = PhaseLeft' + OfRow' /\ OfRow' = 21 + NPixel * 9
    BY <1>1, <2>1 DEF LeftByChain, OfRow
  <2>3. PhaseLeft = PhaseLeft' + (22 + NPixel * 9) /\ PhaseLeft' \in Int
    <3>1. PICK k \in Nat : k = 22 + NPixel * 9
      BY ClocksimAssumption
    <3>2. (NRow - (readout_rows + 1)) * k + k = (NRow - readout_rows) * k
      BY <1>3, ClocksimAssumption, OneLess DEF IInv, TypeOK
    <3>3. (NRow - (readout_rows + 1)) * k \in Int /\ (NRow - readout_rows) * k \in Int
      BY ClocksimAssumption DEF IInv, TypeOK
    <3>4. StepsRow + CallsRow = k
      BY <3>1, ClocksimAssumption
    <3>5. PhaseLeft = (NRow - readout_rows) * k + 1 /\ PhaseLeft' = (NRow - (readout_rows + 1)) * k + 1
      <4> HIDE DEF StepsRow, CallsRow
      <4> QED BY <1>2, <2>1, <3>4 DEF PhaseLeft
    <3> QED BY <3>1, <3>2, <3>3, <3>5
  <2>4. PhaseLeft \in Nat
    BY Periods
  <2>5. Left' = Left - 1
    BY <1>left, <2>2, <2>3, <2>4, ClocksimAssumption
  <2> QED BY <1>1, <1>2, <2>1, <2>5 DEF CountsDown
<1>4. CASE readout_rows >= NRow
  <2>1. idx' = 0 /\ stack'[0] = "FRAME" /\ readout_rows = NRow
    BY <1>2, <1>4, ClocksimAssumption DEF Readout, Restart, IInv, TypeOK, STACK_SIZE
  <2>2. Left = 1
    <3>1. PICK k \in Nat : k = 22 + NPixel * 9
      BY ClocksimAssumption
    <3>2. (NRow - readout_rows) * k = 0
      BY <2>1, ClocksimAssumption
    <3>3. StepsRow + CallsRow = k
      BY <3>1, ClocksimAssumption
    <3> HIDE DEF StepsRow, CallsRow
    <3> QED BY <1>left, <1>2, <3>2, <3>3 DEF PhaseLeft
  <2>3. Left' = PhaseLeft'
    BY <1>1, <2>1 DEF LeftByChain
  <2> QED BY <1>2, <2>1, <2>2, <2>3 DEF CountsDown
<1> QED BY <1>3, <1>4, ClocksimAssumption DEF IInv, TypeOK

LEMMA RowCounts == ASSUME IInv, IInv', Row PROVE CountsDown
<1>1. LeftByChain /\ LeftByChain' /\ Left >= 1
  BY LeftIs, LeftThen, AtLeastOne
<1>2. /\ idx = 1 /\ stack[0] = "READOUT" /\ down_pixel = 0 /\ pixel_step = 0
      /\ stack \in [0..3 -> Mode] /\ NPixel \in Nat /\ row_pixels \in 0..NPixel
  BY ClocksimAssumption
  DEF IInv, TypeOK, CallChain, CountersBelongToCalls, OnStack, In, Row, STACK_SIZE
<1>left. Left = PhaseLeft + OfRow
  BY <1>1, <1>2 DEF LeftByChain
<1>3. PhaseLeft \in Int /\ OfRow \in Int
  BY Periods
<1>4. stack'[0] = "READOUT" /\ PhaseLeft' = PhaseLeft
  BY <1>2 DEF Row, Call, Return, PhaseLeft, IInv, TypeOK, STACK_SIZE
<1>5. CASE row_down = 0
  <2>1. idx' = 2 /\ stack'[2] = "DOWN" /\ row_down' = 1 /\ row_pixels = 0 /\ down_pixel' = 0 /\ row_pixels' = 0
    BY <1>2, <1>5 DEF Row, Call, IInv, TypeOK, CountersBelongToCalls, STACK_SIZE
  <2>2. OfRow = 21 + NPixel * 9 /\ OfRow' = NPixel * 9 + 1
    BY <1>5, <2>1, ClocksimAssumption DEF OfRow
  <2>3. Left' = PhaseLeft + OfRow' + 19
    BY <1>1, <1>3, <1>4, <2>1, <2>2, ClocksimAssumption DEF LeftByChain
  <2>4. Left' = Left - 1
    BY <1>left, <1>3, <2>2, <2>3, ClocksimAssumption
  <2> QED BY <1>1, <1>2, <1>4, <2>4 DEF CountsDown
<1>6. CASE row_down = 1 /\ row_pixels < NPixel
  <2>1. /\ idx' = 2 /\ stack'[2] = "PIXEL" /\ row_down' = 1 /\ pixel_step' = 0
        /\ row_pixels' = row_pixels + 1
    BY <1>2, <1>6 DEF Row, Call
  <2>2. OfRow = OfRow' + 9 /\ OfRow' \in Int
    BY <1>6, <2>1, ClocksimAssumption DEF OfRow, IInv, TypeOK
  <2>3. Left' = PhaseLeft + OfRow' + 8
    BY <1>1, <1>3, <1>4, <2>1, <2>2 DEF LeftByChain
  <2>4. Left' = Left - 1
    BY <1>left, <1>3, <2>2, <2>3
  <2> QED BY <1>1, <1>2, <1>4, <2>4 DEF CountsDown
<1>7. CASE row_down = 1 /\ row_pixels >= NPixel
  <2>1. idx' = 0 /\ row_pixels = NPixel
    BY <1>2, <1>7, ClocksimAssumption DEF Row, Return, IInv, TypeOK
  <2>2. OfRow = 1
    BY <1>7, <2>1, ClocksimAssumption DEF OfRow
  <2>3. Left' = PhaseLeft
    BY <1>1, <1>4, <2>1 DEF LeftByChain
  <2>4. Left' = Left - 1
    BY <1>left, <1>3, <2>2, <2>3
  <2> QED BY <1>1, <1>2, <1>4, <2>4 DEF CountsDown
<1> QED BY <1>5, <1>6, <1>7, ClocksimAssumption DEF IInv, TypeOK

LEMMA DownCounts == ASSUME IInv, IInv', Down PROVE CountsDown
<1>1. LeftByChain /\ LeftByChain' /\ Left >= 1
  BY LeftIs, LeftThen, AtLeastOne
<1>2. /\ \/ idx = 1 /\ stack[0] = "FRAME"
         \/ idx = 2 /\ stack[0] = "READOUT" /\ stack[2] = "DOWN"
      /\ pm_step = 0 /\ pixel_step = 0 /\ down_pixel \in 0..2 /\ stack \in [0..3 -> Mode]
  BY DEF IInv, TypeOK, CallChain, CountersBelongToCalls, OnStack, In, Down, STACK_SIZE
<1>3. PhaseLeft \in Int /\ OfRow \in Int
  BY Periods
<1>4. /\ UNCHANGED <<pm_step, pixel_step>> /\ PhaseLeft' = PhaseLeft /\ OfRow' = OfRow /\ stack'[0] = stack[0]
  BY <1>2 DEF Down, Call, Return, PhaseLeft, OfRow
<1>5. CASE down_pixel = 2
  <2>1. idx' = idx - 1 /\ stack' = stack /\ down_pixel' = 0
    BY <1>5 DEF Down, Return
  <2>2. Left = (IF idx = 1 THEN PhaseLeft ELSE PhaseLeft + OfRow) + 1
    BY <1>1, <1>2, <1>3, <1>5 DEF LeftByChain
  <2>3. Left' = IF idx = 1 THEN PhaseLeft ELSE PhaseLeft + OfRow
    BY <1>1, <1>2, <1>3, <1>4, <2>1 DEF LeftByChain
  <2> QED BY <1>1, <1>2, <1>3, <1>4, <2>2, <2>3 DEF CountsDown
<1>6. CASE down_pixel \in {0, 1}
  <2>1. idx' = idx + 1 /\ down_pixel' = down_pixel + 1 /\ \A j \in 0..idx : stack'[j] = stack[j]
    BY <1>2, <1>6 DEF Down, Call
  <2>2. Left = IF idx = 1 THEN PhaseLeft + 3 - down_pixel + (2 - down_pixel) * 10
               ELSE PhaseLeft + OfRow + 3 - down_pixel + (2 - down_pixel) * 8
    BY <1>1, <1>2, <1>3 DEF LeftByChain
  <2>3. CASE idx = 1 /\ stack[0] = "FRAME"
    <3>1. idx' = 2 /\ stack'[0] = "FRAME"
      BY <1>4, <2>1, <2>3
    <3>2. Left' = PhaseLeft' + 3 - down_pixel' + (2 - down_pixel') * 10 + 10 + 0
      BY <1>1, <1>2, <1>4, <3>1 DEF LeftByChain
    <3> QED BY <1>1, <1>3, <1>4, <1>6, <2>1, <2>2, <2>3, <3>2 DEF CountsDown
  <2>4. CASE idx = 2 /\ stack[0] = "READOUT" /\ stack[2] = "DOWN"
    <3>1. idx' = 3 /\ stack'[0] = "READOUT" /\ stack'[2] = "DOWN"
      BY <1>4, <2>1, <2>4
    <3>2. Left' = PhaseLeft' + OfRow' + 3 - down_pixel' + (2 - down_pixel') * 8 + 8
      BY <1>1, <1>2, <1>4, <3>1 DEF LeftByChain
    <3> QED BY <1>1, <1>3, <1>4, <1>6, <2>1, <2>2, <2>4, <3>2 DEF CountsDown
  <2> QED BY <1>2, <2>3, <2>4
<1> QED BY <1>2, <1>5, <1>6

LEMMA PixelMaybeCounts == ASSUME IInv, IInv', PixelMaybe PROVE CountsDown
<1>1. LeftByChain /\ LeftByChain' /\ Left >= 1
  BY LeftIs, LeftThen, AtLeastOne
<1>2. /\ \/ idx = 2 /\ stack[0] = "FRAME" /\ ft = 1
         \/ idx = 3 /\ stack[0] = "READOUT" /\ stack[2] = "DOWN" /\ ft = 0
      /\ pixel_step = 0 /\ pm_step \in 0..7 /\ stack \in [0..3 -> Mode]
  BY DEF IInv, TypeOK, CallChain, CountersBelongToCalls, OnStack, In, PixelMaybe, STACK_SIZE
<1>3. PhaseLeft \in Int /\ OfRow \in Int /\ (2 - down_pixel) * 10 \in Int /\ (2 - down_pixel) * 8 \in Int
      /\ down_pixel \in Int
  BY Periods
<1>4. UNCHANGED <<down_pixel, pixel_step>> /\ PhaseLeft' = PhaseLeft /\ OfRow' = OfRow /\ stack'[0] = stack[0]
  BY <1>2 DEF PixelMaybe, Call, Return, PhaseLeft, OfRow
<1>5. CASE idx = 2 /\ stack[0] = "FRAME" /\ ft = 1
  <2>1. PICK x \in Int : x = PhaseLeft + 3 - down_pixel + (2 - down_pixel) * 10
    BY <1>3
  <2>2. Left = x + (IF pm_step = 7 THEN 1 ELSE 10)
    BY <1>1, <1>5, <2>1 DEF LeftByChain
  <2>3. CASE pm_step = 7
    <3>1. idx' = 1 /\ stack'[0] = "FRAME"
      BY <1>4, <1>5, <2>3 DEF PixelMaybe, Return
    <3>2. Left' = PhaseLeft' + 3 - down_pixel' + (2 - down_pixel') * 10
      BY <1>1, <3>1 DEF LeftByChain
    <3>3. Left' = x
      BY <1>4, <2>1, <3>2
    <3> QED BY <1>1, <1>4, <2>2, <2>3, <3>3 DEF CountsDown
  <2>4. CASE pm_step # 7
    <3>1. idx' = 3 /\ stack'[0] = "FRAME" /\ pm_step' = 7 /\ pixel_step' = 0
      BY <1>2, <1>4, <1>5, <2>4 DEF PixelMaybe, Call
    <3>2. Left' = PhaseLeft' + 3 - down_pixel' + (2 - down_pixel') * 10 + 1 + 8
      BY <1>1, <3>1 DEF LeftByChain
    <3>3. Left' = x + 1 + 8
      BY <1>4, <2>1, <3>2
    <3> QED BY <1>1, <1>4, <2>2, <2>4, <3>3 DEF CountsDown
  <2> QED BY <2>3, <2>4
<1>6. CASE idx = 3 /\ stack[0] = "READOUT" /\ stack[2] = "DOWN" /\ ft = 0
  <2>1. PICK x \in Int : x = PhaseLeft + OfRow + 3 - down_pixel + (2 - down_pixel) * 8
    BY <1>3
  <2>2. Left = x + (IF pm_step = 7 THEN 1 ELSE 8 - pm_step)
    BY <1>1, <1>6, <2>1 DEF LeftByChain
  <2>3. stack' = stack
    BY <1>6 DEF PixelMaybe, Return
  <2>4. CASE pm_step = 7
    <3>1. idx' = 2
      BY <1>6, <2>4 DEF PixelMaybe, Return
    <3>2. Left' = PhaseLeft' + OfRow' + 3 - down_pixel' + (2 - down_pixel') * 8 + 0
      BY <1>1, <1>6, <2>3, <3>1 DEF LeftByChain
    <3>3. Left' = x
      BY <1>4, <2>1, <3>2
    <3> QED BY <1>1, <1>4, <2>2, <2>4, <3>3 DEF CountsDown
  <2>5. CASE pm_step # 7
    <3>1. idx' = 3 /\ pm_step' = pm_step + 1
      BY <1>6, <2>5 DEF PixelMaybe
    <3>2. Left' = PhaseLeft' + OfRow' + 3 - down_pixel' + (2 - down_pixel') * 8
                    + (IF pm_step' = 7 THEN 1 ELSE 8 - pm_step')
      BY <1>1, <1>6, <2>3, <3>1 DEF LeftByChain
    <3>3. Left' = x + (IF pm_step' = 7 THEN 1 ELSE 8 - pm_step')
      BY <1>4, <2>1, <3>2
    <3> QED BY <1>1, <1>2, <1>4, <2>2, <2>5, <3>1, <3>3 DEF CountsDown
  <2> QED BY <2>4, <2>5
<1> QED BY <1>2, <1>5, <1>6

LEMMA PixelCounts == ASSUME IInv, IInv', Pixel PROVE CountsDown
<1>1. LeftByChain /\ LeftByChain' /\ Left >= 1
  BY LeftIs, LeftThen, AtLeastOne
<1>2. /\ \/ idx = 3 /\ stack[0] = "FRAME"
         \/ idx = 2 /\ stack[0] = "READOUT" /\ stack[2] = "PIXEL"
      /\ pixel_step \in 0..7 /\ stack \in [0..3 -> Mode]
  BY DEF IInv, TypeOK, CallChain, In, Pixel, STACK_SIZE
<1>3. PhaseLeft \in Int /\ OfRow \in Int /\ (2 - down_pixel) * 10 \in Int /\ down_pixel \in Int
  BY Periods
<1>4. UNCHANGED <<down_pixel, pm_step, stack>> /\ PhaseLeft' = PhaseLeft /\ OfRow' = OfRow
  BY <1>2 DEF Pixel, Return, PhaseLeft, OfRow
<1>5. /\ pixel_step # 7 => pixel_step' = pixel_step + 1 /\ idx' = idx
      /\ pixel_step = 7 => idx' = idx - 1
  BY <1>2 DEF Pixel, Return
<1>6. CASE idx = 3 /\ stack[0] = "FRAME"
  <2>1. PICK x \in Int : x = PhaseLeft + 3 - down_pixel + (2 - down_pixel) * 10 + (IF pm_step = 7 THEN 1 ELSE 10)
    BY <1>3
  <2>2. Left = x + (8 - pixel_step)
    BY <1>1, <1>6, <2>1 DEF LeftByChain
  <2>3. Left' = PhaseLeft' + 3 - down_pixel' + (2 - down_pixel') * 10 + (IF pm_step' = 7 THEN 1 ELSE 10)
                  + (IF idx' = 3 THEN 8 - pixel_step' ELSE 0)
    BY <1>1, <1>4, <1>5, <1>6 DEF LeftByChain
  <2>4. Left' = x + (IF idx' = 3 THEN 8 - pixel_step' ELSE 0)
    BY <1>4, <2>1, <2>3
  <2> QED BY <1>1, <1>2, <1>4, <1>5, <1>6, <2>2, <2>4 DEF CountsDown
<1>7. CASE idx = 2 /\ stack[0] = "READOUT" /\ stack[2] = "PIXEL"
  <2>1. Left = PhaseLeft + OfRow + 8 - pixel_step
    BY <1>1, <1>7 DEF LeftByChain
  <2>2. Left' = PhaseLeft + OfRow + (IF pixel_step = 7 THEN 0 ELSE 8 - pixel_step')
    BY <1>1, <1>2, <1>3, <1>4, <1>5, <1>7 DEF LeftByChain
  <2> QED BY <1>1, <1>2, <1>3, <1>4, <1>5, <2>1, <2>2 DEF CountsDown
<1> QED BY <1>2, <1>6, <1>7

(***************************************************************************)
(* For every length of frame, readout and row, every period brings the end *)
(* of the phase one period nearer, and the phase changes with the last: no *)
(* mode waits for ever and no counter is lost (clocksim.vhdl:96-213).  It  *)
(* is what KeepsScanning needs besides the clock.                          *)
(***************************************************************************)
THEOREM ClocksimPhaseCountsDown == Spec => PhaseCountsDown
<1>1. IInv /\ IInv' /\ [Next]_vars => [CountsDown]_vars
  BY FrameCounts, ReadoutCounts, RowCounts, DownCounts, PixelMaybeCounts, PixelCounts DEF Next
<1>2. Spec => [][CountsDown]_vars
  BY <1>1, ClocksimInvariant, PTL DEF Spec
<1> QED BY <1>2 DEF PhaseCountsDown, CountsDown
=============================================================================
