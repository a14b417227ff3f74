-------------------------- MODULE SerialPollProofs --------------------------
(***************************************************************************)
(* Theorems about SerialPoll for any number of devices and points, any     *)
(* wiring, any noise and any set of faults.                                *)
(***************************************************************************)
EXTENDS SerialPoll, SequenceTheorems, TLAPS

Asking == serial \in {"ask", "parse", "doze"}
Listening == serial \in {"parse", "doze"}

(***************************************************************************)
(* The reader has put itself to sleep and not been asked to wake, or will  *)
(* before it looks at the flag again.                                      *)
(***************************************************************************)
Resting == \/ reader = "flag"
           \/ reader \in {"test", "toWait", "waiting"} /\ is_RecvRun

Incomplete == Verdict = "incomplete"

(***************************************************************************)
(* What makes is_RecvRun a hand-over, whatever the bytes of the replies:   *)
(* the reader rests unless serial_thread is waiting for (the rest of) a    *)
(* reply, and takes its copy of pit within that time.  Once ParsePacket    *)
(* takes the buffer for a whole reply, serial_thread no longer wakes it.   *)
(***************************************************************************)
HandOver ==
    /\ serial # "next" => pit = cur
    /\ recvMutex <=> serial = "doze"
    /\ serial = "doze" => Incomplete
    /\ ~Listening => total_recv_buf = <<>>
    /\ (Listening /\ Incomplete) \/ Resting
    /\ reader \in {"read", "append"} => source = cur
    /\ reader # "append" => chunk = <<>>

(***************************************************************************)
(* Modbus::nextPkg and TaskSerial::pointCount agree while a device is      *)
(* being polled, and there is a result for each request but the open one.  *)
(***************************************************************************)
Counting ==
    /\ \A d \in Devices : d # cur => nextPkg[d] = 0
    /\ serial \in {"next", "publish"} => nextPkg[cur] = 0
    /\ serial \in {"assemble", "ask", "parse", "doze"} => nextPkg[cur] = pointCount
    /\ Asking => pointCount \in Points /\ Len(results) + 1 = pointCount
    /\ serial = "assemble" => Len(results) = pointCount
    /\ serial = "next" => results = <<>>

Honest == harm # "garbled"

\* The tty of the device being polled; what is under way from there.
Port == IF pit = NoDevice THEN NoDevice ELSE tty[pit]
InFlight == Len(total_recv_buf) + Len(chunk) + Len(line[Port])

\* The header of what is under way.
Coming == IF total_recv_buf # <<>> THEN header
          ELSE IF chunk # <<>> THEN chunk[1].head
          ELSE line[Port][1].head

(***************************************************************************)
(* While headers are true, at most one reply is under way, on the tty of   *)
(* the device in pit, and it is not longer than its header says.           *)
(***************************************************************************)
OneReply ==
    /\ \A t \in Ttys : t # Port => line[t] = <<>> /\ request[t] = 0
    /\ pit \in Devices =>
         /\ InFlight # 0 => Coming \in TrueHeaders /\ InFlight <= FrameSize(Coming)
         /\ request[Port] # 0 => InFlight = 0

\* The cell is of the reply serial_thread is waiting for.
OwnCell(cell) == cell.point = pointCount /\ (cur \in units => cell.dev = cur)

Own(s) == \A i \in 1 .. Len(s) : OwnCell(s[i])

Owned == /\ Own(total_recv_buf)
         /\ Own(chunk)
         /\ \A t \in Ttys : Own(line[t]) /\ request[t] \in {0, pointCount}

Clean == Honest => OneReply /\ Owned

IInv == TypeOK /\ HandOver /\ Counting /\ Attribution /\ PublishedComplete
        /\ Clean /\ NoResidue

-----------------------------------------------------------------------------
(* What the operators on replies return *)

LEMMA CurIsDevice ==
  TypeOK => /\ cur \in Devices /\ DevCount \in Nat /\ PointCount \in Nat
            /\ \A d \in Devices : tty[d] \in Ttys
            /\ pit \in Devices => Port = tty[pit] /\ Port \in Ttys
  BY SerialAssumption DEF TypeOK, Port, Devices, NoDevice

LEMMA CapacityFact == Capacity \in Nat /\ Capacity >= 3
  BY SerialAssumption DEF FrameLen

LEMMA HeaderFacts ==
  /\ TrueHeaders \subseteq Header
  /\ NoHeader \notin Header
  /\ \A h \in TrueHeaders : FrameSize(h) \in {2, 3}
<1>1. ReadHeader \in Header
  <2>1. 3 \in ErrorLen .. Capacity
    BY CapacityFact DEF ErrorLen
  <2>2. QED
    BY <2>1 DEF Header, ReadHeader, FrameLen
<1>2. \A fn \in {"error83", "error84"} : ErrorHeader(fn) \in Header
  BY DEF Header, ErrorHeader
<1>3. NoHeader \notin Header
  BY DEF Header, NoHeader
<1>4. QED
  BY <1>1, <1>2, <1>3 DEF TrueHeaders, FrameSize, FrameLen, ErrorLen

\* s is n cells of the reply of d to request k, the first with header h.
Framed(s, d, k, h, n) ==
    /\ s \in Seq(Cell)
    /\ Len(s) = n
    /\ \A i \in 1 .. n : s[i].dev = d /\ s[i].point = k
    /\ n > 0 => s[1].head = h

LEMMA FrameType ==
  ASSUME NEW d \in Devices \cup {Unknown}, NEW k \in Points \cup {Unknown},
         NEW h \in Header \cup {NoHeader}, NEW n \in Nat
  PROVE  Framed(Frame(d, k, h, n), d, k, h, n)
<1> DEFINE cell(i) == [dev |-> d, point |-> k, head |-> IF i = 1 THEN h ELSE NoHeader]
<1>1. \A i \in 1 .. n : cell(i) \in Cell
  BY DEF Cell
<1>2. Frame(d, k, h, n) = [i \in 1 .. n |-> cell(i)]
  BY DEF Frame
<1>3. Frame(d, k, h, n) \in [1 .. n -> Cell]
  BY <1>1, <1>2
<1>4. QED
  BY <1>2, <1>3 DEF Framed

\* Whatever arrives under a true header is typed, answers the request, and is
\* not longer than its header says.
LEMMA TrueDelivery ==
  ASSUME NEW d \in Devices, NEW k \in Points, NEW cells \in Whole(d, k) \cup Short(d, k)
  PROVE  /\ cells \in Seq(Cell)
         /\ \A i \in 1 .. Len(cells) : cells[i].dev = d /\ cells[i].point = k
         /\ Len(cells) # 0 => /\ cells[1].head \in TrueHeaders
                              /\ Len(cells) <= FrameSize(cells[1].head)
         /\ Len(cells) <= 3
<1>1. \E h \in TrueHeaders, n \in Nat : n <= FrameSize(h) /\ cells = Frame(d, k, h, n)
  <2>1. CASE \E h \in TrueHeaders : cells = Frame(d, k, h, FrameSize(h))
    <3>1. \A h \in TrueHeaders : FrameSize(h) \in Nat /\ FrameSize(h) <= FrameSize(h)
      BY HeaderFacts
    <3>2. QED
      BY <2>1, <3>1
  <2>2. CASE \E h \in TrueHeaders : \E n \in LostFrom(h) : cells = Frame(d, k, h, n)
    <3>1. \A h \in TrueHeaders : \A n \in LostFrom(h) : n \in Nat /\ n <= FrameSize(h)
      BY HeaderFacts DEF LostFrom
    <3>2. QED
      BY <2>2, <3>1
  <2>3. QED
    BY <2>1, <2>2 DEF Whole, Short
<1>2. PICK h \in TrueHeaders, n \in Nat : n <= FrameSize(h) /\ cells = Frame(d, k, h, n)
  BY <1>1
<1>3. h \in Header \cup {NoHeader} /\ FrameSize(h) \in {2, 3}
  BY HeaderFacts
<1>4. /\ cells \in Seq(Cell) /\ Len(cells) = n
      /\ \A i \in 1 .. n : cells[i].dev = d /\ cells[i].point = k
      /\ n > 0 => cells[1].head = h
  <2>1. d \in Devices \cup {Unknown} /\ k \in Points \cup {Unknown}
    OBVIOUS
  <2>2. Framed(Frame(d, k, h, n), d, k, h, n)
    BY <1>3, <2>1, FrameType
  <2>3. QED
    BY <1>2, <2>2 DEF Framed
<1>5. QED
  BY <1>2, <1>3, <1>4

LEMMA GarbledDelivery == \A cells \in Garbled : cells \in Seq(Cell)
<1>1. \A n \in 1 .. FrameLen : Frame(Unknown, Unknown, NoHeader, n) \in Seq(Cell)
  <2>1. Unknown \in Devices \cup {Unknown} /\ Unknown \in Points \cup {Unknown}
    OBVIOUS
  <2>2. NoHeader \in Header \cup {NoHeader}
    OBVIOUS
  <2>3. ASSUME NEW n \in 1 .. FrameLen
        PROVE  Frame(Unknown, Unknown, NoHeader, n) \in Seq(Cell)
    <3>1. n \in Nat
      BY DEF FrameLen
    <3>2. QED
      BY <2>1, <2>2, <3>1, FrameType DEF Framed
  <2>4. QED
    BY <2>3
<1>2. QED
  BY <1>1 DEF Garbled

LEMMA ToldType ==
  ASSUME NEW cells \in Seq(Cell)
  PROVE  Told(cells) \in Seq(Cell) /\ Len(Told(cells)) = Len(cells)
<1> DEFINE T == [i \in 1 .. Len(cells) |-> [cells[i] EXCEPT !.dev = Unknown, !.point = Unknown]]
<1>1. \A c \in Cell : [c EXCEPT !.dev = Unknown, !.point = Unknown] \in Cell
  BY DEF Cell
<1>2. \A i \in 1 .. Len(cells) : cells[i] \in Cell
  OBVIOUS
<1>3. T \in [1 .. Len(cells) -> Cell]
  BY <1>1, <1>2
<1>4. Told(cells) = cells \/ Told(cells) = T
  <2>1. DOMAIN cells = 1 .. Len(cells)
    OBVIOUS
  <2>2. QED
    BY <2>1, Zenon DEF Told
<1> HIDE DEF T
<1>5. T \in Seq(Cell) /\ Len(T) = Len(cells)
  BY <1>3
<1>6. QED
  BY <1>4, <1>5

LEMMA KeptType ==
  ASSUME NEW cells \in Seq(Cell)
  PROVE  Kept(cells) \in Seq(Cell)
<1>1. CASE Len(cells) <= Capacity
  BY <1>1 DEF Kept
<1>2. CASE ~(Len(cells) <= Capacity)
  BY <1>2, CapacityFact DEF Kept
<1>3. QED
  BY <1>1, <1>2

LEMMA BytesType ==
  ASSUME NEW cells \in Seq(Cell)
  PROVE  /\ Bytes(cells) \in Seq(Cell) /\ Len(Bytes(cells)) = Len(cells)
         /\ \A i \in 1 .. Len(cells) : /\ Bytes(cells)[i].dev = cells[i].dev
                                       /\ Bytes(cells)[i].point = cells[i].point
                                       /\ Bytes(cells)[i] = [cells[i] EXCEPT !.head = NoHeader]
<1>1. \A c \in Cell : /\ [c EXCEPT !.head = NoHeader] \in Cell
                      /\ [c EXCEPT !.head = NoHeader].dev = c.dev
                      /\ [c EXCEPT !.head = NoHeader].point = c.point
  BY DEF Cell
<1>2. \A i \in 1 .. Len(cells) : cells[i] \in Cell
  OBVIOUS
<1> DEFINE B == [i \in 1 .. Len(cells) |-> [cells[i] EXCEPT !.head = NoHeader]]
<1>3. Bytes(cells) = B
  <2>1. DOMAIN cells = 1 .. Len(cells)
    OBVIOUS
  <2>2. QED
    BY <2>1, Zenon DEF Bytes
<1>4. B \in [1 .. Len(cells) -> Cell]
  BY <1>1, <1>2
<1>5. \A i \in 1 .. Len(cells) : /\ B[i].dev = cells[i].dev /\ B[i].point = cells[i].point
                                 /\ B[i] = [cells[i] EXCEPT !.head = NoHeader]
  BY <1>1, <1>2
<1> HIDE DEF B
<1>6. B \in Seq(Cell) /\ Len(B) = Len(cells)
  BY <1>4
<1>7. QED
  BY <1>3, <1>5, <1>6

\* A true header is not taken for a whole reply before the reply is whole.
LEMMA TrueVerdict ==
  ASSUME NEW h \in TrueHeaders, NEW n \in Nat, ParsePacket(h, n) # "incomplete"
  PROVE  n >= FrameSize(h)
  BY DEF TrueHeaders, ReadHeader, ErrorHeader, FrameSize, FrameLen, ErrorLen, ParsePacket

LEMMA EmptyIsIncomplete == \A h : ParsePacket(h, 0) = "incomplete"
  BY DEF ParsePacket

LEMMA NotIncomplete ==
  ASSUME TypeOK, Verdict # "incomplete"
  PROVE  Len(total_recv_buf) >= 2 /\ total_recv_buf # <<>> /\ total_recv_buf[1] \in Cell
<1>1. Len(total_recv_buf) >= 2
  BY DEF Verdict, ParsePacket, TypeOK
<1>2. QED
  BY <1>1 DEF TypeOK

LEMMA FirstHeaderType ==
  ASSUME NEW cells \in Seq(Cell)
  PROVE  FirstHeader(cells) \subseteq Header \cup {NoHeader}
<1>1. cells # <<>> => cells[1] \in Cell
  OBVIOUS
<1>2. QED
  BY <1>1 DEF FirstHeader, Cell

-----------------------------------------------------------------------------
(* The invariant holds initially, and every step keeps each part of it *)

LEMMA IInvInit == Init => IInv
<1> SUFFICES ASSUME Init PROVE IInv
  OBVIOUS
<1>1. TypeOK
  <2>1. cur \in Devices /\ pointCount \in 0 .. PointCount
    BY SerialAssumption DEF Init, Devices
  <2>2. /\ nextPkg \in [Devices -> 0 .. PointCount]
        /\ request \in [Ttys -> 0 .. PointCount]
    BY <2>1 DEF Init
  <2>3. results \in Seq(Result) /\ total_recv_buf \in Seq(Cell) /\ chunk \in Seq(Cell)
    BY DEF Init
  <2>4. line \in [Ttys -> Seq(Cell)]
    BY DEF Init
  <2>5. tty \in [Devices -> Ttys] /\ units \in SUBSET Devices
    <3>1. PICK w \in Wirings : tty = w.tty /\ units = w.units
      BY DEF Init
    <3>2. w \in [tty : [Devices -> Ttys], units : SUBSET Devices]
      BY SerialAssumption
    <3>3. QED
      BY <3>1, <3>2
  <2>6. QED
    BY <2>1, <2>2, <2>3, <2>4, <2>5 DEF Init, TypeOK
<1>2. HandOver
  BY DEF Init, HandOver, Listening, Resting
<1>3. Clean /\ NoResidue
  BY DEF Init, Clean, OneReply, Owned, Own, NoResidue, Devices, NoDevice, Port
<1>4. Counting /\ Attribution /\ PublishedComplete
  BY <1>1 DEF Init, Counting, Asking, Attribution, PublishedComplete, TypeOK
<1>5. QED
  BY <1>1, <1>2, <1>3, <1>4 DEF IInv

(***************************************************************************)
(* A read takes cells from the front of the line of the device in source,  *)
(* or nothing.                                                             *)
(***************************************************************************)
LEMMA ReadSplits ==
  ASSUME TypeOK, ReaderRead
  PROVE  \/ chunk' = <<>> /\ line' = line
         \/ /\ source \in Devices
            /\ \E n \in 1 .. Len(line[tty[source]]) :
                 LET whole == line[tty[source]]
                     rest == SubSeq(whole, n + 1, Len(whole))
                 IN /\ chunk' = SubSeq(whole, 1, n)
                    /\ line' = [line EXCEPT ![tty[source]] = rest]
                    /\ chunk' \in Seq(Cell) /\ Len(chunk') = n
                    /\ rest \in Seq(Cell) /\ Len(rest) = Len(whole) - n
                    /\ \A i \in 1 .. n : chunk'[i] = whole[i]
                    /\ \A i \in 1 .. Len(rest) : rest[i] = whole[n + i]
<1>1. CASE source = NoDevice \/ line[tty[source]] = <<>>
  BY <1>1 DEF ReaderRead
<1>2. CASE source # NoDevice /\ line[tty[source]] # <<>>
  <2> DEFINE whole == line[tty[source]]
  <2>1. source \in Devices /\ whole \in Seq(Cell)
    BY <1>2 DEF TypeOK
  <2>2. PICK n \in 1 .. Len(whole) :
            /\ chunk' = SubSeq(whole, 1, n)
            /\ line' = [line EXCEPT ![tty[source]] = SubSeq(@, n + 1, Len(@))]
    BY <1>2 DEF ReaderRead
  <2> DEFINE rest == SubSeq(whole, n + 1, Len(whole))
  <2>3. line' = [line EXCEPT ![tty[source]] = rest]
    BY <2>2
  <2> HIDE DEF whole
  <2>4. /\ chunk' \in Seq(Cell) /\ Len(chunk') = n
        /\ \A i \in 1 .. n : chunk'[i] = whole[i]
    BY <2>1, <2>2
  <2>5. rest \in Seq(Cell) /\ Len(rest) = Len(whole) - n
    BY <2>1
  <2>6. \A i \in 1 .. Len(rest) : rest[i] = whole[n + i]
    BY <2>1, <2>5
  <2>7. QED
    BY <2>1, <2>2, <2>3, <2>4, <2>5, <2>6 DEF whole
<1>3. QED
  BY <1>1, <1>2

\* What a unit does to the state, whichever answer it gives.
LEMMA AnswerEffect ==
  ASSUME TypeOK, NEW t \in Ttys, Answer(t)
  PROVE  /\ request[t] \in Points
         /\ request' = [request EXCEPT ![t] = 0]
         /\ \E cells \in Seq(Cell) : line' = [line EXCEPT ![t] = Kept(@ \o Told(cells))]
         /\ UNCHANGED <<wiring, serialVars, pit, recvMutex, is_RecvRun, bufVars, readerVars>>
         /\ harm' \in {"none", "short", "garbled"}
         /\ \E d \in Units(t) : TRUE
<1>1. request[t] \in Points
  BY DEF Answer, AnswerWhole, AnswerShort, AnswerGarbled, Points, TypeOK
<1>2. \A d \in Units(t) : d \in Devices
  BY DEF Units, TypeOK
<1>3. PICK d \in Units(t) : \E cells \in Whole(d, request[t]) \cup Short(d, request[t]) \cup Garbled :
                                Deliver(t, cells)
  BY DEF Answer, AnswerWhole, AnswerShort, AnswerGarbled
<1>4. PICK cells \in Whole(d, request[t]) \cup Short(d, request[t]) \cup Garbled : Deliver(t, cells)
  BY <1>3
<1>5. cells \in Seq(Cell)
  <2>1. CASE cells \in Garbled
    BY <2>1, GarbledDelivery
  <2>2. CASE cells \in Whole(d, request[t]) \cup Short(d, request[t])
    BY <1>1, <1>2, <2>2, TrueDelivery
  <2>3. QED
    BY <2>1, <2>2
<1>6. harm' \in {"none", "short", "garbled"}
  BY DEF Answer, AnswerWhole, AnswerShort, AnswerGarbled, TypeOK
<1>7. QED
  BY <1>1, <1>4, <1>5, <1>6 DEF Deliver

LEMMA TypeStep == IInv /\ [Next]_vars => TypeOK'
<1> SUFFICES ASSUME IInv, [Next]_vars PROVE TypeOK'
  OBVIOUS
<1> USE CurIsDevice DEF IInv, TypeOK, wiring, serialVars, bufVars, readerVars, portVars
<1>1. CASE NextDevice
  BY SMTT(30), <1>1 DEF NextDevice
<1>2. CASE SendRequest
  <2>1. pit = cur /\ nextPkg[pit] = pointCount
    BY <1>2 DEF SendRequest, HandOver, Counting
  <2>2. /\ nextPkg' \in [Devices -> 0 .. PointCount] /\ pointCount' \in 0 .. PointCount
        /\ request' \in [Ttys -> 0 .. PointCount]
    BY <1>2, <2>1 DEF SendRequest
  <2>3. QED
    BY <1>2, <2>2 DEF SendRequest
<1>3. CASE EndOfPoints
  <2>1. 0 \in 0 .. PointCount
    BY SerialAssumption
  <2>2. nextPkg' \in [Devices -> 0 .. PointCount]
    BY <1>3, <2>1 DEF EndOfPoints
  <2>3. QED
    BY <1>3, <2>2 DEF EndOfPoints
<1>4. CASE Ask \/ ParseNothing \/ ParseIncomplete
  BY <1>4 DEF Ask, ParseNothing, ParseIncomplete, WakeReader, NotifyReader
<1>5. CASE ParseAgain
  BY <1>5 DEF ParseAgain
<1>6. CASE ParseComplete
  <2>1. pointCount \in Points
    BY <1>6 DEF ParseComplete, Counting, Asking
  <2>2. total_recv_buf[1] \in Cell
    BY <1>6, NotIncomplete DEF ParseComplete
  <2>3. results' \in Seq(Result)
    <3> DEFINE res == [title |-> pointCount,
                       dev |-> total_recv_buf[1].dev, point |-> total_recv_buf[1].point]
    <3>1. /\ total_recv_buf[1].dev \in Devices \cup {Unknown}
          /\ total_recv_buf[1].point \in Points \cup {Unknown}
      BY <2>2 DEF Cell
    <3>2. res \in Result
      BY <2>1, <3>1, Zenon DEF Result
    <3>3. results' = Append(results, res)
      BY <1>6 DEF ParseComplete
    <3> HIDE DEF res
    <3>4. QED
      BY <3>2, <3>3
  <2>4. total_recv_buf' \in Seq(Cell) /\ header' \in Header \cup {NoHeader}
    BY <1>6 DEF ParseComplete, Cleared
  <2>5. QED
    BY <1>6, <2>3, <2>4 DEF ParseComplete
<1>7. CASE Publish
  <2>1. cur' \in Devices /\ results' \in Seq(Result)
    BY <1>7 DEF Publish, Devices
  <2>2. QED
    BY <1>7, <2>1 DEF Publish
<1>8. CASE ReaderTest \/ ReaderWait \/ ReaderSpuriousWake \/ ReaderPick \/ ReaderFlag
  BY <1>8, ZenonT(30) DEF ReaderTest, ReaderWait, ReaderSpuriousWake, ReaderPick, ReaderFlag
<1>9. CASE ReaderRead
  <2>1. chunk' \in Seq(Cell) /\ line' \in [Ttys -> Seq(Cell)]
    <3>1. CASE chunk' = <<>> /\ line' = line
      BY <3>1
    <3>2. CASE \E rest \in Seq(Cell) : /\ chunk' \in Seq(Cell)
                                      /\ line' = [line EXCEPT ![tty[source]] = rest]
      BY <3>2
    <3>3. QED
      BY <1>9, <3>1, <3>2, ReadSplits, Zenon
  <2>2. QED
    BY <1>9, <2>1 DEF ReaderRead
<1>10. CASE ReaderAppend
  <2>1. total_recv_buf' \in Seq(Cell)
    <3>1. Bytes(chunk) \in Seq(Cell)
      BY BytesType
    <3>2. QED
      BY <1>10, <3>1 DEF ReaderAppend
  <2>2. header' \in Header \cup {NoHeader}
    BY <1>10, FirstHeaderType DEF ReaderAppend
  <2>3. QED
    BY <1>10, <2>1, <2>2 DEF ReaderAppend
<1>11. ASSUME NEW t \in Ttys, Answer(t) PROVE TypeOK'
  <2>1. PICK cells \in Seq(Cell) : line' = [line EXCEPT ![t] = Kept(@ \o Told(cells))]
    BY <1>11, AnswerEffect
  <2>2. line[t] \o Told(cells) \in Seq(Cell)
    BY ToldType
  <2>3. line' \in [Ttys -> Seq(Cell)]
    BY <2>1, <2>2, KeptType
  <2>4. /\ request' \in [Ttys -> 0 .. PointCount] /\ harm' \in {"none", "short", "garbled"}
        /\ UNCHANGED <<wiring, serialVars, pit, recvMutex, is_RecvRun, bufVars, readerVars>>
    <3>1. request' = [request EXCEPT ![t] = 0] /\ harm' \in {"none", "short", "garbled"}
      BY <1>11, AnswerEffect
    <3>2. UNCHANGED <<wiring, serialVars, pit, recvMutex, is_RecvRun, bufVars, readerVars>>
      <4> HIDE DEF wiring, serialVars, bufVars, readerVars, IInv, TypeOK
      <4>1. QED
        BY <1>11, AnswerEffect DEF IInv
    <3>3. QED
      BY <3>1, <3>2, SerialAssumption
  <2>5. QED
    BY <2>3, <2>4, ZenonT(30)
<1>12. CASE UNCHANGED vars
  BY SMTT(30), <1>12 DEF vars
<1>13. QED
  BY <1>1, <1>2, <1>3, <1>4, <1>5, <1>6, <1>7, <1>8, <1>9, <1>10, <1>11, <1>12
     DEF Next, SerialStep, ReaderStep

LEMMA HandOverStep == IInv /\ [Next]_vars => HandOver'
<1> SUFFICES ASSUME IInv, [Next]_vars PROVE HandOver'
  OBVIOUS
<1> USE DEF IInv, TypeOK, HandOver, Resting, Listening, Incomplete,
            wiring, serialVars, bufVars, readerVars, portVars
<1>1. CASE NextDevice \/ SendRequest \/ EndOfPoints
  BY <1>1 DEF NextDevice, SendRequest, EndOfPoints, Verdict
<1>2. CASE Ask \/ ParseNothing
  <2>1. Verdict' = "incomplete"
    BY <1>2, EmptyIsIncomplete DEF Ask, ParseNothing, Verdict
  <2>2. QED
    BY <1>2, <2>1 DEF Ask, ParseNothing, WakeReader, NotifyReader
<1>3. CASE ParseIncomplete
  <2>1. Verdict' = Verdict
    BY <1>3 DEF ParseIncomplete, Verdict
  <2>2. QED
    BY <1>3, <2>1 DEF ParseIncomplete, WakeReader, NotifyReader
<1>4. CASE ParseAgain \/ Publish
  <2>1. Verdict' = Verdict
    BY <1>4 DEF ParseAgain, Publish, Verdict
  <2>2. QED
    BY <1>4, <2>1 DEF ParseAgain, Publish
<1>5. CASE ParseComplete
  BY <1>5 DEF ParseComplete, Cleared
<1>6. CASE ReaderTest \/ ReaderWait \/ ReaderSpuriousWake \/ ReaderPick \/ ReaderFlag
  <2>1. Verdict' = Verdict
    BY <1>6 DEF ReaderTest, ReaderWait, ReaderSpuriousWake, ReaderPick, ReaderFlag, Verdict
  <2>2. QED
    BY <1>6, <2>1 DEF ReaderTest, ReaderWait, ReaderSpuriousWake, ReaderPick, ReaderFlag
<1>7. CASE ReaderRead
  <2>1. Verdict' = Verdict
    BY <1>7 DEF ReaderRead, Verdict
  <2>2. QED
    BY <1>7, <2>1 DEF ReaderRead
<1>8. CASE ReaderAppend
  BY <1>8 DEF ReaderAppend
<1>9. ASSUME NEW t \in Ttys, Answer(t) PROVE HandOver'
  <2>1. UNCHANGED <<serialVars, pit, recvMutex, is_RecvRun, bufVars, readerVars>>
    BY <1>9, AnswerEffect
  <2>2. QED
    BY <2>1 DEF Verdict
<1>10. CASE UNCHANGED vars
  BY <1>10 DEF vars, Verdict
<1>11. QED
  BY <1>1, <1>2, <1>3, <1>4, <1>5, <1>6, <1>7, <1>8, <1>9, <1>10
     DEF Next, SerialStep, ReaderStep

(***************************************************************************)
(* While headers are true, nothing is under way where nothing was asked,   *)
(* and what a unit sends begins a reply of its own.                        *)
(***************************************************************************)
\* Nothing that holds a part of a reply changes.
Still == UNCHANGED <<tty, units, cur, pit, pointCount, total_recv_buf, header, chunk,
                     request, line>>

LEMMA InFlightFacts ==
  ASSUME TypeOK, pit \in Devices
  PROVE  /\ Port \in Ttys /\ Port = tty[pit]
         /\ Len(total_recv_buf) \in Nat /\ Len(chunk) \in Nat /\ Len(line[Port]) \in Nat
         /\ InFlight \in Nat
         /\ InFlight = 0 => total_recv_buf = <<>> /\ chunk = <<>> /\ line[Port] = <<>>
<1>1. Port \in Ttys /\ Port = tty[pit]
  BY CurIsDevice
<1>2. total_recv_buf \in Seq(Cell) /\ chunk \in Seq(Cell) /\ line[Port] \in Seq(Cell)
  BY <1>1 DEF TypeOK
<1>3. ASSUME NEW a \in Nat, NEW b \in Nat, NEW c \in Nat, a + b + c = 0
      PROVE  a = 0 /\ b = 0 /\ c = 0
  BY <1>3
<1>4. \A s \in Seq(Cell) : Len(s) \in Nat /\ (Len(s) = 0 => s = <<>>)
  OBVIOUS
<1>5. Len(total_recv_buf) \in Nat /\ Len(chunk) \in Nat /\ Len(line[Port]) \in Nat
  BY <1>2, <1>4
<1>6. InFlight = Len(total_recv_buf) + Len(chunk) + Len(line[Port])
  BY DEF InFlight
<1>7. InFlight \in Nat
  <2>1. \A a, b, c \in Nat : a + b + c \in Nat
    OBVIOUS
  <2>2. QED
    BY <1>5, <1>6, <2>1, Zenon
<1>8. InFlight = 0 => total_recv_buf = <<>> /\ chunk = <<>> /\ line[Port] = <<>>
  BY <1>2, <1>3, <1>4, <1>5, <1>6
<1>9. QED
  BY <1>1, <1>5, <1>7, <1>8

LEMMA AskedIsEmpty ==
  ASSUME IInv, Honest, NEW t \in Ttys, request[t] # 0
  PROVE  /\ pit \in Devices /\ pit = cur /\ t = Port /\ InFlight = 0
         /\ total_recv_buf = <<>> /\ chunk = <<>> /\ line[t] = <<>>
<1>1. t = Port
  BY DEF IInv, Clean, OneReply
<1>2. pit \in Devices
  BY <1>1 DEF IInv, TypeOK, Port, Ttys, Devices, NoDevice
<1>3. InFlight = 0
  BY <1>1, <1>2 DEF IInv, Clean, OneReply
<1>4. pit = cur
  BY DEF IInv, HandOver, NoResidue, Honest
<1>5. QED
  BY <1>1, <1>2, <1>3, <1>4, InFlightFacts DEF IInv

LEMMA HonestAnswer ==
  ASSUME IInv, NEW t \in Ttys, Answer(t), Honest'
  PROVE  /\ Honest
         /\ \E cells \in Seq(Cell) :
              /\ line' = [line EXCEPT ![t] = cells]
              /\ Own(cells)
              /\ Len(cells) # 0 => /\ cells[1].head \in TrueHeaders
                                   /\ Len(cells) <= FrameSize(cells[1].head)
<1>1. Honest /\ (AnswerWhole(t) \/ AnswerShort(t))
  BY DEF Answer, AnswerWhole, AnswerShort, AnswerGarbled, Honest
<1>2. request[t] \in Points /\ request[t] # 0
  BY AnswerEffect DEF IInv, Points
<1>3. /\ pit \in Devices /\ pit = cur /\ t = Port /\ line[t] = <<>>
  BY <1>1, <1>2, AskedIsEmpty
<1>4. PICK d \in Units(t) : /\ Alone(d)
                            /\ \E cells \in Whole(d, request[t]) \cup Short(d, request[t]) :
                                  Deliver(t, cells)
  BY <1>1 DEF AnswerWhole, AnswerShort
<1>5. PICK cells \in Whole(d, request[t]) \cup Short(d, request[t]) : Deliver(t, cells)
  BY <1>4
<1>6. d \in Devices /\ tty[d] = t
  BY DEF Units, IInv, TypeOK
<1>7. cur \in units => d = cur
  <2>1. tty[cur] = t
    BY <1>3, InFlightFacts DEF IInv
  <2>2. Units(t) = {d}
    BY <1>4, <1>6 DEF Alone
  <2>3. cur \in units => cur \in Units(t)
    BY <2>1 DEF Units
  <2>4. QED
    BY <2>2, <2>3
<1>8. /\ cells \in Seq(Cell)
      /\ \A i \in 1 .. Len(cells) : cells[i].dev = d /\ cells[i].point = request[t]
      /\ Len(cells) # 0 => /\ cells[1].head \in TrueHeaders
                           /\ Len(cells) <= FrameSize(cells[1].head)
      /\ Len(cells) <= 3
  <2>1. cells \in Whole(d, request[t]) \cup Short(d, request[t])
    OBVIOUS
  <2>2. QED
    BY <1>2, <1>6, <2>1, TrueDelivery
<1>9. request[t] = pointCount
  BY <1>1, <1>2 DEF IInv, Clean, Owned
<1>10. Own(cells)
  BY <1>7, <1>8, <1>9 DEF Own, OwnCell
<1>11. line' = [line EXCEPT ![t] = cells]
  <2>1. Told(cells) = cells
    BY <1>1 DEF Told, Honest
  <2>2. line[t] \o cells = cells
    BY <1>3, <1>8
  <2>3. Kept(cells) = cells
    <3>1. Len(cells) <= Capacity
      BY <1>8, CapacityFact
    <3>2. QED
      BY <3>1 DEF Kept
  <2>4. QED
    BY <1>5, <2>1, <2>2, <2>3 DEF Deliver
<1>12. QED
  BY <1>1, <1>8, <1>10, <1>11

\* A read moves cells from the line to the chunk: nothing is added.
LEMMA ReadKeepsReply ==
  ASSUME IInv, Honest, ReaderRead
  PROVE  OneReply'
<1> USE DEF IInv, TypeOK
<1>1. /\ source = pit /\ pit \in Devices /\ chunk = <<>>
      /\ UNCHANGED <<tty, pit, total_recv_buf, header, request>>
  BY CurIsDevice DEF ReaderRead, HandOver, Resting, Listening, wiring, bufVars
<1>2. Port \in Ttys /\ Port = tty[pit] /\ tty[source] = Port /\ Port' = Port
  BY <1>1, CurIsDevice DEF Port
<1>3. CASE chunk' = <<>> /\ line' = line
  BY <1>1, <1>2, <1>3 DEF Clean, OneReply, InFlight, Coming
<1>4. ASSUME NEW n \in 1 .. Len(line[Port]), NEW rest \in Seq(Cell),
             line' = [line EXCEPT ![Port] = rest],
             chunk' \in Seq(Cell), Len(chunk') = n, Len(rest) = Len(line[Port]) - n,
             \A i \in 1 .. n : chunk'[i] = line[Port][i]
      PROVE  OneReply'
  <2>1. line'[Port] = rest /\ \A t \in Ttys : t # Port => line'[t] = line[t]
    BY <1>2, <1>4
  <2>2. InFlight' = InFlight
    <3>1. ASSUME NEW a \in Nat, NEW b \in Nat, NEW c \in Nat, c = b - n
          PROVE  a + n + c = a + 0 + b
      BY <3>1
    <3>2. Len(total_recv_buf) \in Nat /\ Len(line[Port]) \in Nat /\ Len(rest) \in Nat
      BY <1>2
    <3>3. InFlight' = Len(total_recv_buf) + n + Len(rest)
      BY <1>1, <1>2, <1>4, <2>1 DEF InFlight
    <3>4. InFlight = Len(total_recv_buf) + 0 + Len(line[Port])
      BY <1>1 DEF InFlight
    <3>5. QED
      BY <1>4, <3>1, <3>2, <3>3, <3>4
  <2>3. Coming' = Coming
    <3>1. chunk' # <<>> /\ chunk'[1] = line[Port][1]
      BY <1>4
    <3>2. QED
      BY <1>1, <1>2, <3>1 DEF Coming
  <2>4. OneReply
    BY DEF Clean
  <2>5. QED
    BY <1>1, <1>2, <2>1, <2>2, <2>3, <2>4 DEF OneReply
<1>5. QED
  <2>1. ReaderRead /\ TypeOK
    OBVIOUS
  <2> HIDE DEF IInv, TypeOK
  <2>2. QED
    BY <1>2, <1>3, <1>4, <2>1, ReadSplits, ZenonT(30)

\* An append moves the chunk to the buffer, and the header with it.
LEMMA AppendKeepsReply ==
  ASSUME IInv, Honest, ReaderAppend
  PROVE  OneReply'
<1> USE DEF IInv, TypeOK
<1>1. /\ pit \in Devices /\ chunk' = <<>>
      /\ total_recv_buf' = total_recv_buf \o Bytes(chunk)
      /\ header' \in IF total_recv_buf = <<>> THEN FirstHeader(chunk) ELSE {header}
      /\ UNCHANGED <<tty, pit, request, line>>
  BY CurIsDevice DEF ReaderAppend, HandOver, Resting, Listening, wiring, portVars
<1>2. Port \in Ttys /\ Port' = Port
  BY <1>1, CurIsDevice DEF Port
<1>3. Bytes(chunk) \in Seq(Cell) /\ Len(Bytes(chunk)) = Len(chunk)
  BY BytesType
<1>4. /\ total_recv_buf' \in Seq(Cell)
      /\ Len(total_recv_buf') = Len(total_recv_buf) + Len(chunk)
  <2>1. \A u \in Seq(Cell) : /\ total_recv_buf \o u \in Seq(Cell)
                             /\ Len(total_recv_buf \o u) = Len(total_recv_buf) + Len(u)
    OBVIOUS
  <2>2. QED
    BY <1>1, <1>3, <2>1, Zenon
<1>5. InFlight' = InFlight
  <2>1. ASSUME NEW a \in Nat, NEW b \in Nat, NEW c \in Nat PROVE (a + b) + 0 + c = a + b + c
    OBVIOUS
  <2>2. Len(total_recv_buf) \in Nat /\ Len(line[Port]) \in Nat /\ Len(chunk) \in Nat
    BY <1>2, SMTT(30)
  <2>3. InFlight' = (Len(total_recv_buf) + Len(chunk)) + 0 + Len(line[Port])
    BY <1>1, <1>2, <1>4 DEF InFlight
  <2>4. QED
    BY <2>1, <2>2, <2>3 DEF InFlight
<1>6. InFlight # 0 => Coming' = Coming
  <2>1. CASE total_recv_buf # <<>>
    <3>1. total_recv_buf' # <<>> /\ header' = header
      BY <1>1, <1>4, <2>1
    <3>2. QED
      BY <2>1, <3>1 DEF Coming
  <2>2. CASE total_recv_buf = <<>> /\ chunk # <<>> /\ InFlight # 0
    <3>1. Coming = chunk[1].head /\ Coming \in TrueHeaders
      BY <1>1, <2>2 DEF Coming, Clean, OneReply
    <3>2. chunk[1].head # NoHeader
      BY <3>1, HeaderFacts
    <3>3. header' = chunk[1].head
      BY <1>1, <2>2, <3>2 DEF FirstHeader
    <3>4. total_recv_buf' # <<>>
      BY <1>4, <2>2
    <3>5. QED
      BY <3>1, <3>3, <3>4 DEF Coming
  <2>3. CASE total_recv_buf = <<>> /\ chunk = <<>>
    <3>1. total_recv_buf' = <<>>
      BY <1>4, <2>3
    <3>2. QED
      BY <1>1, <1>2, <2>3, <3>1 DEF Coming
  <2>4. QED
    BY <2>1, <2>2, <2>3
<1>7. OneReply
  BY DEF Clean
<1>8. QED
  BY <1>1, <1>2, <1>5, <1>6, <1>7 DEF OneReply

LEMMA AnswerKeepsReply ==
  ASSUME IInv, NEW t \in Ttys, Answer(t), Honest'
  PROVE  OneReply'
<1>1. request[t] # 0 /\ request' = [request EXCEPT ![t] = 0]
  BY AnswerEffect DEF IInv, Points
<1>2. UNCHANGED <<tty, pit, total_recv_buf, header, chunk>>
  BY AnswerEffect DEF IInv, wiring, bufVars, readerVars
<1>3. PICK cells \in Seq(Cell) :
            /\ line' = [line EXCEPT ![t] = cells]
            /\ Len(cells) # 0 => /\ cells[1].head \in TrueHeaders
                                 /\ Len(cells) <= FrameSize(cells[1].head)
  BY HonestAnswer
<1>4. Honest
  BY HonestAnswer
<1>5. t = Port /\ total_recv_buf = <<>> /\ chunk = <<>>
  BY <1>1, <1>4, AskedIsEmpty
<1>6. Port' = Port /\ line'[Port] = cells /\ request'[Port] = 0
  BY <1>1, <1>2, <1>3, <1>5 DEF Port, IInv, TypeOK
<1>7. InFlight' = Len(cells)
  <2>1. InFlight' = Len(<<>>) + Len(<<>>) + Len(cells)
    BY <1>2, <1>5, <1>6 DEF InFlight
  <2>2. QED
    BY <2>1
<1>8. Coming' = cells[1].head
  BY <1>2, <1>5, <1>6 DEF Coming
<1>9. \A u \in Ttys : u # Port => line'[u] = <<>> /\ request'[u] = 0
  BY <1>1, <1>3, <1>4, <1>5 DEF IInv, TypeOK, Clean, OneReply
<1>10. QED
  BY <1>3, <1>6, <1>7, <1>8, <1>9 DEF OneReply

\* While headers are true, ParsePacket takes a buffer only once the whole reply
\* is in it.
LEMMA ParseTakesAll ==
  ASSUME IInv, Honest, ParseComplete
  PROVE  chunk = <<>> /\ line[Port] = <<>> /\ Port \in Ttys /\ pit \in Devices
<1> USE DEF IInv, TypeOK
<1>1. OneReply /\ pit \in Devices
  BY CurIsDevice DEF Clean, ParseComplete, HandOver
<1>2. chunk = <<>>
  BY DEF ParseComplete, HandOver, Resting, Incomplete
<1>3. total_recv_buf # <<>> /\ Len(total_recv_buf) >= 2 /\ Verdict # "incomplete"
  BY NotIncomplete DEF ParseComplete
<1>4. /\ InFlight # 0 /\ header \in TrueHeaders /\ InFlight <= FrameSize(header)
      /\ Len(total_recv_buf) \in Nat /\ Len(line[Port]) \in Nat
      /\ InFlight = Len(total_recv_buf) + 0 + Len(line[Port])
  BY <1>1, <1>2, <1>3, InFlightFacts DEF OneReply, Coming, InFlight
<1>5. Len(total_recv_buf) >= FrameSize(header) /\ FrameSize(header) \in Nat
  <2>1. ParsePacket(header, Len(total_recv_buf)) # "incomplete"
    BY <1>3 DEF Verdict
  <2>2. Len(total_recv_buf) >= FrameSize(header)
    BY <1>4, <2>1, TrueVerdict
  <2>3. FrameSize(header) \in {2, 3}
    BY <1>4, HeaderFacts, Zenon
  <2>4. QED
    BY <2>2, <2>3
<1>6. Len(line[Port]) = 0
  BY <1>4, <1>5
<1>7. Port \in Ttys /\ line[Port] \in Seq(Cell)
  BY <1>1, CurIsDevice
<1>8. QED
  BY <1>1, <1>2, <1>6, <1>7

LEMMA OneReplyStep == IInv /\ [Next]_vars /\ Honest' => OneReply'
<1> SUFFICES ASSUME IInv, [Next]_vars, Honest' PROVE OneReply'
  OBVIOUS
<1>1. ASSUME NEW t \in Ttys, Answer(t) PROVE OneReply'
  BY <1>1, AnswerKeepsReply
<1> USE CurIsDevice DEF IInv, TypeOK, wiring, serialVars, bufVars, readerVars, portVars
<1>2. ASSUME UNCHANGED harm PROVE Honest /\ OneReply
  BY <1>2 DEF Honest, Clean
<1>3. CASE Still /\ UNCHANGED harm
  BY <1>2, <1>3 DEF Still, OneReply, InFlight, Coming, Port
<1>4. CASE NextDevice \/ SendRequest
  <2>1. /\ Honest /\ total_recv_buf' = <<>> /\ chunk' = <<>> /\ pit' = cur /\ tty' = tty
        /\ line' = line /\ \A t \in Ttys : line[t] = <<>>
    BY <1>2, <1>4 DEF NextDevice, SendRequest, HandOver, NoResidue, Honest
  <2>2. Port' = tty[cur] /\ Port' \in Ttys /\ line'[Port'] = <<>>
    BY <2>1 DEF Port, Devices, NoDevice
  <2>3. InFlight' = 0
    BY <2>1, <2>2 DEF InFlight
  <2>4. \A t \in Ttys : t # Port' => request'[t] = 0
    BY <1>4, <2>1, <2>2 DEF NextDevice, SendRequest, HandOver, NoResidue, Honest
  <2>5. QED
    BY <2>1, <2>3, <2>4 DEF OneReply
<1>5. CASE ParseComplete
  <2>1. /\ Honest /\ OneReply /\ total_recv_buf' = <<>>
        /\ UNCHANGED <<tty, pit, chunk, line, request>>
    BY <1>2, <1>5 DEF ParseComplete, Cleared
  <2>2. chunk = <<>> /\ line[Port] = <<>> /\ Port \in Ttys
    BY <1>5, <2>1, ParseTakesAll
  <2>3. Port' = Port
    BY <2>1 DEF Port
  <2>4. InFlight' = 0
    BY <2>1, <2>2, <2>3 DEF InFlight
  <2>5. QED
    BY <2>1, <2>3, <2>4 DEF OneReply
<1>6. CASE ReaderRead
  BY <1>2, <1>6, ReadKeepsReply DEF ReaderRead
<1>7. CASE ReaderAppend
  BY <1>2, <1>7, AppendKeepsReply DEF ReaderAppend
<1>8. CASE EndOfPoints \/ Ask \/ ParseNothing \/ ParseIncomplete \/ ParseAgain
  BY <1>3, <1>8 DEF Still, EndOfPoints, Ask, ParseNothing, ParseIncomplete, ParseAgain
<1>9. CASE Publish
  BY <1>2, <1>9 DEF Publish, OneReply, InFlight, Coming, Port
<1>10. CASE ReaderTest \/ ReaderWait \/ ReaderSpuriousWake \/ ReaderPick \/ ReaderFlag
  BY <1>3, <1>10 DEF Still, ReaderTest, ReaderWait, ReaderSpuriousWake, ReaderPick, ReaderFlag
<1>11. CASE UNCHANGED vars
  BY <1>3, <1>11 DEF Still, vars
<1>12. QED
  BY <1>1, <1>4, <1>5, <1>6, <1>7, <1>8, <1>9, <1>10, <1>11
     DEF Next, SerialStep, ReaderStep

LEMMA NoResidueStep == IInv /\ [Next]_vars => NoResidue'
<1> SUFFICES ASSUME IInv, [Next]_vars, Honest', serial' \in {"next", "assemble", "publish"}
             PROVE  /\ total_recv_buf' = <<>> /\ chunk' = <<>>
                    /\ \A t \in Ttys : line'[t] = <<>> /\ request'[t] = 0
  BY DEF NoResidue, Honest
<1>1. ASSUME NEW t \in Ttys, Answer(t) PROVE FALSE
  <2>1. Honest /\ serial' = serial /\ request[t] # 0
    BY <1>1, HonestAnswer, AnswerEffect DEF IInv, serialVars, Points
  <2>2. QED
    BY <2>1 DEF IInv, NoResidue, Honest
<1> USE DEF IInv, TypeOK, Honest, wiring, serialVars, bufVars, readerVars, portVars
<1>2. CASE UNCHANGED <<total_recv_buf, chunk, request, line, harm>>
           /\ serial \in {"next", "assemble", "publish"}
  BY <1>2 DEF NoResidue
<1>3. CASE NextDevice \/ EndOfPoints \/ Publish
  BY <1>2, <1>3 DEF NextDevice, EndOfPoints, Publish
<1>4. CASE SendRequest \/ Ask \/ ParseNothing \/ ParseIncomplete \/ ParseAgain
  BY <1>4 DEF SendRequest, Ask, ParseNothing, ParseIncomplete, ParseAgain
<1>5. CASE ParseComplete
  <2>1. /\ pit \in Devices /\ pit' = pit /\ tty' = tty /\ total_recv_buf' = <<>>
        /\ chunk' = chunk /\ line' = line /\ request' = request /\ Honest
    BY <1>5, CurIsDevice DEF ParseComplete, HandOver, Cleared
  <2>2. Port \in Ttys /\ Port' = Port
    BY <2>1, CurIsDevice DEF Port
  <2>3. InFlight # 0
    BY <1>5, <2>1, NotIncomplete, InFlightFacts DEF ParseComplete
  <2>4. OneReply /\ OneReply'
    BY <2>1, OneReplyStep DEF Clean
  <2>5. \A t \in Ttys : request[t] = 0
    BY <2>1, <2>3, <2>4 DEF OneReply
  <2>6. chunk = <<>>
    BY <1>5 DEF ParseComplete, HandOver, Resting, Incomplete
  <2>7. line[Port] = <<>>
    BY <1>5, <2>1, <2>6, ParseTakesAll
  <2>8. QED
    BY <2>1, <2>2, <2>4, <2>5, <2>6, <2>7 DEF OneReply
<1>6. CASE ReaderTest \/ ReaderWait \/ ReaderSpuriousWake \/ ReaderPick \/ ReaderFlag
  BY <1>2, <1>6 DEF ReaderTest, ReaderWait, ReaderSpuriousWake, ReaderPick, ReaderFlag
<1>7. CASE ReaderRead \/ ReaderAppend
  BY <1>7 DEF ReaderRead, ReaderAppend, HandOver, Resting, Listening
<1>8. CASE UNCHANGED vars
  BY <1>2, <1>8 DEF vars
<1>9. QED
  BY <1>1, <1>3, <1>4, <1>5, <1>6, <1>7, <1>8 DEF Next, SerialStep, ReaderStep

\* The two parts of a sequence of own cells are own.
LEMMA OwnSplit ==
  ASSUME NEW s \in Seq(Cell), Own(s), NEW n \in 1 .. Len(s), NEW first, NEW rest \in Seq(Cell),
         Len(first) = n, Len(rest) = Len(s) - n,
         \A i \in 1 .. n : first[i] = s[i],
         \A i \in 1 .. Len(rest) : rest[i] = s[n + i]
  PROVE  Own(first) /\ Own(rest)
<1>1. Len(s) \in Nat /\ n \in Nat /\ n <= Len(s)
  OBVIOUS
<1>2. Own(first)
  <2>1. \A i \in 1 .. n : i \in 1 .. Len(s)
    BY <1>1
  <2>2. QED
    BY <2>1 DEF Own
<1>3. Own(rest)
  <2>1. \A i \in 1 .. Len(rest) : n + i \in 1 .. Len(s)
    BY <1>1
  <2>2. QED
    BY SMTT(30), <2>1 DEF Own
<1>4. QED
  BY <1>2, <1>3

\* An append of own cells to own cells.
LEMMA OwnAppend ==
  ASSUME NEW s \in Seq(Cell), NEW u \in Seq(Cell), Own(s), Own(u)
  PROVE  Own(s \o Bytes(u))
<1> DEFINE v == Bytes(u)
<1>1. /\ v \in Seq(Cell) /\ Len(v) = Len(u)
      /\ \A i \in 1 .. Len(u) : v[i].dev = u[i].dev /\ v[i].point = u[i].point
  BY BytesType
<1>2. \A i \in 1 .. Len(v) : OwnCell(v[i])
  BY <1>1 DEF Own, OwnCell
<1> HIDE DEF v
<1>3. /\ Len(s \o v) = Len(s) + Len(v)
      /\ \A i \in 1 .. Len(s) + Len(v) : (s \o v)[i] = IF i <= Len(s) THEN s[i] ELSE v[i - Len(s)]
  BY <1>1, ConcatProperties
<1>4. ASSUME NEW i \in 1 .. Len(s) + Len(v) PROVE OwnCell((s \o v)[i])
  <2>1. CASE i <= Len(s)
    <3>1. i \in 1 .. Len(s) /\ (s \o v)[i] = s[i]
      BY <1>3, <2>1
    <3>2. QED
      BY <3>1 DEF Own
  <2>2. CASE ~(i <= Len(s))
    <3>1. i - Len(s) \in 1 .. Len(v) /\ (s \o v)[i] = v[i - Len(s)]
      BY <1>1, <1>3, <2>2
    <3>2. QED
      BY <1>2, <3>1
  <2>3. QED
    BY <2>1, <2>2
<1>5. QED
  BY <1>3, <1>4 DEF Own, v

LEMMA OwnedStep == IInv /\ [Next]_vars /\ Honest' => Owned'
<1> SUFFICES ASSUME IInv, [Next]_vars, Honest' PROVE Owned'
  OBVIOUS
<1>1. ASSUME NEW t \in Ttys, Answer(t) PROVE Owned'
  <2>1. PICK cells \in Seq(Cell) : line' = [line EXCEPT ![t] = cells] /\ Own(cells)
    BY <1>1, HonestAnswer
  <2>2. /\ request' = [request EXCEPT ![t] = 0]
        /\ UNCHANGED <<units, cur, pointCount, total_recv_buf, chunk>>
    BY <1>1, AnswerEffect DEF IInv, wiring, serialVars, bufVars, readerVars
  <2>3. Owned
    BY <1>1, HonestAnswer DEF IInv, Clean
  <2>4. QED
    BY <2>1, <2>2, <2>3 DEF Owned, Own, OwnCell, IInv, TypeOK
<1> USE CurIsDevice DEF IInv, TypeOK, wiring, serialVars, bufVars, readerVars, portVars
<1>2. ASSUME UNCHANGED harm PROVE Honest /\ Owned
  BY <1>2 DEF Honest, Clean
<1>3. CASE Still /\ UNCHANGED harm
  BY <1>2, <1>3 DEF Still, Owned, Own, OwnCell
<1>4. CASE NextDevice \/ Publish
  BY <1>2, <1>4 DEF NextDevice, Publish, NoResidue, Honest, Owned, Own
<1>5. CASE SendRequest
  <2>1. pit = cur /\ nextPkg[pit] = pointCount
    BY <1>5 DEF SendRequest, HandOver, Counting
  <2>2. \A t \in Ttys : request'[t] \in {0, pointCount'}
    BY <1>2, <1>5, <2>1 DEF SendRequest, NoResidue, Honest
  <2>3. QED
    BY <1>2, <1>5, <2>2 DEF SendRequest, NoResidue, Honest, Owned, Own
<1>6. CASE ParseComplete
  <2>1. /\ UNCHANGED <<units, cur, pointCount, chunk, line, request>>
        /\ total_recv_buf' = <<>> /\ Owned
    BY <1>2, <1>6 DEF ParseComplete, Cleared
  <2>2. Own(total_recv_buf')
    BY <2>1 DEF Own
  <2>3. QED
    BY <2>1, <2>2, Zenon DEF Owned, Own, OwnCell
<1>7. CASE ReaderRead
  <2>1. CASE chunk' = <<>> /\ line' = line
    BY <1>2, <1>7, <2>1 DEF ReaderRead, Owned, Own, OwnCell
  <2>2. ASSUME source \in Devices, NEW n \in 1 .. Len(line[tty[source]]), NEW rest \in Seq(Cell),
               line' = [line EXCEPT ![tty[source]] = rest], Len(chunk') = n,
               Len(rest) = Len(line[tty[source]]) - n,
               \A i \in 1 .. n : chunk'[i] = line[tty[source]][i],
               \A i \in 1 .. Len(rest) : rest[i] = line[tty[source]][n + i]
        PROVE  Owned'
    <3> DEFINE whole == line[tty[source]]
    <3>1. Own(whole) /\ whole \in Seq(Cell) /\ tty[source] \in Ttys
      BY <1>2, <1>7, <2>2 DEF Owned, ReaderRead
    <3>2. Own(chunk') /\ Own(rest)
      <4> HIDE DEF IInv, TypeOK, whole
      <4>1. /\ n \in 1 .. Len(whole) /\ Len(rest) = Len(whole) - n
            /\ \A i \in 1 .. n : chunk'[i] = whole[i]
            /\ \A i \in 1 .. Len(rest) : rest[i] = whole[n + i]
        BY <2>2 DEF whole
      <4>2. QED
        BY <2>2, <3>1, <4>1, OwnSplit
    <3>3. UNCHANGED <<units, cur, pointCount, total_recv_buf, request>>
      BY <1>7 DEF ReaderRead
    <3>4. \A t \in Ttys : line'[t] = line[t] \/ line'[t] = rest
      BY <2>2
    <3>5. Owned
      BY <1>2, <1>7 DEF ReaderRead
    <3>6. QED
      <4> HIDE DEF IInv, TypeOK
      <4>1. QED
        BY <3>2, <3>3, <3>4, <3>5 DEF Owned, Own, OwnCell
  <2>3. QED
    <3>1. ReaderRead /\ TypeOK
      BY <1>7
    <3> HIDE DEF IInv, TypeOK
    <3>2. QED
      BY <2>1, <2>2, <3>1, ReadSplits
<1>8. CASE ReaderAppend
  <2>1. Own(total_recv_buf) /\ Own(chunk) /\ Owned
    BY <1>2, <1>8 DEF ReaderAppend, Owned
  <2>2. Own(total_recv_buf \o Bytes(chunk))
    BY <2>1, OwnAppend
  <2>3. /\ UNCHANGED <<units, cur, pointCount, line, request>>
        /\ total_recv_buf' = total_recv_buf \o Bytes(chunk) /\ chunk' = <<>>
    BY <1>8 DEF ReaderAppend
  <2>4. Own(<<>>)
    BY DEF Own
  <2>5. Own(total_recv_buf') /\ Own(chunk')
    BY <2>2, <2>3, <2>4
  <2>6. QED
    BY <2>1, <2>3, <2>5 DEF Owned, Own, OwnCell
<1>9. CASE EndOfPoints \/ Ask \/ ParseNothing \/ ParseIncomplete \/ ParseAgain
  BY <1>3, <1>9 DEF Still, EndOfPoints, Ask, ParseNothing, ParseIncomplete, ParseAgain
<1>10. CASE ReaderTest \/ ReaderWait \/ ReaderSpuriousWake \/ ReaderPick \/ ReaderFlag
  BY <1>3, <1>10 DEF Still, ReaderTest, ReaderWait, ReaderSpuriousWake, ReaderPick, ReaderFlag
<1>11. CASE UNCHANGED vars
  BY <1>3, <1>11 DEF Still, vars
<1>12. QED
  BY <1>1, <1>4, <1>5, <1>6, <1>7, <1>8, <1>9, <1>10, <1>11
     DEF Next, SerialStep, ReaderStep

Results == Counting /\ Attribution /\ PublishedComplete

LEMMA ResultsStep == IInv /\ [Next]_vars => Results'
<1> SUFFICES ASSUME IInv, [Next]_vars PROVE Results'
  OBVIOUS
<1>1. ASSUME NEW t \in Ttys, Answer(t) PROVE Results'
  <2>1. UNCHANGED <<units, cur, nextPkg, pointCount, results, serial>>
    BY <1>1, AnswerEffect DEF IInv, wiring, serialVars
  <2>2. harm' # "garbled" => harm # "garbled"
    BY <1>1, HonestAnswer DEF Honest
  <2>3. QED
    BY <2>1, <2>2 DEF IInv, Results, Counting, Asking, Attribution, PublishedComplete
<1> USE CurIsDevice DEF IInv, TypeOK, Results, Counting, Asking, Attribution, PublishedComplete,
                        wiring, serialVars, bufVars, readerVars, portVars
<1>2. CASE UNCHANGED <<units, cur, nextPkg, pointCount, results, harm>>
           /\ \/ serial' = serial
              \/ serial \in {"ask", "parse", "doze"} /\ serial' \in {"parse", "doze"}
  BY <1>2
<1>3. CASE NextDevice
  BY <1>3 DEF NextDevice
<1>4. CASE SendRequest
  <2>1. pit = cur
    BY <1>4 DEF SendRequest, HandOver
  <2>2. QED
    BY <1>4, <2>1 DEF SendRequest, Points
<1>5. CASE EndOfPoints
  <2>1. pit = cur
    BY <1>5 DEF EndOfPoints, HandOver
  <2>2. QED
    BY <1>5, <2>1 DEF EndOfPoints
<1>6. CASE ParseComplete
  <2>1. Len(total_recv_buf) >= 2
    BY <1>6, NotIncomplete DEF ParseComplete
  <2>2. Honest => OwnCell(total_recv_buf[1])
    BY <2>1 DEF Clean, Owned, Own
  <2> DEFINE res == [title |-> pointCount,
                     dev |-> total_recv_buf[1].dev, point |-> total_recv_buf[1].point]
  <2>3. results' = Append(results, res)
    BY <1>6 DEF ParseComplete
  <2>4. res.title = pointCount
    OBVIOUS
  <2>5. Honest => res.point = pointCount /\ (cur \in units => res.dev = cur)
    BY <2>2 DEF OwnCell
  <2> HIDE DEF res
  <2>6. /\ results' = Append(results, res) /\ res.title = pointCount
        /\ Honest => res.point = pointCount /\ (cur \in units => res.dev = cur)
    BY <2>3, <2>4, <2>5
  <2>7. Len(results') = Len(results) + 1 /\ Len(results') = pointCount
    BY <1>6, <2>6 DEF ParseComplete
  <2>8. Attribution'
    <3>1. UNCHANGED <<units, cur, harm>>
      BY <1>6 DEF ParseComplete
    <3>2. ASSUME NEW i \in DOMAIN results'
          PROVE  /\ results'[i].title = i
                 /\ \/ harm = "garbled"
                    \/ results'[i].point = i /\ (cur \in units => results'[i].dev = cur)
      <4>1. CASE i \in DOMAIN results
        BY <2>6, <4>1, SMTT(30)
      <4>2. CASE i = pointCount
        BY <2>6, <2>7, <4>2 DEF Honest
      <4>3. QED
        BY <2>6, <2>7, <3>2, <4>1, <4>2
    <3>3. QED
      BY <3>1, <3>2
  <2>9. QED
    BY <1>6, <2>7, <2>8 DEF ParseComplete
<1>7. CASE Publish
  BY <1>7, SMTT(30) DEF Publish, Devices
<1>8. CASE Ask \/ ParseNothing \/ ParseIncomplete \/ ParseAgain
  BY <1>2, <1>8 DEF Ask, ParseNothing, ParseIncomplete, ParseAgain
<1>9. CASE ReaderTest \/ ReaderWait \/ ReaderSpuriousWake \/ ReaderPick \/ ReaderFlag
  BY <1>2, <1>9 DEF ReaderTest, ReaderWait, ReaderSpuriousWake, ReaderPick, ReaderFlag
<1>10. CASE ReaderRead \/ ReaderAppend
  BY <1>2, <1>10 DEF ReaderRead, ReaderAppend
<1>11. CASE UNCHANGED vars
  BY <1>2, <1>11 DEF vars
<1>12. QED
  BY <1>1, <1>3, <1>4, <1>5, <1>6, <1>7, <1>8, <1>9, <1>10, <1>11
     DEF Next, SerialStep, ReaderStep

-----------------------------------------------------------------------------
(* The theorems *)

LEMMA Inductive == Spec => []IInv
<1>1. IInv /\ [Next]_vars => IInv'
  BY TypeStep, HandOverStep, OneReplyStep, NoResidueStep, OwnedStep, ResultsStep
     DEF IInv, Results, Clean
<1>2. QED
  BY IInvInit, <1>1, PTL DEF Spec

(***************************************************************************)
(* The state keeps its types; a result always has a title.                 *)
(***************************************************************************)
THEOREM TypeCorrect == Spec => []TypeOK
<1>1. IInv => TypeOK
  BY DEF IInv
<1>2. QED
  BY Inductive, <1>1, PTL

(***************************************************************************)
(* is_RecvRun hands pit and the port over without a lock, whatever bytes   *)
(* arrive: serial_thread never assigns pit while recv_thread copies it,    *)
(* and recv_thread is only ever at the port of the device being polled.    *)
(***************************************************************************)
THEOREM HandOverCorrect == Spec => []ReaderOnlyWhileAsked
<1>1. IInv => ReaderOnlyWhileAsked
  BY DEF IInv, HandOver, Resting, Listening, ReaderOnlyWhileAsked
<1>2. QED
  BY Inductive, <1>1, PTL

(***************************************************************************)
(* Unless a header was ever garbled, nothing of an earlier reply is left   *)
(* when a request goes out.                                                *)
(***************************************************************************)
THEOREM NoResidueCorrect == Spec => []NoResidue
<1>1. IInv => NoResidue
  BY DEF IInv
<1>2. QED
  BY Inductive, <1>1, PTL

(***************************************************************************)
(* Every result has the title of its place; unless a header was ever       *)
(* garbled it is the reply to the request of that title, of the device     *)
(* polled if that device has bus address 1.                                *)
(***************************************************************************)
THEOREM AttributionCorrect == Spec => []Attribution
<1>1. IInv => Attribution
  BY DEF IInv
<1>2. QED
  BY Inductive, <1>1, PTL

(***************************************************************************)
(* What is published for a device has one result per point.                *)
(***************************************************************************)
THEOREM CompletenessCorrect == Spec => []PublishedComplete
<1>1. IInv => PublishedComplete
  BY DEF IInv
<1>2. QED
  BY Inductive, <1>1, PTL

-----------------------------------------------------------------------------
(***************************************************************************)
(* What a reply goes through between the port and ParsePacket, and why one *)
(* of which nothing more comes stops polling: safety of PollsForever.      *)
(***************************************************************************)
\* What has arrived from the device being polled, wherever it is by now.
Arrived == (total_recv_buf \o Bytes(chunk)) \o Bytes(line[Port])

LEMMA SplitConcat ==
  ASSUME NEW s \in Seq(Cell), NEW n \in 1 .. Len(s), NEW first \in Seq(Cell),
         NEW rest \in Seq(Cell), Len(first) = n, Len(rest) = Len(s) - n,
         \A i \in 1 .. n : first[i] = s[i],
         \A i \in 1 .. Len(rest) : rest[i] = s[n + i]
  PROVE  first \o rest = s
<1>1. /\ first \o rest \in Seq(Cell)
      /\ Len(first \o rest) = Len(first) + Len(rest)
      /\ \A i \in 1 .. Len(first) + Len(rest) :
            (first \o rest)[i] = IF i <= Len(first) THEN first[i] ELSE rest[i - Len(first)]
  BY ConcatProperties
<1>2. Len(first \o rest) = Len(s)
  BY <1>1
<1>3. ASSUME NEW i \in 1 .. Len(first \o rest) PROVE (first \o rest)[i] = s[i]
  <2>1. CASE i <= n
    BY <1>1, <2>1
  <2>2. CASE ~(i <= n)
    <3>1. i - n \in 1 .. Len(rest) /\ n + (i - n) = i
      BY <1>1, <2>2
    <3>2. QED
      BY <1>1, <2>2, <3>1
  <2>3. QED
    BY <2>1, <2>2
<1>4. QED
  BY <1>1, <1>2, <1>3, SeqEqual

LEMMA CellsAssociative ==
  \A s, t, u \in Seq(Cell) : (s \o t) \o u = s \o (t \o u)
<1>1. ASSUME NEW s \in Seq(Cell), NEW t \in Seq(Cell), NEW u \in Seq(Cell)
      PROVE  (s \o t) \o u = s \o (t \o u)
  BY ConcatAssociative
<1>2. QED
  BY <1>1

LEMMA BytesSplit ==
  ASSUME NEW s \in Seq(Cell), NEW n \in 1 .. Len(s), NEW first \in Seq(Cell),
         NEW rest \in Seq(Cell), Len(first) = n, Len(rest) = Len(s) - n,
         \A i \in 1 .. n : first[i] = s[i],
         \A i \in 1 .. Len(rest) : rest[i] = s[n + i]
  PROVE  Bytes(first) \o Bytes(rest) = Bytes(s)
<1> DEFINE S == Bytes(s)
           F == Bytes(first)
           R == Bytes(rest)
<1>1. /\ S \in Seq(Cell) /\ Len(S) = Len(s)
      /\ \A i \in 1 .. Len(s) : S[i] = [s[i] EXCEPT !.head = NoHeader]
  BY BytesType
<1>2. /\ F \in Seq(Cell) /\ Len(F) = n
      /\ \A i \in 1 .. n : F[i] = [first[i] EXCEPT !.head = NoHeader]
  BY BytesType
<1>3. /\ R \in Seq(Cell) /\ Len(R) = Len(s) - n
      /\ \A i \in 1 .. Len(R) : R[i] = [rest[i] EXCEPT !.head = NoHeader]
  BY BytesType
<1>4. \A i \in 1 .. n : F[i] = S[i]
  <2>1. \A i \in 1 .. n : i \in 1 .. Len(s)
    OBVIOUS
  <2>2. QED
    BY <1>1, <1>2, <2>1, ZenonT(30)
<1>5. \A i \in 1 .. Len(R) : R[i] = S[n + i]
  <2>1. \A i \in 1 .. Len(R) : i \in 1 .. Len(rest) /\ n + i \in 1 .. Len(s)
    BY <1>3
  <2>2. \A i \in 1 .. Len(R) : rest[i] = s[n + i]
    BY <2>1, Zenon
  <2>3. ASSUME NEW i \in 1 .. Len(R) PROVE R[i] = S[n + i]
    <3>1. R[i] = [rest[i] EXCEPT !.head = NoHeader] /\ rest[i] = s[n + i]
      BY <1>3, <2>2, Zenon
    <3>2. S[n + i] = [s[n + i] EXCEPT !.head = NoHeader]
      BY <1>1, <2>1, Zenon
    <3>3. QED
      BY <3>1, <3>2, Zenon
  <2>4. QED
    BY <2>3
<1>6. n \in 1 .. Len(S) /\ Len(R) = Len(S) - n
  BY <1>1, <1>3
<1>7. S \in Seq(Cell) /\ F \in Seq(Cell) /\ R \in Seq(Cell) /\ Len(F) = n
  BY <1>1, <1>2, <1>3
<1> HIDE DEF S, F, R
<1>9. F \o R = S
  BY <1>4, <1>5, <1>6, <1>7, SplitConcat
<1>8. QED
  BY <1>9 DEF S, F, R

LEMMA EmptyBytes == Bytes(<<>>) = <<>>
<1>1. <<>> \in Seq(Cell) /\ Len(<<>>) = 0
  OBVIOUS
<1>2. Bytes(<<>>) \in Seq(Cell) /\ Len(Bytes(<<>>)) = 0
  BY <1>1, BytesType
<1>3. QED
  BY <1>2

LEMMA ArrivedKept ==
  ASSUME IInv, Next, Listening, Listening', UNCHANGED request
  PROVE  UNCHANGED <<pit, tty>> /\ Arrived' = Arrived
<1> USE CurIsDevice DEF IInv, TypeOK, wiring, serialVars, bufVars, readerVars, portVars
<1>1. pit = cur /\ pit \in Devices /\ Port = tty[pit] /\ Port \in Ttys
  BY DEF HandOver, Listening
<1>2. CASE UNCHANGED <<pit, tty, total_recv_buf, chunk, line>>
  BY <1>2 DEF Arrived, Port
<1>3. CASE SerialStep
  BY <1>2, <1>3 DEF SerialStep, NextDevice, SendRequest, EndOfPoints, Ask, ParseNothing,
                    ParseIncomplete, ParseAgain, ParseComplete, Publish, Listening
<1>4. CASE ReaderTest \/ ReaderWait \/ ReaderSpuriousWake \/ ReaderPick \/ ReaderFlag
  BY <1>2, <1>4 DEF ReaderTest, ReaderWait, ReaderSpuriousWake, ReaderPick, ReaderFlag
<1>5. CASE ReaderRead
  <2>1. source = pit /\ chunk = <<>> /\ UNCHANGED <<pit, tty, total_recv_buf>> /\ Port' = Port
    BY <1>1, <1>5 DEF ReaderRead, HandOver, Port
  <2>2. CASE chunk' = <<>> /\ line' = line
    BY <1>2, <2>1, <2>2
  <2> DEFINE whole == line[Port]
  <2>3. ASSUME NEW n \in 1 .. Len(whole), NEW rest \in Seq(Cell),
               line' = [line EXCEPT ![Port] = rest],
               chunk' \in Seq(Cell), Len(chunk') = n, Len(rest) = Len(whole) - n,
               \A i \in 1 .. n : chunk'[i] = whole[i],
               \A i \in 1 .. Len(rest) : rest[i] = whole[n + i]
        PROVE  Arrived' = Arrived
    <3>1. whole \in Seq(Cell) /\ line'[Port] = rest
      BY <1>1, <2>3
    <3>2. Bytes(chunk') \o Bytes(rest) = Bytes(whole)
      <4> HIDE DEF IInv, TypeOK, whole
      <4>1. QED
        BY <2>3, <3>1, BytesSplit, ZenonT(30)
    <3>3. Arrived' = (total_recv_buf \o Bytes(chunk')) \o Bytes(rest)
      BY <2>1, <3>1, Zenon DEF Arrived, Bytes
    <3>4. /\ total_recv_buf \in Seq(Cell) /\ Bytes(chunk') \in Seq(Cell)
          /\ Bytes(rest) \in Seq(Cell) /\ Bytes(whole) \in Seq(Cell)
      <4>1. total_recv_buf \in Seq(Cell)
        OBVIOUS
      <4> HIDE DEF IInv, TypeOK, whole
      <4>2. QED
        BY <2>3, <3>1, <4>1, BytesType
    <3>5. Arrived' = total_recv_buf \o Bytes(whole)
      <4>1. (total_recv_buf \o Bytes(chunk')) \o Bytes(rest)
              = total_recv_buf \o (Bytes(chunk') \o Bytes(rest))
        BY <3>4, CellsAssociative, ZenonT(30)
      <4>2. QED
        BY <3>2, <3>3, <4>1
    <3>6. Arrived = (total_recv_buf \o <<>>) \o Bytes(whole)
      BY <2>1, EmptyBytes DEF Arrived
    <3>7. total_recv_buf \o <<>> = total_recv_buf
      BY <3>4, ConcatEmptySeq
    <3>8. QED
      BY <3>5, <3>6, <3>7
  <2>4. ReaderRead /\ TypeOK /\ tty[source] = Port
    BY <1>1, <1>5, <2>1
  <2>5. Arrived' = Arrived
    <3> HIDE DEF IInv, TypeOK
    <3>1. QED
      BY <2>2, <2>3, <2>4, ReadSplits
  <2>6. QED
    BY <2>1, <2>5
<1>6. CASE ReaderAppend
  <2>1. /\ total_recv_buf' = total_recv_buf \o Bytes(chunk) /\ chunk' = <<>>
        /\ UNCHANGED <<pit, tty, line>> /\ Port' = Port
    BY <1>6 DEF ReaderAppend, Port
  <2>2. total_recv_buf \o Bytes(chunk) \in Seq(Cell)
    BY BytesType, ConcatProperties
  <2>3. (total_recv_buf \o Bytes(chunk)) \o <<>> = total_recv_buf \o Bytes(chunk)
    BY <2>2, ConcatEmptySeq
  <2>4. Bytes(chunk') = <<>>
    BY <2>1, EmptyBytes
  <2>5. Bytes(line[Port])' = Bytes(line[Port])
    BY <2>1 DEF Bytes
  <2>6. Bytes(chunk)' = <<>>
    BY <2>4 DEF Bytes
  <2>7. QED
    BY <2>1, <2>3, <2>5, <2>6 DEF Arrived
<1>7. ASSUME NEW t \in Ttys, Answer(t) PROVE FALSE
  <2>1. request[t] # 0 /\ request' = [request EXCEPT ![t] = 0]
    BY <1>7, AnswerEffect DEF Points
  <2>2. QED
    BY <2>1
<1>8. QED
  BY <1>3, <1>4, <1>5, <1>6, <1>7, <1>1
     DEF Next, ReaderStep, Listening, ReaderRead, ReaderAppend

(***************************************************************************)
(* However read() splits a reply and wherever serial_thread looks at the   *)
(* buffer meanwhile, the threads lose, double and reorder none of it on    *)
(* its way from the port to total_recv_buf: while a reply is being waited  *)
(* for only the device changes it (TaskSerial.cpp recv_thread, parse-      *)
(* PacketProc).                                                            *)
(***************************************************************************)
ReplyKept ==
    [][Listening /\ Listening' /\ UNCHANGED request
         => UNCHANGED <<pit, tty>> /\ Arrived' = Arrived]_vars

THEOREM ReplyKeptCorrect == Spec => ReplyKept
<1>1. IInv /\ [Next]_vars
        => [Listening /\ Listening' /\ UNCHANGED request
              => UNCHANGED <<pit, tty>> /\ Arrived' = Arrived]_vars
  BY ArrivedKept
<1>2. QED
  BY <1>1, Inductive, PTL DEF Spec, ReplyKept

(***************************************************************************)
(* parsePacketProc never gives up a reply of which nothing more will come: *)
(* nothing is asked again, and no device is polled any more.               *)
(***************************************************************************)
THEOREM NothingMoreIsFinal == Spec => [](NothingMore => []NothingMore)
<1>1. ASSUME IInv, NothingMore, [Next]_vars PROVE NothingMore'
  <2> USE CurIsDevice DEF IInv, TypeOK, wiring, serialVars, bufVars, readerVars, portVars
  <2>1. pit = cur /\ pit \in Devices /\ Listening /\ Verdict = "incomplete" /\ chunk = <<>>
    BY <1>1 DEF NothingMore, HandOver, Listening
  <2>2. ASSUME NEW t \in Ttys, Answer(t) PROVE NothingMore'
    <3>1. /\ request[t] # 0 /\ request' = [request EXCEPT ![t] = 0]
          /\ \E cells \in Seq(Cell) : line' = [line EXCEPT ![t] = Kept(@ \o Told(cells))]
          /\ UNCHANGED <<wiring, serialVars, pit, recvMutex, is_RecvRun, bufVars, readerVars>>
          /\ Units(t) # {}
      <4> HIDE DEF IInv, TypeOK, wiring, serialVars, bufVars, readerVars, portVars
      <4>1. TypeOK /\ Answer(t)
        BY <1>1, <2>2 DEF IInv
      <4>2. QED
        BY <4>1, AnswerEffect DEF Points
    <3>2. t # tty[pit]
      BY <1>1, <3>1 DEF NothingMore
    <3>3. harm # "none" => harm' # "none"
      BY <2>2 DEF Answer, AnswerWhole, AnswerShort, AnswerGarbled
    <3>4. line'[tty[pit]] = line[tty[pit]] /\ request'[tty[pit]] = request[tty[pit]]
      BY <1>1, <2>1, <3>1, <3>2
    <3>5. QED
      BY <1>1, <3>1, <3>3, <3>4 DEF NothingMore, Verdict, Units
  <2>3. CASE SerialStep
    <3>1. CASE ParseNothing \/ ParseIncomplete \/ ParseAgain
      BY <1>1, <2>1, <3>1
         DEF ParseNothing, ParseIncomplete, ParseAgain, NothingMore, Verdict, Units
    <3>2. QED
      BY <2>1, <2>3, <3>1 DEF SerialStep, NextDevice, SendRequest, EndOfPoints, Ask,
                              ParseComplete, Publish, Listening
  <2>4. CASE ReaderTest \/ ReaderWait \/ ReaderSpuriousWake \/ ReaderPick \/ ReaderFlag
    BY <1>1, <2>4 DEF ReaderTest, ReaderWait, ReaderSpuriousWake, ReaderPick, ReaderFlag,
                      NothingMore, Verdict, Units
  <2>5. CASE ReaderRead
    <3>1. source = pit /\ line[tty[pit]] = <<>>
      BY <1>1, <2>1, <2>5 DEF ReaderRead, HandOver, NothingMore
    <3>2. chunk' = <<>> /\ line' = line
      BY <2>5, <3>1 DEF ReaderRead
    <3>3. QED
      BY <1>1, <2>5, <3>2 DEF ReaderRead, NothingMore, Verdict, Units
  <2>6. CASE ReaderAppend
    <3>1. total_recv_buf' = total_recv_buf
      <4>1. Bytes(chunk) = <<>>
        BY <2>1, EmptyBytes
      <4>2. total_recv_buf \o <<>> = total_recv_buf
        BY <1>1, ConcatEmptySeq
      <4>3. QED
        BY <2>6, <4>1, <4>2 DEF ReaderAppend
    <3>2. Verdict' = "incomplete"
      <4>1. CASE total_recv_buf = <<>>
        BY <3>1, <4>1, EmptyIsIncomplete DEF Verdict
      <4>2. CASE total_recv_buf # <<>>
        BY <2>1, <2>6, <3>1, <4>2 DEF ReaderAppend, Verdict
      <4>3. QED
        BY <4>1, <4>2
    <3>3. QED
      BY <1>1, <2>6, <3>2 DEF ReaderAppend, NothingMore, Units
  <2>7. CASE UNCHANGED vars
    BY <1>1, <2>7 DEF vars, NothingMore, Verdict, Units
  <2>8. QED
    BY <1>1, <2>2, <2>3, <2>4, <2>5, <2>6, <2>7 DEF Next, ReaderStep
<1>2. QED
  BY <1>1, Inductive, PTL DEF Spec
=============================================================================
