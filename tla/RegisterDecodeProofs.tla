------------------------ MODULE RegisterDecodeProofs ------------------------
(***************************************************************************)
(* For every table, every set of replies and every content of the          *)
(* registers: a dense window is decoded exactly, every point of a window   *)
(* is decoded once, and no window reads behind a reply that is long enough *)
(* for the points the table has in it.                                     *)
(***************************************************************************)
EXTENDS RegisterDecode, FiniteSetTheorems, TLAPS

-----------------------------------------------------------------------------
(* The operators *)

\* The windows of a title are a sequence of pairs of addresses.
LEMMA WindowsType ==
    ASSUME NEW title \in Titles
    PROVE  Windows(title) \in Seq(Window)
<1>1. \A a, b \in Nat : <<a, b>> \in Window
  BY DEF Window
<1>2. \A w \in Window : <<w>> \in Seq(Window)
  OBVIOUS
<1>3. \A v, w \in Window : <<v, w>> \in Seq(Window)
  OBVIOUS
<1>4. \A u, v, w \in Window : <<u, v, w>> \in Seq(Window)
  OBVIOUS
<1>5. CASE title = "device"
  BY <1>1, <1>2, <1>5 DEF Windows, windowsOf
<1>6. CASE title = "running"
  BY <1>1, <1>3, <1>6 DEF Windows, windowsOf
<1>7. CASE title = "battery"
  BY <1>1, <1>2, <1>7 DEF Windows, windowsOf
<1>8. CASE title = "parameters"
  BY <1>1, <1>4, <1>8 DEF Windows, windowsOf
<1>9. CASE title = "protection"
  BY <1>1, <1>2, <1>9 DEF Windows, windowsOf
<1>10. CASE title = "calibration"
  BY <1>1, <1>3, <1>10 DEF Windows, windowsOf
<1>11. CASE title = "gridMode"
  BY <1>1, <1>3, <1>11 DEF Windows, windowsOf
<1>12. CASE title = "reactive"
  BY <1>1, <1>2, <1>12 DEF Windows, windowsOf
<1>13. CASE title = "lowRide"
  BY <1>1, <1>2, <1>13 DEF Windows, windowsOf
<1>14. CASE title = "highRide"
  BY <1>1, <1>2, <1>14 DEF Windows, windowsOf
<1>15. CASE title = "softStart"
  BY <1>1, <1>2, <1>15 DEF Windows, windowsOf
<1>16. CASE title = "other"
  BY <1>16 DEF Windows, windowsOf
<1> QED
  BY <1>5, <1>6, <1>7, <1>8, <1>9, <1>10, <1>11, <1>12, <1>13, <1>14, <1>15, <1>16 DEF Titles

\* Inside the batches, a reply's registers are the device's.
LEMMA ReplyRegisters ==
    ASSUME NEW batch \in Batches, NEW i \in DOMAIN batch
    PROVE  /\ batch[i] \in Reply
           /\ \A a \in Nat : a < batch[i].regs => batch[i].first + a \in Registers
<1>0. batch \in Seq(Reply)
  BY DecodeAssumption
<1>1. batch[i] \in Reply
  BY <1>0
<1>2. batch[i].first .. batch[i].first + batch[i].regs - 1 \subseteq Registers
  BY DecodeAssumption
<1> QED
  BY <1>1, <1>2 DEF Reply

Readable(reply) == /\ reply \in Reply
                   /\ \A a \in Nat : a < reply.regs => reply.first + a \in Registers

\* A byte of a reply is half of one register.
LEMMA ByteValue ==
    ASSUME NEW reply, Readable(reply), NEW k \in Nat, k < BufLen(reply)
    PROVE  /\ reply.first + k \div 2 \in Registers
           /\ register[reply.first + k \div 2] \in Word
           /\ Byte(reply, k) \in Octet
           /\ ReadByte(reply, k) = {Byte(reply, k)}
<1>1. k \div 2 \in Nat /\ k \div 2 < reply.regs
  BY DEF BufLen, Readable, Reply
<1>2. reply.first + k \div 2 \in Registers
  BY <1>1 DEF Readable
<1>3. register[reply.first + k \div 2] \in Word
  BY <1>2, DecodeAssumption
<1>4. Byte(reply, k) \in Octet
  BY <1>3 DEF Byte, Word, Octet
<1>5. ReadByte(reply, k) = {Byte(reply, k)}
  BY DEF ReadByte
<1> QED
  BY <1>2, <1>3, <1>4, <1>5

\* What is read is a byte, inside the reply or not.
LEMMA ReadByteType ==
    ASSUME NEW reply, Readable(reply), NEW k \in Nat
    PROVE  ReadByte(reply, k) \subseteq Octet
<1>1. CASE k < BufLen(reply)
  BY <1>1, ByteValue
<1>2. CASE ~(k < BufLen(reply))
  BY <1>2, DecodeAssumption DEF ReadByte
<1> QED
  BY <1>1, <1>2

\* Every value is a natural number.
LEMMA ValuesType ==
    ASSUME NEW reply, Readable(reply), NEW p \in Point, NEW k \in Nat
    PROVE  Values(reply, p, k) \subseteq Nat
<1>1. /\ ReadByte(reply, k) \subseteq Octet
      /\ ReadByte(reply, k + 1) \subseteq Octet
      /\ ReadByte(reply, k + 2) \subseteq Octet
      /\ ReadByte(reply, k + 3) \subseteq Octet
  <2>1. k + 1 \in Nat /\ k + 2 \in Nat /\ k + 3 \in Nat
    OBVIOUS
  <2> QED
    BY <2>1, ReadByteType
<1>2. Shorts(reply, k) \subseteq Nat
  <2> SUFFICES ASSUME NEW a \in ReadByte(reply, k), NEW b \in ReadByte(reply, k + 1)
               PROVE  256 * a + b \in Nat
    BY DEF Shorts
  <2>1. a \in Nat /\ b \in Nat
    BY <1>1 DEF Octet
  <2> QED
    BY <2>1
<1>3. ASSUME NEW a \in Octet, NEW d \in Octet
      PROVE  Top(a, d) \in Nat
  BY <1>3 DEF Top, OrByte, Octet
<1>4. Longs(reply, k) \subseteq Nat
  <2> SUFFICES ASSUME NEW a \in ReadByte(reply, k), NEW b \in ReadByte(reply, k + 1),
                      NEW c \in ReadByte(reply, k + 2), NEW d \in ReadByte(reply, k + 3)
               PROVE  65536 * b + 256 * c + Top(a, d) \in Nat
    BY DEF Longs
  <2>1. a \in Octet /\ b \in Nat /\ c \in Nat /\ d \in Octet
    BY <1>1 DEF Octet
  <2>2. Top(a, d) \in Nat
    BY <2>1, <1>3
  <2> QED
    BY <2>1, <2>2
<1>5. ReadByte(reply, k) \subseteq Nat
  BY <1>1 DEF Octet
<1>6. p.dataType \in DataTypes
  BY DEF Point
<1> QED
  BY <1>2, <1>4, <1>5, <1>6 DEF Values, Short, Long, DataTypes

LEMMA WidthType ==
    ASSUME NEW p \in Point
    PROVE  Width(p) \in Nat
BY DEF Width, Point, DataTypes

\* Two bytes from an even position on are the register there.
LEMMA ShortsExact ==
    ASSUME NEW reply, Readable(reply), NEW r \in Nat, r < reply.regs
    PROVE  Shorts(reply, 2 * r) = {register[reply.first + r]}
<1> DEFINE word == register[reply.first + r]
<1>1. /\ 2 * r \in Nat /\ 2 * r + 1 \in Nat
      /\ 2 * r < BufLen(reply) /\ 2 * r + 1 < BufLen(reply)
  BY DEF BufLen, Readable, Reply
<1>2. (2 * r) \div 2 = r /\ (2 * r + 1) \div 2 = r /\ (2 * r) % 2 = 0 /\ (2 * r + 1) % 2 = 1
  OBVIOUS
<1>3. word \in Word
  BY <1>1, <1>2, ByteValue
<1>4. Byte(reply, 2 * r) = word \div 256 /\ Byte(reply, 2 * r + 1) = word % 256
  BY <1>2 DEF Byte
<1>5. 256 * (word \div 256) + (word % 256) = word
  <2>1. \A w \in Nat : 256 * (w \div 256) + (w % 256) = w
    OBVIOUS
  <2>2. word \in Nat
    BY <1>3 DEF Word
  <2> QED
    BY <2>1, <2>2
<1>6. /\ ReadByte(reply, 2 * r) = {word \div 256}
      /\ ReadByte(reply, 2 * r + 1) = {word % 256}
  BY <1>1, <1>4, ByteValue
<1>7. Shorts(reply, 2 * r) = {256 * (word \div 256) + (word % 256)}
  BY <1>6 DEF Shorts
<1> QED
  BY <1>5, <1>7

-----------------------------------------------------------------------------
(* Types *)

LEMMA InitType == Init => TypeOK
<1> SUFFICES ASSUME Init PROVE TypeOK
  OBVIOUS
<1>1. v_rtSrcInfo \in Seq(Reply) /\ v_points \in Seq(Point)
  BY DecodeAssumption DEF Init
<1>2. Len(v_rtSrcInfo) \in Nat /\ Len(v_points) \in Nat
  BY <1>1
<1> QED
  BY <1>1, <1>2 DEF Init, TypeOK, Window, Item

\* The reply at hand is one of a batch.
LEMMA ItReadable ==
    ASSUME TypeOK, cur <= Len(v_rtSrcInfo)
    PROVE  /\ Readable(it)
           /\ it.title \in Titles
           /\ cur \in DOMAIN v_rtSrcInfo
<1>1. v_rtSrcInfo \in Seq(Reply) /\ v_rtSrcInfo \in Batches
  BY DecodeAssumption DEF TypeOK
<1>2. cur \in DOMAIN v_rtSrcInfo
  BY <1>1 DEF TypeOK
<1> QED
  BY <1>1, <1>2, ReplyRegisters DEF it, Readable, Reply

LEMMA NextType ==
    ASSUME TypeOK, [Next]_vars
    PROVE  TypeOK'
<1>0. /\ v_rtSrcInfo \in Seq(Reply) /\ v_points \in Seq(Point)
      /\ Len(v_rtSrcInfo) \in Nat /\ Len(v_points) \in Nat
  <2>1. v_rtSrcInfo \in Seq(Reply) /\ v_points \in Seq(Point)
    BY DecodeAssumption DEF TypeOK
  <2> QED
    BY <2>1
<1>1. CASE NextReply
  BY <1>0, <1>1, ItReadable, WindowsType DEF NextReply, TypeOK
<1>2. CASE EndOfWindows
  BY <1>0, <1>2 DEF EndOfWindows, TypeOK
<1>3. CASE CallRefused
  BY <1>0, <1>3 DEF CallRefused, TypeOK
<1>4. CASE CallDecode
  BY <1>0, <1>4 DEF CallDecode, TypeOK
<1>5. CASE SkipPoint
  BY <1>0, <1>5 DEF SkipPoint, TypeOK
<1>6. CASE DecodePoint
  <2>1. pos \in DOMAIN v_points /\ v_points[pos] \in Point /\ pos \in Nat /\ pos + 1 \in 0 .. Len(v_points) + 1
    <3>1. pos # 0
      BY <1>6 DEF DecodePoint, TypeOK
    <3> QED
      BY <1>0, <1>6, <3>1 DEF DecodePoint, TypeOK
  <2>2. Head(windows) \in Window
    BY <1>6 DEF DecodePoint, TypeOK
  <2>3. PICK value \in Values(it, v_points[pos], count) :
            v_singleRTSrcInfo' = Append(v_singleRTSrcInfo,
              [from |-> cur, window |-> Head(windows), point |-> pos, value |-> value])
    BY <1>6 DEF DecodePoint
  <2>4. cur <= Len(v_rtSrcInfo) /\ cur \in Nat /\ count \in Nat
    BY <1>0, <1>6 DEF DecodePoint, TypeOK
  <2>5. value \in Nat
    BY <2>1, <2>4, ItReadable, ValuesType
  <2>6. v_singleRTSrcInfo' \in Seq(Item)
    BY <2>1, <2>2, <2>3, <2>4, <2>5 DEF Item, TypeOK
  <2>7. count' \in Nat
    BY <1>6, <2>1, <2>4, WidthType DEF DecodePoint
  <2> QED
    BY <1>6, <2>1, <2>6, <2>7 DEF DecodePoint, TypeOK
<1>7. CASE EndOfPoints
  BY <1>0, <1>7 DEF EndOfPoints, TypeOK
<1>8. CASE UNCHANGED vars
  BY <1>8 DEF vars, TypeOK
<1> QED
  BY <1>1, <1>2, <1>3, <1>4, <1>5, <1>6, <1>7, <1>8 DEF Next

(***************************************************************************)
(* Every variable keeps its type: the loops stay within the table and the  *)
(* replies (handleAllRecvData, handleRecvData).                            *)
(***************************************************************************)
THEOREM TypeCorrect == Spec => []TypeOK
BY InitType, NextType, PTL DEF Spec

-----------------------------------------------------------------------------
(* The loop over the table *)

(***************************************************************************)
(* In a dense window, before its first point no byte is taken; behind one  *)
(* of its points the next byte is that of the next register.               *)
(***************************************************************************)
Counting ==
    (step = "point" /\ Dense(it, Head(windows))) =>
        /\ (\A j \in 1 .. pos - 1 : ~Inside(v_points[j], Head(windows))) => count = 0
        /\ (pos > 1 /\ Inside(v_points[pos - 1], Head(windows)))
              => count = 2 * (Merged(v_points[pos - 1]) - it.first + 1)

\* At a point of a dense window, count is where its register is.
LEMMA CountAtPoint ==
    ASSUME TypeOK, Counting, step = "point", pos <= Len(v_points),
           Dense(it, Head(windows)), Inside(v_points[pos], Head(windows))
    PROVE  /\ Short(v_points[pos])
           /\ \E r \in Nat : /\ r < it.regs
                            /\ count = 2 * r
                            /\ Merged(v_points[pos]) = it.first + r
<1> DEFINE address == Merged(v_points[pos])
           w == Head(windows)
<1>1. pos \in DOMAIN v_points /\ pos \in Nat /\ pos # 0
  <2>1. v_points \in Seq(Point)
    BY DecodeAssumption
  <2> QED
    BY <2>1 DEF TypeOK
<1>2. Readable(it) /\ it.first \in Nat /\ it.regs \in Nat
  BY ItReadable DEF TypeOK, Readable, Reply
<1>3. /\ Short(v_points[pos])
      /\ address \in it.first .. it.first + it.regs - 1
      /\ IF address = it.first
         THEN \A j \in 1 .. pos - 1 : ~Inside(v_points[j], w)
         ELSE /\ pos > 1
              /\ Inside(v_points[pos - 1], w)
              /\ Merged(v_points[pos - 1]) = address - 1
  BY <1>1 DEF Dense
<1>4. address \in Int /\ address - it.first \in Nat /\ address - it.first < it.regs
  BY <1>2, <1>3
<1>5. CASE address = it.first
  <2>1. count = 0
    BY <1>3, <1>5 DEF Counting
  <2> QED
    BY <1>2, <1>3, <1>4, <1>5, <2>1
<1>6. CASE address # it.first
  <2>1. count = 2 * ((address - 1) - it.first + 1)
    BY <1>3, <1>6 DEF Counting
  <2>2. count = 2 * (address - it.first)
    BY <1>2, <1>4, <2>1
  <2>3. address = it.first + (address - it.first)
    BY <1>2, <1>4
  <2> QED
    BY <1>3, <1>4, <2>2, <2>3
<1> QED
  BY <1>5, <1>6

LEMMA NextCounting ==
    ASSUME TypeOK, Counting, [Next]_vars
    PROVE  Counting'
<1> DEFINE w == Head(windows)
<1>0. pos \in Nat
  BY DEF TypeOK
<1>1. CASE NextReply
  BY <1>1 DEF NextReply, Counting
<1>2. CASE EndOfWindows
  BY <1>2 DEF EndOfWindows, Counting
<1>3. CASE CallRefused
  BY <1>3 DEF CallRefused, Counting
<1>4. CASE CallDecode
  BY <1>4 DEF CallDecode, Counting
<1>5. CASE SkipPoint
  <2> SUFFICES ASSUME Dense(it, w)
               PROVE  /\ (\A j \in 1 .. pos : ~Inside(v_points[j], w)) => count = 0
                      /\ ~Inside(v_points[pos], w)
    BY <1>0, <1>5 DEF SkipPoint, Counting, it
  <2>1. \A j \in 1 .. pos - 1 : j \in 1 .. pos
    BY <1>0
  <2> QED
    BY <1>5, <2>1 DEF SkipPoint, Counting
<1>6. CASE DecodePoint
  <2> SUFFICES ASSUME Dense(it, w)
               PROVE  /\ ~(\A j \in 1 .. pos : ~Inside(v_points[j], w))
                      /\ count' = 2 * (Merged(v_points[pos]) - it.first + 1)
    <3>1. pos' - 1 = pos
      BY <1>0, <1>6 DEF DecodePoint
    <3> QED
      BY <1>6, <3>1 DEF DecodePoint, Counting, it
  <2>1. pos \in 1 .. pos /\ Inside(v_points[pos], w)
    BY <1>0, <1>6 DEF DecodePoint, TypeOK
  <2>2. PICK r \in Nat : count = 2 * r /\ Merged(v_points[pos]) = it.first + r
    BY <1>6, CountAtPoint DEF DecodePoint
  <2>3. count' = count + 2
    BY <1>6, CountAtPoint DEF DecodePoint, Short, Width
  <2>4. it.first \in Nat
    BY <1>6, ItReadable DEF DecodePoint, TypeOK, Readable, Reply
  <2> QED
    BY <2>1, <2>2, <2>3, <2>4
<1>7. CASE EndOfPoints
  BY <1>7 DEF EndOfPoints, Counting
<1>8. CASE UNCHANGED vars
  BY <1>8 DEF vars, Counting, it
<1> QED
  BY <1>1, <1>2, <1>3, <1>4, <1>5, <1>6, <1>7, <1>8 DEF Next

LEMMA NextDenseExact ==
    ASSUME TypeOK, Counting, DenseExact, [Next]_vars
    PROVE  DenseExact'
<1>1. ASSUME UNCHANGED <<v_rtSrcInfo, v_singleRTSrcInfo>>
      PROVE  DenseExact'
  BY <1>1 DEF DenseExact
<1>2. CASE DecodePoint
  <2>1. PICK value \in Values(it, v_points[pos], count) :
            v_singleRTSrcInfo' = Append(v_singleRTSrcInfo,
              [from |-> cur, window |-> Head(windows), point |-> pos, value |-> value])
    BY <1>2 DEF DecodePoint
  <2> DEFINE new == [from |-> cur, window |-> Head(windows), point |-> pos, value |-> value]
             last == Len(v_singleRTSrcInfo) + 1
  <2>2. /\ DOMAIN v_singleRTSrcInfo' = DOMAIN v_singleRTSrcInfo \cup {last}
        /\ v_singleRTSrcInfo'[last] = new
        /\ \A k \in DOMAIN v_singleRTSrcInfo : v_singleRTSrcInfo'[k] = v_singleRTSrcInfo[k]
    BY <2>1 DEF TypeOK
  <2>3. ASSUME Dense(it, Head(windows))
        PROVE  value = register[Merged(v_points[pos])]
    <3>1. PICK r \in Nat : /\ r < it.regs
                           /\ count = 2 * r
                           /\ Merged(v_points[pos]) = it.first + r
      BY <1>2, <2>3, CountAtPoint DEF DecodePoint
    <3>2. value \in Shorts(it, count)
      BY <1>2, <2>1, <2>3, CountAtPoint DEF DecodePoint, Values
    <3>3. Readable(it)
      BY <1>2, ItReadable DEF DecodePoint, TypeOK
    <3> QED
      BY <3>1, <3>2, <3>3, ShortsExact
  <2> SUFFICES ASSUME NEW i \in DOMAIN v_rtSrcInfo,
                      NEW n \in DOMAIN Windows(v_rtSrcInfo[i].title),
                      Dense(v_rtSrcInfo[i], Windows(v_rtSrcInfo[i].title)[n]),
                      NEW k \in DOMAIN v_singleRTSrcInfo',
                      v_singleRTSrcInfo'[k].from = i,
                      v_singleRTSrcInfo'[k].window = Windows(v_rtSrcInfo[i].title)[n]
               PROVE  v_singleRTSrcInfo'[k].value
                        = register[Merged(v_points[v_singleRTSrcInfo'[k].point])]
    BY <1>2 DEF DecodePoint, DenseExact
  <2>4. CASE k \in DOMAIN v_singleRTSrcInfo
    BY <2>2, <2>4 DEF DenseExact
  <2>5. CASE k = last
    BY <2>2, <2>3, <2>5 DEF it
  <2> QED
    BY <2>2, <2>4, <2>5
<1> QED
  BY <1>1, <1>2 DEF Next, NextReply, EndOfWindows, CallRefused, CallDecode, SkipPoint,
                    EndOfPoints, vars

(***************************************************************************)
(* A window whose points lie in the table as their registers do in the     *)
(* reply is decoded exactly, whatever the table, the replies and the       *)
(* contents: handleRecvData finds each register by counting bytes.         *)
(***************************************************************************)
THEOREM DenseExactCorrect == Spec => []DenseExact
<1>1. Init => TypeOK /\ Counting /\ DenseExact
  BY InitType DEF Init, Counting, DenseExact
<1>2. TypeOK /\ Counting /\ DenseExact /\ [Next]_vars => (TypeOK /\ Counting /\ DenseExact)'
  BY NextType, NextCounting, NextDenseExact
<1> QED
  BY <1>1, <1>2, PTL DEF Spec

-----------------------------------------------------------------------------
(* The windows and points that have been walked *)

\* No title names a window twice.
LEMMA WindowsDistinct ==
    ASSUME NEW title \in Titles, NEW a \in DOMAIN Windows(title), NEW b \in DOMAIN Windows(title),
           Windows(title)[a] = Windows(title)[b]
    PROVE  a = b
<1>1. CASE title \in {"device", "battery", "protection", "reactive", "lowRide", "highRide",
                      "softStart"}
  <2>1. \A w : DOMAIN <<w>> = {1}
    OBVIOUS
  <2>2. /\ Windows("device") = << <<3300, 3321>> >>
        /\ Windows("battery") = << <<3680, 3694>> >>
        /\ Windows("protection") = << <<3800, 3845>> >>
        /\ Windows("reactive") = << <<8030, 8040>> >>
        /\ Windows("lowRide") = << <<8100, 8110>> >>
        /\ Windows("highRide") = << <<8150, 8159>> >>
        /\ Windows("softStart") = << <<8200, 8204>> >>
    BY DEF Windows, windowsOf
  <2>3. DOMAIN Windows(title) = {1}
    BY <1>1, <2>1, <2>2
  <2> QED
    BY <2>3
<1>p. \A w, x : DOMAIN <<w, x>> = {1, 2} /\ <<w, x>>[1] = w /\ <<w, x>>[2] = x
  OBVIOUS
<1>2. CASE title \in {"running", "calibration", "gridMode"}
  <2>1. /\ Windows("running") = << <<3600, 3614>>, <<3618, 3667>> >>
        /\ Windows("calibration") = << <<5000, 5017>>, <<5024, 5037>> >>
        /\ Windows("gridMode") = << <<8000, 8012>>, <<8014, 8019>> >>
    BY DEF Windows, windowsOf
  <2>2. /\ <<3600, 3614>> # <<3618, 3667>>
        /\ <<5000, 5017>> # <<5024, 5037>>
        /\ <<8000, 8012>> # <<8014, 8019>>
    OBVIOUS
  <2>3. PICK w, x : Windows(title) = <<w, x>> /\ w # x
    BY <1>2, <2>1, <2>2
  <2>4. DOMAIN Windows(title) = {1, 2} /\ Windows(title)[1] # Windows(title)[2]
    BY <1>p, <2>3
  <2> QED
    BY <2>4
<1>3. CASE title = "parameters"
  <2>1. Windows("parameters") = << <<3900, 3904>>, <<3906, 3923>>, <<3929, 3955>> >>
    BY DEF Windows, windowsOf
  <2>2. /\ DOMAIN Windows("parameters") = {1, 2, 3}
        /\ Windows("parameters")[1] = <<3900, 3904>>
        /\ Windows("parameters")[2] = <<3906, 3923>>
        /\ Windows("parameters")[3] = <<3929, 3955>>
    BY <2>1
  <2>3. /\ <<3900, 3904>> # <<3906, 3923>>
        /\ <<3900, 3904>> # <<3929, 3955>>
        /\ <<3906, 3923>> # <<3929, 3955>>
    OBVIOUS
  <2> QED
    BY <1>3, <2>2, <2>3
<1>4. CASE title = "other"
  <2>1. DOMAIN Windows(title) = {}
    BY <1>4 DEF Windows, windowsOf
  <2> QED
    BY <2>1
<1> QED
  BY <1>1, <1>2, <1>3, <1>4 DEF Titles

Ws(i) == Windows(v_rtSrcInfo[i].title)

\* How many windows of the reply at hand are behind.
done == Len(Ws(cur)) - Len(windows)

Wanted(i, n, p) == ~v_rtSrcInfo[i].refused /\ Inside(v_points[p], Ws(i)[n])

\* Point p has been walked for window n of reply i.
Walked(i, n, p) ==
    \/ i < cur
    \/ i = cur /\ step # "reply" /\ n <= done
    \/ i = cur /\ step = "point" /\ n = done + 1 /\ p < pos

\* The windows left are the last ones of the title, and refused replies are not walked.
WindowsLeft ==
    step # "reply" =>
        /\ Len(windows) <= Len(Ws(cur))
        /\ \A j \in DOMAIN windows : windows[j] = Ws(cur)[done + j]
        /\ step = "point" => ~it.refused

ItemsWalked ==
    \A k \in DOMAIN v_singleRTSrcInfo :
        \E i \in DOMAIN v_rtSrcInfo : \E n \in DOMAIN Ws(i) : \E p \in DOMAIN v_points :
            Walked(i, n, p) /\ Wanted(i, n, p) /\ ItemOf(k) = <<i, Ws(i)[n], p>>

WalkedHaveItems ==
    \A i \in DOMAIN v_rtSrcInfo : \A n \in DOMAIN Ws(i) : \A p \in DOMAIN v_points :
        Walked(i, n, p) /\ Wanted(i, n, p) =>
            \E k \in DOMAIN v_singleRTSrcInfo : ItemOf(k) = <<i, Ws(i)[n], p>>

NoItemTwice == \A k, m \in DOMAIN v_singleRTSrcInfo : ItemOf(k) = ItemOf(m) => k = m

WalkInv == WindowsLeft /\ ItemsWalked /\ WalkedHaveItems /\ NoItemTwice

LEMMA TitleKnown ==
    ASSUME TypeOK, NEW i \in DOMAIN v_rtSrcInfo
    PROVE  v_rtSrcInfo[i].title \in Titles
<1>1. v_rtSrcInfo[i] \in Reply
  BY ReplyRegisters DEF TypeOK
<1> QED
  BY <1>1 DEF Reply

\* The windows of the reply at hand, and the one at hand.
LEMMA CurrentWindow ==
    ASSUME TypeOK, WindowsLeft, step # "reply"
    PROVE  /\ cur \in DOMAIN v_rtSrcInfo
           /\ it = v_rtSrcInfo[cur]
           /\ Len(Ws(cur)) \in Nat /\ Len(windows) \in Nat /\ done \in Nat
           /\ DOMAIN Ws(cur) = 1 .. Len(Ws(cur))
           /\ windows = <<>> => done = Len(Ws(cur))
           /\ windows # <<>> => done + 1 \in DOMAIN Ws(cur) /\ Head(windows) = Ws(cur)[done + 1]
<1>1. /\ cur \in DOMAIN v_rtSrcInfo
      /\ it.title \in Titles
  BY ItReadable DEF TypeOK
<1>2. Ws(cur) \in Seq(Window)
  BY <1>1, WindowsType DEF Ws, it
<1>3. /\ Len(Ws(cur)) \in Nat /\ Len(windows) \in Nat /\ done \in Nat
      /\ DOMAIN Ws(cur) = 1 .. Len(Ws(cur))
      /\ DOMAIN windows = 1 .. Len(windows)
  <2>1. /\ Len(Ws(cur)) \in Nat /\ Len(windows) \in Nat
        /\ DOMAIN Ws(cur) = 1 .. Len(Ws(cur))
        /\ DOMAIN windows = 1 .. Len(windows)
    BY <1>2 DEF TypeOK
  <2> QED
    BY <2>1 DEF WindowsLeft, done
<1>4. ASSUME windows = <<>> PROVE done = Len(Ws(cur))
  <2>1. Len(windows) = 0
    BY <1>4
  <2> QED
    BY <1>3, <2>1 DEF done
<1>5. ASSUME windows # <<>>
      PROVE  done + 1 \in DOMAIN Ws(cur) /\ Head(windows) = Ws(cur)[done + 1]
  <2>1. Len(windows) # 0 /\ Head(windows) = windows[1]
    BY <1>5 DEF TypeOK
  <2>2. 1 \in DOMAIN windows
    BY <1>3, <2>1
  <2>3. Head(windows) = Ws(cur)[done + 1]
    BY <2>1, <2>2 DEF WindowsLeft
  <2>4. done + 1 \in 1 .. Len(Ws(cur))
    BY <1>3, <2>1 DEF done
  <2> QED
    BY <1>3, <2>3, <2>4
<1> QED
  BY <1>1, <1>3, <1>4, <1>5 DEF it

\* The batch and the build stay.
LEMMA SameBatch ==
    ASSUME [Next]_vars
    PROVE  /\ v_rtSrcInfo' = v_rtSrcInfo
           /\ \A i : Ws(i)' = Ws(i)
           /\ \A i, n, p : Wanted(i, n, p)' = Wanted(i, n, p)
<1>1. v_rtSrcInfo' = v_rtSrcInfo
  BY DEF Next, NextReply, EndOfWindows, CallRefused, CallDecode, SkipPoint, DecodePoint,
         EndOfPoints, vars
<1> QED
  BY <1>1 DEF Ws, Wanted

\* One window is done when the list of those left loses its head.
LEMMA TailDone ==
    ASSUME TypeOK, WindowsLeft, step # "reply", windows # <<>>, windows' = Tail(windows),
           UNCHANGED <<v_rtSrcInfo, cur>>
    PROVE  /\ Len(windows') <= Len(Ws(cur))
           /\ done' = done + 1
           /\ \A j \in DOMAIN windows' : windows'[j] = Ws(cur)[done' + j]
<1>1. /\ Len(windows) \in Nat /\ Len(Ws(cur)) \in Nat /\ done \in Nat
      /\ Ws(cur)' = Ws(cur)
  BY CurrentWindow DEF Ws
<1>2. /\ Len(windows') = Len(windows) - 1
      /\ \A j \in DOMAIN windows' : j \in Nat /\ j + 1 \in DOMAIN windows /\ windows'[j] = windows[j + 1]
  BY DEF TypeOK
<1>3. Len(windows) <= Len(Ws(cur))
  BY DEF WindowsLeft
<1>4. done' = done + 1
  BY <1>1, <1>2 DEF done
<1>5. \A j \in DOMAIN windows' : windows'[j] = Ws(cur)[done' + j]
  <2> SUFFICES ASSUME NEW j \in DOMAIN windows' PROVE windows'[j] = Ws(cur)[done' + j]
    OBVIOUS
  <2>1. windows'[j] = Ws(cur)[done + (j + 1)]
    BY <1>2 DEF WindowsLeft
  <2>2. done + (j + 1) = (done + 1) + j
    BY <1>1, <1>2
  <2> QED
    BY <1>4, <2>1, <2>2
<1> QED
  BY <1>1, <1>2, <1>3, <1>4, <1>5

LEMMA WindowsLeftStep ==
    ASSUME TypeOK, WindowsLeft, [Next]_vars
    PROVE  WindowsLeft'
<1>0. v_rtSrcInfo' = v_rtSrcInfo /\ \A i : Ws(i)' = Ws(i)
  BY SameBatch
<1>1. CASE NextReply
  <2>1. windows' = Ws(cur) /\ UNCHANGED <<v_rtSrcInfo, cur>> /\ step' = "window"
    BY <1>1 DEF NextReply, Ws, it
  <2>2. Ws(cur) \in Seq(Window)
    BY <1>1, ItReadable, WindowsType DEF NextReply, Ws, it
  <2>3. Len(Ws(cur)) \in Nat /\ DOMAIN Ws(cur) = 1 .. Len(Ws(cur))
    BY <2>2
  <2>4. Ws(cur)' = Ws(cur)
    BY <2>1 DEF Ws
  <2>5. done' = 0
    BY <2>1, <2>3, <2>4 DEF done
  <2> QED
    BY <2>1, <2>3, <2>4, <2>5 DEF WindowsLeft
<1>2. CASE EndOfWindows
  BY <1>2 DEF EndOfWindows, WindowsLeft
<1>3. CASE CallRefused
  <2>1. /\ step = "window" /\ windows # <<>> /\ windows' = Tail(windows)
        /\ UNCHANGED <<v_rtSrcInfo, cur, step>>
    BY <1>3 DEF CallRefused
  <2>2. Ws(cur)' = Ws(cur)
    BY <2>1 DEF Ws
  <2> QED
    BY <2>1, <2>2, TailDone DEF WindowsLeft
<1>4. CASE EndOfPoints
  <2>1. /\ step = "point" /\ windows' = Tail(windows) /\ step' = "window"
        /\ UNCHANGED <<v_rtSrcInfo, cur>>
    BY <1>4 DEF EndOfPoints
  <2>2. windows # <<>> /\ Ws(cur)' = Ws(cur)
    BY <2>1 DEF TypeOK, Ws
  <2> QED
    BY <2>1, <2>2, TailDone DEF WindowsLeft
<1>5. ASSUME UNCHANGED <<v_rtSrcInfo, cur, windows>>,
             step' = step \/ (step = "window" /\ step' = "point" /\ ~it.refused)
      PROVE  WindowsLeft'
  BY <1>5 DEF WindowsLeft, Ws, done, it
<1>6. CASE CallDecode \/ SkipPoint \/ DecodePoint \/ UNCHANGED vars
  BY <1>5, <1>6 DEF CallDecode, SkipPoint, DecodePoint, vars
<1> QED
  BY <1>1, <1>2, <1>3, <1>4, <1>6 DEF Next

(***************************************************************************)
(* What is walked stays walked, and of what is wanted only the point that  *)
(* is decoded becomes walked by a step.                                    *)
(***************************************************************************)
LEMMA WalkedStep ==
    ASSUME TypeOK, WindowsLeft, [Next]_vars,
           NEW i \in DOMAIN v_rtSrcInfo, NEW n \in DOMAIN Ws(i), NEW p \in DOMAIN v_points
    PROVE  /\ Walked(i, n, p) => Walked(i, n, p)'
           /\ Walked(i, n, p)' /\ Wanted(i, n, p)
                 => Walked(i, n, p) \/ (DecodePoint /\ i = cur /\ n = done + 1 /\ p = pos)
           /\ DecodePoint /\ i = cur /\ n = done + 1 /\ p = pos
                 => Walked(i, n, p)' /\ ~Walked(i, n, p)
<1>0. /\ i \in Nat /\ n \in Nat /\ n >= 1 /\ p \in Nat /\ p >= 1 /\ p <= Len(v_points)
      /\ Len(v_points) \in Nat /\ n <= Len(Ws(i)) /\ Len(Ws(i)) \in Nat
      /\ pos \in Nat /\ cur \in Nat
  <2>1. v_points \in Seq(Point) /\ v_rtSrcInfo \in Seq(Reply)
    BY DecodeAssumption DEF TypeOK
  <2>2. v_rtSrcInfo[i].title \in Titles
    BY TitleKnown
  <2>3. Ws(i) \in Seq(Window)
    BY <2>2, WindowsType DEF Ws
  <2> QED
    BY <2>1, <2>3 DEF TypeOK
<1>1. CASE NextReply
  <2>1. /\ step = "reply" /\ step' = "window" /\ windows' = Ws(cur)
        /\ UNCHANGED <<v_rtSrcInfo, cur>>
    BY <1>1 DEF NextReply, Ws, it
  <2>2. i = cur => done' = 0
    BY <1>0, <2>1 DEF done, Ws
  <2> QED
    BY <1>0, <1>1, <2>1, <2>2 DEF Walked, NextReply, DecodePoint
<1>2. CASE EndOfWindows
  <2>1. step = "window" /\ step' = "reply" /\ cur' = cur + 1 /\ windows = <<>>
    BY <1>2 DEF EndOfWindows
  <2>2. i = cur => n <= done
    BY <1>0, <2>1, CurrentWindow
  <2>3. (i < cur') = (i < cur \/ i = cur)
    BY <1>0, <2>1
  <2> QED
    BY <1>0, <2>1, <2>2, <2>3 DEF Walked, DecodePoint
<1>3. CASE CallRefused
  <2>1. /\ step = "window" /\ step' = "window" /\ windows # <<>> /\ windows' = Tail(windows)
        /\ UNCHANGED <<v_rtSrcInfo, cur>> /\ it.refused
    BY <1>3 DEF CallRefused
  <2>2. done' = done + 1 /\ done \in Nat
    BY <2>1, TailDone, CurrentWindow
  <2>3. i = cur => ~Wanted(i, n, p)
    BY <2>1 DEF Wanted, it
  <2> QED
    BY <1>0, <2>1, <2>2, <2>3 DEF Walked, DecodePoint
<1>4. CASE CallDecode
  <2>1. /\ step = "window" /\ step' = "point" /\ pos' = 1
        /\ UNCHANGED <<v_rtSrcInfo, cur, windows>>
    BY <1>4 DEF CallDecode
  <2>2. done' = done
    BY <2>1 DEF done, Ws
  <2> QED
    BY <1>0, <2>1, <2>2 DEF Walked, DecodePoint
<1>5. CASE SkipPoint \/ DecodePoint
  <2>1. /\ step = "point" /\ step' = "point" /\ pos' = pos + 1
        /\ UNCHANGED <<v_rtSrcInfo, cur, windows>>
    BY <1>5 DEF SkipPoint, DecodePoint
  <2>2. done' = done /\ done \in Nat /\ it = v_rtSrcInfo[cur] /\ Head(windows) = Ws(cur)[done + 1]
    <3>1. windows # <<>>
      BY <2>1 DEF TypeOK
    <3> QED
      BY <2>1, <3>1, CurrentWindow DEF done, Ws
  <2>3. SkipPoint /\ i = cur /\ n = done + 1 /\ p = pos => ~Wanted(i, n, p)
    BY <2>2 DEF SkipPoint, Wanted
  <2>4. (p < pos') = (p < pos \/ p = pos)
    BY <1>0, <2>1
  <2>5. ~(done + 1 <= done) /\ ~(pos < pos) /\ ~(cur < cur)
    BY <1>0, <2>2
  <2> QED
    BY <1>5, <2>1, <2>2, <2>3, <2>4, <2>5 DEF Walked
<1>6. CASE EndOfPoints
  <2>1. /\ step = "point" /\ step' = "window" /\ windows' = Tail(windows) /\ windows # <<>>
        /\ UNCHANGED <<v_rtSrcInfo, cur>> /\ pos > Len(v_points)
    BY <1>6 DEF EndOfPoints, TypeOK
  <2>2. done' = done + 1 /\ done \in Nat
    BY <2>1, TailDone, CurrentWindow
  <2>3. p < pos
    BY <1>0, <2>1
  <2>4. (n <= done') = (n <= done \/ n = done + 1)
    BY <1>0, <2>2
  <2> QED
    BY <2>1, <2>3, <2>4 DEF Walked, DecodePoint
<1>7. CASE UNCHANGED vars
  <2>1. UNCHANGED <<v_rtSrcInfo, cur, windows, step, pos>>
    BY <1>7 DEF vars
  <2>2. done' = done
    BY <2>1 DEF done, Ws
  <2>3. ~DecodePoint
    BY <1>0, <2>1 DEF DecodePoint
  <2> QED
    BY <2>1, <2>2, <2>3 DEF Walked
<1> QED
  BY <1>1, <1>2, <1>3, <1>4, <1>5, <1>6, <1>7 DEF Next

\* A decoded point adds its item behind the others; no other step touches them.
LEMMA ItemsStep ==
    ASSUME TypeOK, WindowsLeft, [Next]_vars
    PROVE  \/ ~DecodePoint /\ UNCHANGED v_singleRTSrcInfo
           \/ /\ DecodePoint
              /\ cur \in DOMAIN v_rtSrcInfo /\ done + 1 \in DOMAIN Ws(cur)
              /\ pos \in DOMAIN v_points /\ Wanted(cur, done + 1, pos)
              /\ \E new : /\ new \notin DOMAIN v_singleRTSrcInfo
                          /\ DOMAIN v_singleRTSrcInfo' = DOMAIN v_singleRTSrcInfo \cup {new}
                          /\ \A k \in DOMAIN v_singleRTSrcInfo : ItemOf(k)' = ItemOf(k)
                          /\ ItemOf(new)' = <<cur, Ws(cur)[done + 1], pos>>
<1>1. CASE DecodePoint
  <2>1. step = "point" /\ windows # <<>> /\ pos <= Len(v_points)
    BY <1>1 DEF DecodePoint, TypeOK
  <2>2. /\ cur \in DOMAIN v_rtSrcInfo /\ done + 1 \in DOMAIN Ws(cur)
        /\ it = v_rtSrcInfo[cur] /\ Head(windows) = Ws(cur)[done + 1]
    BY <2>1, CurrentWindow
  <2>3. pos \in DOMAIN v_points
    <3>1. v_points \in Seq(Point)
      BY DecodeAssumption
    <3> QED
      BY <2>1, <3>1 DEF TypeOK
  <2>4. Wanted(cur, done + 1, pos)
    BY <1>1, <2>1, <2>2 DEF DecodePoint, Wanted, WindowsLeft
  <2>5. PICK value : v_singleRTSrcInfo' = Append(v_singleRTSrcInfo,
            [from |-> cur, window |-> Head(windows), point |-> pos, value |-> value])
    BY <1>1 DEF DecodePoint
  <2>0. PICK last : last = Len(v_singleRTSrcInfo) + 1
    OBVIOUS
  <2>6. /\ last \notin DOMAIN v_singleRTSrcInfo
        /\ DOMAIN v_singleRTSrcInfo' = DOMAIN v_singleRTSrcInfo \cup {last}
        /\ \A k \in DOMAIN v_singleRTSrcInfo : v_singleRTSrcInfo'[k] = v_singleRTSrcInfo[k]
        /\ v_singleRTSrcInfo'[last]
              = [from |-> cur, window |-> Head(windows), point |-> pos, value |-> value]
    BY <2>5, <2>0 DEF TypeOK
  <2>7. /\ \A k \in DOMAIN v_singleRTSrcInfo : ItemOf(k)' = ItemOf(k)
        /\ ItemOf(last)' = <<cur, Ws(cur)[done + 1], pos>>
    BY <2>2, <2>6 DEF ItemOf
  <2> QED
    BY <1>1, <2>2, <2>3, <2>4, <2>6, <2>7
<1>2. CASE ~DecodePoint
  BY <1>2 DEF Next, NextReply, EndOfWindows, CallRefused, CallDecode, SkipPoint, EndOfPoints,
              vars
<1> QED
  BY <1>1, <1>2

LEMMA WalkStep ==
    ASSUME TypeOK, WalkInv, [Next]_vars
    PROVE  WalkInv'
<1> USE DEF WalkInv
<1>0. v_rtSrcInfo' = v_rtSrcInfo
  BY SameBatch
<1>1. CASE ~DecodePoint
  <2>1. UNCHANGED v_singleRTSrcInfo
    BY <1>1, ItemsStep
  <2>2. \A k : ItemOf(k)' = ItemOf(k)
    BY <2>1 DEF ItemOf
  <2>3. ItemsWalked'
    <3> SUFFICES ASSUME NEW k \in DOMAIN v_singleRTSrcInfo
                 PROVE  \E i \in DOMAIN v_rtSrcInfo : \E n \in DOMAIN Ws(i) : \E p \in DOMAIN v_points :
                           Walked(i, n, p)' /\ Wanted(i, n, p) /\ ItemOf(k) = <<i, Ws(i)[n], p>>
      BY <1>0, <2>1, <2>2, SameBatch DEF ItemsWalked
    <3>1. PICK i \in DOMAIN v_rtSrcInfo : \E n \in DOMAIN Ws(i) : \E p \in DOMAIN v_points :
                  Walked(i, n, p) /\ Wanted(i, n, p) /\ ItemOf(k) = <<i, Ws(i)[n], p>>
      BY DEF ItemsWalked
    <3>2. PICK n \in DOMAIN Ws(i), p \in DOMAIN v_points :
                  Walked(i, n, p) /\ Wanted(i, n, p) /\ ItemOf(k) = <<i, Ws(i)[n], p>>
      BY <3>1
    <3>3. Walked(i, n, p)'
      BY <3>2, WalkedStep
    <3> QED
      BY <3>2, <3>3
  <2>4. WalkedHaveItems'
    <3> SUFFICES ASSUME NEW i \in DOMAIN v_rtSrcInfo, NEW n \in DOMAIN Ws(i), NEW p \in DOMAIN v_points,
                        Walked(i, n, p)', Wanted(i, n, p)
                 PROVE  \E k \in DOMAIN v_singleRTSrcInfo : ItemOf(k) = <<i, Ws(i)[n], p>>
      BY <1>0, <2>1, <2>2, SameBatch DEF WalkedHaveItems
    <3>1. Walked(i, n, p)
      BY <1>1, WalkedStep
    <3> QED
      BY <3>1 DEF WalkedHaveItems
  <2>5. NoItemTwice'
    BY <2>1, <2>2 DEF NoItemTwice
  <2> QED
    BY <2>3, <2>4, <2>5, WindowsLeftStep
<1>2. CASE DecodePoint
  <2>1. /\ cur \in DOMAIN v_rtSrcInfo /\ done + 1 \in DOMAIN Ws(cur)
        /\ pos \in DOMAIN v_points /\ Wanted(cur, done + 1, pos)
    BY <1>2, ItemsStep
  <2>2. PICK new : /\ new \notin DOMAIN v_singleRTSrcInfo
                   /\ DOMAIN v_singleRTSrcInfo' = DOMAIN v_singleRTSrcInfo \cup {new}
                   /\ \A k \in DOMAIN v_singleRTSrcInfo : ItemOf(k)' = ItemOf(k)
                   /\ ItemOf(new)' = <<cur, Ws(cur)[done + 1], pos>>
    BY <1>2, ItemsStep
  <2>3. \A i \in DOMAIN v_rtSrcInfo : \A n \in DOMAIN Ws(i) : \A p \in DOMAIN v_points :
           i = cur /\ n = done + 1 /\ p = pos => Walked(i, n, p)' /\ ~Walked(i, n, p)
    BY <1>2, WalkedStep
  <2>4. ItemsWalked'
    <3> SUFFICES ASSUME NEW k \in DOMAIN v_singleRTSrcInfo'
                 PROVE  \E i \in DOMAIN v_rtSrcInfo : \E n \in DOMAIN Ws(i) : \E p \in DOMAIN v_points :
                           Walked(i, n, p)' /\ Wanted(i, n, p) /\ ItemOf(k)' = <<i, Ws(i)[n], p>>
      BY <1>0, SameBatch DEF ItemsWalked
    <3>1. CASE k = new
      <4>1. PICK i \in DOMAIN v_rtSrcInfo : i = cur
        BY <2>1
      <4>2. PICK n \in DOMAIN Ws(i), p \in DOMAIN v_points : n = done + 1 /\ p = pos
        BY <2>1, <4>1
      <4>3. Walked(i, n, p)' /\ Wanted(i, n, p) /\ ItemOf(k)' = <<i, Ws(i)[n], p>>
        BY <2>1, <2>2, <2>3, <3>1, <4>1, <4>2
      <4> QED
        BY <4>3
    <3>2. CASE k \in DOMAIN v_singleRTSrcInfo
      <4>1. PICK i \in DOMAIN v_rtSrcInfo : \E n \in DOMAIN Ws(i) : \E p \in DOMAIN v_points :
                    Walked(i, n, p) /\ Wanted(i, n, p) /\ ItemOf(k) = <<i, Ws(i)[n], p>>
        BY <3>2 DEF ItemsWalked
      <4>2. PICK n \in DOMAIN Ws(i), p \in DOMAIN v_points :
                    Walked(i, n, p) /\ Wanted(i, n, p) /\ ItemOf(k) = <<i, Ws(i)[n], p>>
        BY <4>1
      <4>3. Walked(i, n, p)'
        BY <4>2, WalkedStep
      <4>4. ItemOf(k)' = <<i, Ws(i)[n], p>>
        BY <2>2, <3>2, <4>2
      <4> QED
        BY <4>2, <4>3, <4>4
    <3> QED
      BY <2>2, <3>1, <3>2
  <2>5. WalkedHaveItems'
    <3> SUFFICES ASSUME NEW i \in DOMAIN v_rtSrcInfo, NEW n \in DOMAIN Ws(i), NEW p \in DOMAIN v_points,
                        Walked(i, n, p)', Wanted(i, n, p)
                 PROVE  \E k \in DOMAIN v_singleRTSrcInfo' : ItemOf(k)' = <<i, Ws(i)[n], p>>
      BY <1>0, SameBatch DEF WalkedHaveItems
    <3>1. CASE Walked(i, n, p)
      <4>1. PICK k \in DOMAIN v_singleRTSrcInfo : ItemOf(k) = <<i, Ws(i)[n], p>>
        BY <3>1 DEF WalkedHaveItems
      <4>2. k \in DOMAIN v_singleRTSrcInfo' /\ ItemOf(k)' = <<i, Ws(i)[n], p>>
        BY <2>2, <4>1
      <4> QED
        BY <4>2
    <3>2. CASE i = cur /\ n = done + 1 /\ p = pos
      <4>1. new \in DOMAIN v_singleRTSrcInfo' /\ ItemOf(new)' = <<i, Ws(i)[n], p>>
        BY <2>2, <3>2
      <4> QED
        BY <4>1
    <3> QED
      BY <3>1, <3>2, WalkedStep
  <2>6. \A k \in DOMAIN v_singleRTSrcInfo : ItemOf(k) # <<cur, Ws(cur)[done + 1], pos>>
    <3> SUFFICES ASSUME NEW k \in DOMAIN v_singleRTSrcInfo,
                        ItemOf(k) = <<cur, Ws(cur)[done + 1], pos>>
                 PROVE  FALSE
      OBVIOUS
    <3>1. PICK i \in DOMAIN v_rtSrcInfo : \E n \in DOMAIN Ws(i) : \E p \in DOMAIN v_points :
                  Walked(i, n, p) /\ ItemOf(k) = <<i, Ws(i)[n], p>>
      BY DEF ItemsWalked
    <3>2. PICK n \in DOMAIN Ws(i), p \in DOMAIN v_points :
                  Walked(i, n, p) /\ ItemOf(k) = <<i, Ws(i)[n], p>>
      BY <3>1
    <3>3. i = cur /\ Ws(cur)[n] = Ws(cur)[done + 1] /\ p = pos
      BY <3>2
    <3>4. v_rtSrcInfo[cur].title \in Titles
      BY <2>1, TitleKnown
    <3>5. n = done + 1
      BY <2>1, <3>2, <3>3, <3>4, WindowsDistinct DEF Ws
    <3> QED
      BY <2>1, <2>3, <3>2, <3>3, <3>5
  <2>7. NoItemTwice'
    BY <2>2, <2>6 DEF NoItemTwice
  <2> QED
    BY <2>4, <2>5, <2>7, WindowsLeftStep
<1> QED
  BY <1>1, <1>2

LEMMA WalkInit == Init => TypeOK /\ WalkInv
<1> SUFFICES ASSUME Init PROVE TypeOK /\ WalkInv
  OBVIOUS
<1>1. TypeOK
  BY InitType
<1>2. DOMAIN v_singleRTSrcInfo = {}
  BY DEF Init
<1>3. \A i, n, p : i \in DOMAIN v_rtSrcInfo => ~Walked(i, n, p)
  <2>1. v_rtSrcInfo \in Seq(Reply)
    BY DecodeAssumption DEF Init
  <2> QED
    BY <2>1 DEF Init, Walked
<1>4. WindowsLeft
  BY DEF Init, WindowsLeft
<1> QED
  BY <1>1, <1>2, <1>3, <1>4 DEF WalkInv, ItemsWalked, WalkedHaveItems, NoItemTwice

(***************************************************************************)
(* However long the table and the batch: when all replies are handled,     *)
(* each accepted one has produced exactly one item per point in each of    *)
(* its windows, and a refused one none.                                    *)
(***************************************************************************)
THEOREM DecodedOnceCorrect == Spec => []DecodedOnce
<1>1. Init => TypeOK /\ WalkInv
  BY WalkInit
<1>2. TypeOK /\ WalkInv /\ [Next]_vars => (TypeOK /\ WalkInv)'
  BY NextType, WalkStep
<1>3. TypeOK /\ WalkInv => DecodedOnce
  <2> SUFFICES ASSUME TypeOK, WalkInv, cur > Len(v_rtSrcInfo),
                      NEW i \in DOMAIN v_rtSrcInfo, NEW p \in DOMAIN v_points,
                      NEW n \in DOMAIN Ws(i)
               PROVE  (\E k \in DOMAIN v_singleRTSrcInfo : ItemOf(k) = <<i, Ws(i)[n], p>>)
                        <=> Wanted(i, n, p)
    BY DEF DecodedOnce, WalkInv, NoItemTwice, Ws, Wanted
  <2>1. Walked(i, n, p)
    <3>1. v_rtSrcInfo \in Seq(Reply)
      BY DecodeAssumption DEF TypeOK
    <3> QED
      BY <3>1 DEF Walked, TypeOK
  <2>2. ASSUME NEW k \in DOMAIN v_singleRTSrcInfo, ItemOf(k) = <<i, Ws(i)[n], p>>
        PROVE  Wanted(i, n, p)
    <3>1. PICK j \in DOMAIN v_rtSrcInfo : \E m \in DOMAIN Ws(j) : \E q \in DOMAIN v_points :
                  Wanted(j, m, q) /\ ItemOf(k) = <<j, Ws(j)[m], q>>
      BY DEF WalkInv, ItemsWalked
    <3>2. PICK m \in DOMAIN Ws(j), q \in DOMAIN v_points :
                  Wanted(j, m, q) /\ ItemOf(k) = <<j, Ws(j)[m], q>>
      BY <3>1
    <3>3. j = i /\ Ws(i)[m] = Ws(i)[n] /\ q = p
      BY <2>2, <3>2
    <3> QED
      BY <3>2, <3>3 DEF Wanted
  <2> QED
    BY <2>1, <2>2 DEF WalkInv, WalkedHaveItems
<1> QED
  BY <1>1, <1>2, <1>3, PTL DEF Spec

-----------------------------------------------------------------------------
(* The bytes that have been taken *)

\* The walk has taken the bytes of the points behind it, and no others.
Counted == step = "point" => count = Cardinality(Taken(Head(windows), pos - 1))

\* Before the first point nothing is taken.
LEMMA TakenNothing ==
    ASSUME NEW w
    PROVE  Cardinality(Taken(w, 0)) = 0
<1>1. Taken(w, 0) = {}
  BY DEF Taken
<1> QED
  BY <1>1, FS_EmptySet

LEMMA TakenFinite ==
    ASSUME NEW w, NEW n \in Nat
    PROVE  IsFiniteSet(Taken(w, n)) /\ Cardinality(Taken(w, n)) \in Nat
<1>1. IsFiniteSet(1 .. n) /\ IsFiniteSet(0 .. 19)
  <2>1. 0 \in Int /\ 1 \in Int /\ 19 \in Int /\ n \in Int
    OBVIOUS
  <2>2. IsFiniteSet(1 .. n)
    BY <2>1, FS_Interval
  <2>3. IsFiniteSet(0 .. 19)
    BY <2>1, FS_Interval
  <2> QED
    BY <2>2, <2>3
<1>2. IsFiniteSet((1 .. n) \X (0 .. 19))
  BY <1>1, FS_Product
<1>3. Taken(w, n) \in SUBSET ((1 .. n) \X (0 .. 19))
  BY DEF Taken
<1>4. IsFiniteSet(Taken(w, n))
  BY <1>2, <1>3, FS_Subset
<1> QED
  BY <1>4, FS_CardinalityType

\* A point outside takes nothing, one inside as many bytes as it is wide.
LEMMA TakenNext ==
    ASSUME NEW w, NEW n \in DOMAIN v_points
    PROVE  Cardinality(Taken(w, n)) = Cardinality(Taken(w, n - 1))
              + (IF Inside(v_points[n], w) THEN Width(v_points[n]) ELSE 0)
<1>0. n \in Nat /\ n >= 1 /\ n - 1 \in Nat /\ v_points[n] \in Point
  <2>1. v_points \in Seq(Point)
    BY DecodeAssumption
  <2> QED
    BY <2>1
<1>1. IsFiniteSet(Taken(w, n - 1)) /\ Cardinality(Taken(w, n - 1)) \in Nat
  BY <1>0, TakenFinite
<1>2. \A j : j \in 1 .. n <=> j \in 1 .. n - 1 \/ j = n
  BY <1>0
<1>3. ~(n \in 1 .. n - 1)
  BY <1>0
<1>4. CASE ~Inside(v_points[n], w)
  <2>1. Taken(w, n) = Taken(w, n - 1)
    BY <1>2, <1>4 DEF Taken
  <2> QED
    BY <1>1, <1>4, <2>1
<1>5. CASE Inside(v_points[n], w)
  <2> DEFINE wide == Width(v_points[n])
             own == {n} \X (0 .. wide - 1)
  <2>1. wide \in 1 .. 20
    BY <1>0 DEF Width, Point, DataTypes
  <2>2. \A b : b \in 0 .. 19 /\ b < wide <=> b \in 0 .. wide - 1
    BY <2>1
  <2>3. Taken(w, n) = Taken(w, n - 1) \cup own
    BY <1>2, <1>5, <2>2 DEF Taken
  <2>4. Taken(w, n - 1) \cap own = {}
    BY <1>3 DEF Taken
  <2>5. IsFiniteSet(own) /\ Cardinality(own) = wide
    <3>1. IsFiniteSet({n}) /\ Cardinality({n}) = 1
      BY FS_Singleton
    <3>2. IsFiniteSet(0 .. wide - 1) /\ Cardinality(0 .. wide - 1) = wide
      <4>1. 0 \in Int /\ wide - 1 \in Int /\ ~(0 > wide - 1) /\ (wide - 1) - 0 + 1 = wide
        BY <2>1
      <4>2. /\ IsFiniteSet(0 .. wide - 1)
            /\ Cardinality(0 .. wide - 1) = IF 0 > wide - 1 THEN 0 ELSE (wide - 1) - 0 + 1
        BY <4>1, FS_Interval
      <4> QED
        BY <4>1, <4>2
    <3>3. IsFiniteSet(own) /\ Cardinality(own) = Cardinality({n}) * Cardinality(0 .. wide - 1)
      BY <3>1, <3>2, FS_Product
    <3> QED
      BY <2>1, <3>1, <3>2, <3>3
  <2>6. Cardinality(Taken(w, n)) = Cardinality(Taken(w, n - 1)) + Cardinality(own) - 0
    <3>1. Cardinality({}) = 0
      BY FS_EmptySet
    <3> HIDE DEF own
    <3> QED
      BY <1>1, <2>3, <2>4, <2>5, <3>1, FS_Union
  <2> QED
    BY <1>1, <1>5, <2>1, <2>5, <2>6
<1> QED
  BY <1>4, <1>5

LEMMA CountedStep ==
    ASSUME TypeOK, Counted, [Next]_vars
    PROVE  Counted'
<1>1. CASE CallDecode
  <2>1. pos' - 1 = 0 /\ count' = 0
    BY <1>1 DEF CallDecode
  <2> QED
    BY <2>1, TakenNothing DEF Counted
<1>2. CASE SkipPoint \/ DecodePoint
  <2>1. pos \in DOMAIN v_points /\ pos \in Nat
    <3>1. v_points \in Seq(Point) /\ pos \in Nat /\ pos # 0 /\ pos <= Len(v_points)
      BY <1>2, DecodeAssumption DEF TypeOK, SkipPoint, DecodePoint
    <3> QED
      BY <3>1
  <2>2. Cardinality(Taken(Head(windows), pos)) = Cardinality(Taken(Head(windows), pos - 1))
           + (IF Inside(v_points[pos], Head(windows)) THEN Width(v_points[pos]) ELSE 0)
    BY <2>1, TakenNext
  <2>3. count = Cardinality(Taken(Head(windows), pos - 1)) /\ count \in Nat
    BY <1>2 DEF Counted, SkipPoint, DecodePoint, TypeOK
  <2>4. pos' - 1 = pos /\ windows' = windows
    BY <1>2, <2>1 DEF SkipPoint, DecodePoint
  <2>5. count' = Cardinality(Taken(Head(windows), pos))
    <3>1. CASE SkipPoint
      BY <2>2, <2>3, <3>1 DEF SkipPoint
    <3>2. CASE DecodePoint
      BY <2>2, <2>3, <3>2 DEF DecodePoint
    <3> QED
      BY <1>2, <3>1, <3>2
  <2> QED
    BY <2>4, <2>5 DEF Counted
<1>3. CASE NextReply \/ EndOfWindows \/ CallRefused \/ EndOfPoints
  BY <1>3 DEF NextReply, EndOfWindows, CallRefused, EndOfPoints, Counted
<1>4. CASE UNCHANGED vars
  BY <1>4 DEF vars, Counted
<1> QED
  BY <1>1, <1>2, <1>3, <1>4 DEF Next

\* The points behind the walk are among those of the table.
LEMMA TakenGrows ==
    ASSUME NEW w, NEW m \in Nat, NEW n \in Nat, m <= n
    PROVE  Cardinality(Taken(w, m)) <= Cardinality(Taken(w, n))
<1>1. 1 .. m \subseteq 1 .. n
  OBVIOUS
<1>2. Taken(w, m) \in SUBSET Taken(w, n)
  BY <1>1 DEF Taken
<1> QED
  BY <1>2, TakenFinite, FS_Subset

(***************************************************************************)
(* With tables whose windows have no more bytes than their replies, which  *)
(* can be looked up in the files, no walk counts beyond the end of its     *)
(* reply, though nothing in handleRecvData checks the position in buf.     *)
(***************************************************************************)
THEOREM ReadWithinReplyCorrect ==
    ASSUME TablesAgree
    PROVE  Spec => []ReadWithinReply
<1> DEFINE Inv == TypeOK /\ WalkInv /\ Counted
<1>1. Init => Inv
  BY WalkInit DEF Init, Counted
<1>2. Inv /\ [Next]_vars => Inv'
  BY NextType, WalkStep, CountedStep
<1>3. Inv => ReadWithinReply
  <2> SUFFICES ASSUME Inv, step = "point" PROVE count <= BufLen(it)
    BY DEF ReadWithinReply
  <2>1. /\ cur \in DOMAIN v_rtSrcInfo /\ it = v_rtSrcInfo[cur] /\ ~it.refused
        /\ done + 1 \in DOMAIN Ws(cur) /\ Head(windows) = Ws(cur)[done + 1]
    <3>1. windows # <<>>
      BY DEF TypeOK
    <3> QED
      BY <3>1, CurrentWindow DEF WalkInv, WindowsLeft
  <2>2. Cardinality(Taken(Head(windows), Len(v_points))) <= BufLen(it)
    BY <2>1 DEF TablesAgree, Ws, TypeOK
  <2>3. v_points \in Seq(Point) /\ Len(v_points) \in Nat /\ pos - 1 \in Nat /\ pos - 1 <= Len(v_points)
    <3>1. v_points \in Seq(Point)
      BY DecodeAssumption
    <3>2. Len(v_points) \in Nat
      BY <3>1
    <3> QED
      BY <3>1, <3>2 DEF TypeOK
  <2>4. Cardinality(Taken(Head(windows), pos - 1))
           <= Cardinality(Taken(Head(windows), Len(v_points)))
    BY <2>3, TakenGrows
  <2>5. /\ Cardinality(Taken(Head(windows), pos - 1)) \in Nat
        /\ Cardinality(Taken(Head(windows), Len(v_points))) \in Nat
    BY <2>3, TakenFinite
  <2>6. BufLen(it) \in Nat
    BY <2>1, ItReadable DEF TypeOK, Readable, Reply, BufLen
  <2>7. count = Cardinality(Taken(Head(windows), pos - 1))
    BY DEF Counted
  <2> QED
    BY <2>2, <2>4, <2>5, <2>6, <2>7
<1> QED
  BY <1>1, <1>2, <1>3, PTL DEF Spec
=============================================================================
