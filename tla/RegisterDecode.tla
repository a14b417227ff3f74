--------------------------- MODULE RegisterDecode ---------------------------
(***************************************************************************)
(* From the replies of a device to named values: handleAllRecvData and     *)
(* handleRecvData (src/code/task/TaskSerial.cpp).                          *)
(*                                                                         *)
(* A request of csi_pcs_series_reg.json (a title, a first register and a   *)
(* number of registers) is answered by the bytes of these registers.  For  *)
(* each title the code names one or more windows of addresses; for each    *)
(* window it walks v_points, the table of csi_pcs_modbus.json, and takes   *)
(* the next bytes of the reply for every point inside the window.  Where   *)
(* a point's bytes are is never computed from its address.                 *)
(***************************************************************************)
EXTENDS Integers, Sequences, FiniteSets

CONSTANTS v_points,   \* the table: a sequence of [addr, dataType]
          Batches,    \* what the polling of a device may hand over
          Registers,  \* the registers of the device
          register,   \* their contents, a word each
          Stray       \* bytes that may lie behind the end of a reply

DataTypes == {"U16", "S16", "U32", "S32", "U8", "ASCII"}

Point == [addr : Nat, dataType : DataTypes]

Titles == {"device", "running", "battery", "parameters", "protection", "calibration",
           "gridMode", "reactive", "lowRide", "highRide", "softStart", "other"}

\* idata 0: the device refused; otherwise the number of bytes in buf.
Reply == [title : Titles, first : Nat, regs : Nat \ {0}, refused : BOOLEAN]

Word == {n \in Nat : n < 65536}

Octet == {n \in Nat : n < 256}

ASSUME DecodeAssumption ==
    /\ v_points \in Seq(Point)
    /\ Batches \subseteq Seq(Reply)
    /\ register \in [Registers -> Word]
    /\ Stray \subseteq Octet /\ Stray # {}
    /\ \A b \in Batches : \A i \in DOMAIN b :
          b[i].first .. b[i].first + b[i].regs - 1 \subseteq Registers

\* The windows of a title, as haddr and taddr.
windowsOf ==
    [device      |-> << <<3300, 3321>> >>,
     running     |-> << <<3600, 3614>>, <<3618, 3667>> >>,
     battery     |-> << <<3680, 3694>> >>,
     parameters  |-> << <<3900, 3904>>, <<3906, 3923>>, <<3929, 3955>> >>,
     protection  |-> << <<3800, 3845>> >>,
     calibration |-> << <<5000, 5017>>, <<5024, 5037>> >>,
     gridMode    |-> << <<8000, 8012>>, <<8014, 8019>> >>,
     reactive    |-> << <<8030, 8040>> >>,
     lowRide     |-> << <<8100, 8110>> >>,
     highRide    |-> << <<8150, 8159>> >>,
     softStart   |-> << <<8200, 8204>> >>,
     other       |-> <<>>]

Windows(title) == windowsOf[title]

VARIABLES shift32,  \* what the build makes of tmp[0] << 32
          v_rtSrcInfo,
          cur,      \* the reply handleAllRecvData is at
          step,     \* where the two functions are
          windows,  \* calls of handleRecvData left for this reply
          pos,      \* the point handleRecvData is at
          count,    \* its position in buf
          v_singleRTSrcInfo

vars == <<shift32, v_rtSrcInfo, cur, step, windows, pos, count, v_singleRTSrcInfo>>

it == v_rtSrcInfo[cur]

-----------------------------------------------------------------------------
(* Bytes *)

\* The address as it went through the two bytes of mpkg[0].reg.
Merged(p) == p.addr % 65536

Inside(p, w) == w[1] <= Merged(p) /\ Merged(p) <= w[2]

\* buf, without the header of the reply: high byte first.
BufLen(reply) == 2 * reply.regs

Byte(reply, k) == LET word == register[reply.first + k \div 2]
                  IN IF k % 2 = 0 THEN word \div 256 ELSE word % 256

\* buf[k]; nothing checks k.
ReadByte(reply, k) == IF k < BufLen(reply) THEN {Byte(reply, k)} ELSE Stray

Width(p) == [U16 |-> 2, S16 |-> 2, U32 |-> 4, S32 |-> 4, U8 |-> 1, ASCII |-> 20][p.dataType]

Short(p) == p.dataType \in {"U16", "S16"}

Long(p) == p.dataType \in {"U32", "S32"}

\* Slip: low byte first.
ShortsSlip(reply, k) ==
    {a + 256 * b : a \in ReadByte(reply, k), b \in ReadByte(reply, k + 1)}

\* (tmp[0] << 8) | tmp[1], whatever the sign.
Shorts(reply, k) ==
    {256 * a + b : a \in ReadByte(reply, k), b \in ReadByte(reply, k + 1)}

\* The bitwise or of two bytes.
OrByte(x, y) ==
    LET or(w) == IF (x \div w) % 2 = 1 \/ (y \div w) % 2 = 1 THEN w ELSE 0
    IN or(1) + or(2) + or(4) + or(8) + or(16) + or(32) + or(64) + or(128)

(***************************************************************************)
(* tmp[0] << 32 on a 32-bit int is undefined; compiled once, it either     *)
(* drops the byte or shifts it by 32 modulo 32.                            *)
(***************************************************************************)
Top(a, d) == IF shift32 = "drops" THEN d ELSE OrByte(a, d)

Longs(reply, k) ==
    {65536 * b + 256 * c + Top(a, d) :
        a \in ReadByte(reply, k), b \in ReadByte(reply, k + 1),
        c \in ReadByte(reply, k + 2), d \in ReadByte(reply, k + 3)}

Values(reply, p, k) == IF Short(p) THEN Shorts(reply, k)
                       ELSE IF Long(p) THEN Longs(reply, k)
                       ELSE IF p.dataType = "U8" THEN ReadByte(reply, k)
                       ELSE {0}

-----------------------------------------------------------------------------
Init == /\ shift32 \in {"drops", "wraps"}
        /\ v_rtSrcInfo \in Batches
        /\ cur = 1
        /\ step = "reply"
        /\ windows = <<>>
        /\ pos = 0
        /\ count = 0
        /\ v_singleRTSrcInfo = <<>>

(***************************************************************************)
(* handleAllRecvData *)
(***************************************************************************)
NextReply ==
    /\ step = "reply"
    /\ cur <= Len(v_rtSrcInfo)
    /\ windows' = Windows(it.title)
    /\ step' = "window"
    /\ UNCHANGED <<shift32, v_rtSrcInfo, cur, pos, count, v_singleRTSrcInfo>>

\* Slip: a refused reply hides the one after it.
EndOfWindowsSlip ==
    /\ step = "window"
    /\ windows = <<>>
    /\ cur' = IF it.refused THEN cur + 2 ELSE cur + 1
    /\ step' = "reply"
    /\ UNCHANGED <<shift32, v_rtSrcInfo, windows, pos, count, v_singleRTSrcInfo>>

EndOfWindows ==
    /\ step = "window"
    /\ windows = <<>>
    /\ cur' = cur + 1
    /\ step' = "reply"
    /\ UNCHANGED <<shift32, v_rtSrcInfo, windows, pos, count, v_singleRTSrcInfo>>

(***************************************************************************)
(* handleRecvData *)
(***************************************************************************)
CallRefused ==
    /\ step = "window"
    /\ windows # <<>>
    /\ it.refused
    /\ windows' = Tail(windows)
    /\ UNCHANGED <<shift32, v_rtSrcInfo, cur, step, pos, count, v_singleRTSrcInfo>>

\* Slip: the position in buf runs on from window to window.
CallDecodeSlip ==
    /\ step = "window"
    /\ windows # <<>>
    /\ ~it.refused
    /\ pos' = 1
    /\ step' = "point"
    /\ UNCHANGED <<shift32, v_rtSrcInfo, cur, windows, count, v_singleRTSrcInfo>>

\* Every call starts at the first byte of buf.
CallDecode ==
    /\ step = "window"
    /\ windows # <<>>
    /\ ~it.refused
    /\ pos' = 1
    /\ count' = 0
    /\ step' = "point"
    /\ UNCHANGED <<shift32, v_rtSrcInfo, cur, windows, v_singleRTSrcInfo>>

\* Slip: the first point outside the window ends it.
SkipPointSlip ==
    /\ step = "point"
    /\ pos <= Len(v_points)
    /\ ~Inside(v_points[pos], Head(windows))
    /\ pos' = Len(v_points) + 1
    /\ UNCHANGED <<shift32, v_rtSrcInfo, cur, step, windows, count, v_singleRTSrcInfo>>

SkipPoint ==
    /\ step = "point"
    /\ pos <= Len(v_points)
    /\ ~Inside(v_points[pos], Head(windows))
    /\ pos' = pos + 1
    /\ UNCHANGED <<shift32, v_rtSrcInfo, cur, step, windows, count, v_singleRTSrcInfo>>

DecodePoint ==
    /\ step = "point"
    /\ pos <= Len(v_points)
    /\ Inside(v_points[pos], Head(windows))
    /\ \E value \in Values(it, v_points[pos], count) :
          v_singleRTSrcInfo' = Append(v_singleRTSrcInfo,
              [from |-> cur, window |-> Head(windows), point |-> pos, value |-> value])
    /\ count' = count + Width(v_points[pos])
    /\ pos' = pos + 1
    /\ UNCHANGED <<shift32, v_rtSrcInfo, cur, step, windows>>

EndOfPoints ==
    /\ step = "point"
    /\ pos > Len(v_points)
    /\ windows' = Tail(windows)
    /\ step' = "window"
    /\ UNCHANGED <<shift32, v_rtSrcInfo, cur, pos, count, v_singleRTSrcInfo>>

Next == \/ NextReply \/ EndOfWindows
        \/ CallRefused \/ CallDecode \/ SkipPoint \/ DecodePoint \/ EndOfPoints

Spec == Init /\ [][Next]_vars

-----------------------------------------------------------------------------
(* Properties *)

Window == Nat \X Nat

Item == [from : Nat, window : Window, point : Nat, value : Nat]

TypeOK == /\ shift32 \in {"drops", "wraps"}
          /\ v_rtSrcInfo \in Batches
          /\ cur \in 1 .. Len(v_rtSrcInfo) + 1
          /\ step \in {"reply", "window", "point"}
          /\ windows \in Seq(Window)
          /\ step = "point" => windows # <<>>
          /\ step # "reply" => cur <= Len(v_rtSrcInfo)
          /\ pos \in 0 .. Len(v_points) + 1
          /\ step = "point" => pos # 0
          /\ count \in Nat
          /\ v_singleRTSrcInfo \in Seq(Item)

(***************************************************************************)
(* The points of window w lie one after the other in the table and have    *)
(* consecutive 16-bit registers, beginning with the first one of the reply *)
(* and ending within it.                                                   *)
(***************************************************************************)
Dense(reply, w) ==
    \A i \in DOMAIN v_points : Inside(v_points[i], w) =>
        /\ Short(v_points[i])
        /\ Merged(v_points[i]) \in reply.first .. reply.first + reply.regs - 1
        /\ IF Merged(v_points[i]) = reply.first
           THEN \A j \in 1 .. i - 1 : ~Inside(v_points[j], w)
           ELSE /\ i > 1
                /\ Inside(v_points[i - 1], w)
                /\ Merged(v_points[i - 1]) = Merged(v_points[i]) - 1

(***************************************************************************)
(* Where the decoder is right: in a dense window every value is that of    *)
(* the register its point names, although the decoder only counts bytes.   *)
(***************************************************************************)
DenseExact ==
    \A i \in DOMAIN v_rtSrcInfo :
        LET ws == Windows(v_rtSrcInfo[i].title)
        IN \A n \in DOMAIN ws : Dense(v_rtSrcInfo[i], ws[n]) =>
              \A k \in DOMAIN v_singleRTSrcInfo :
                 LET item == v_singleRTSrcInfo[k]
                 IN item.from = i /\ item.window = ws[n]
                       => item.value = register[Merged(v_points[item.point])]

(***************************************************************************)
(* With the tables of the repository no window reads behind the end of its *)
(* reply: the two JSON files and the windows in the code, maintained apart,*)
(* agree that far.                                                         *)
(***************************************************************************)
ReadWithinReply == step = "point" => count <= BufLen(it)

(***************************************************************************)
(* What it asks of the tables: the bytes of the points in a window, among  *)
(* the first n of the table, are no more than the reply has.  A byte is a  *)
(* point and a position within it; the widest point, an ASCII, has 20.     *)
(***************************************************************************)
Taken(w, n) == {x \in (1 .. n) \X (0 .. 19) :
                   Inside(v_points[x[1]], w) /\ x[2] < Width(v_points[x[1]])}

TablesAgree ==
    \A b \in Batches : \A i \in DOMAIN b : ~b[i].refused =>
        LET ws == Windows(b[i].title)
        IN \A n \in DOMAIN ws : Cardinality(Taken(ws[n], Len(v_points))) <= BufLen(b[i])

(***************************************************************************)
(* When all replies are handled, each accepted one has produced exactly    *)
(* one item per point in its windows, and a refused one none.              *)
(***************************************************************************)
ItemOf(k) == LET item == v_singleRTSrcInfo[k] IN <<item.from, item.window, item.point>>

DecodedOnce ==
    cur > Len(v_rtSrcInfo) =>
        /\ \A k, m \in DOMAIN v_singleRTSrcInfo : ItemOf(k) = ItemOf(m) => k = m
        /\ \A i \in DOMAIN v_rtSrcInfo, p \in DOMAIN v_points :
              LET ws == Windows(v_rtSrcInfo[i].title)
              IN \A n \in DOMAIN ws :
                    (\E k \in DOMAIN v_singleRTSrcInfo : ItemOf(k) = <<i, ws[n], p>>)
                        <=> ~v_rtSrcInfo[i].refused /\ Inside(v_points[p], ws[n])

(***************************************************************************)
(* csi_pcs_modbus.json names the register each point is at: the value of a *)
(* 16-bit point is the content of that register.                           *)
(***************************************************************************)
OwnRegister ==
    \A k \in DOMAIN v_singleRTSrcInfo :
        LET item == v_singleRTSrcInfo[k]
        IN Short(v_points[item.point])
              => item.value = register[Merged(v_points[item.point])]
=============================================================================
