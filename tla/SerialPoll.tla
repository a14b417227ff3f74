----------------------------- MODULE SerialPoll -----------------------------
(***************************************************************************)
(* Polling the devices over RS-485 (src/code/task/TaskSerial.cpp with      *)
(* protocol/Modbus.cpp and serial/Serial_485.cpp).                         *)
(*                                                                         *)
(* serial_thread walks protocolInfoMap; for each device it sends one       *)
(* request per point of the protocol and parses what recv_thread collected *)
(* in total_recv_buf until ParsePacket takes it for a whole reply.         *)
(* recv_thread sleeps on recv_cv while is_RecvRun is true, and after each  *)
(* wake-up reads the port of the device in pit once.  is_RecvRun and pit   *)
(* are shared without a lock; total_recv_buf is guarded by recv_mutex.     *)
(*                                                                         *)
(* Every request goes to bus address 1, whatever the address of the        *)
(* device, and several devices can be configured on one tty: the wiring is *)
(* chosen in Init and never changes.  A cell is three or four bytes, two   *)
(* cells are the five bytes ParsePacket asks for.  A cell knows which      *)
(* request it answers, which the code does not.                            *)
(***************************************************************************)
EXTENDS Integers, Sequences

CONSTANTS DevCount,   \* devices in protocolInfoMap, in iteration order
          PointCount, \* requests per device and cycle
          Capacity,   \* cells the driver keeps for a tty; the rest is lost
          Wirings,    \* the possible ways the devices are connected
          Noisy,      \* the ttys where noise may hit a header
          Faults      \* what else may happen to a reply, besides arriving

Devices == 1 .. DevCount
Points == 1 .. PointCount
Ttys == Devices
NoDevice == 0

FrameLen == 3 \* cells of a reply with data
ErrorLen == 2 \* cells of an exception: five bytes

ASSUME SerialAssumption ==
    /\ DevCount \in Nat \ {0}
    /\ PointCount \in Nat \ {0}
    /\ Capacity \in Nat /\ Capacity >= FrameLen
    /\ Wirings \subseteq [tty : [Devices -> Ttys], units : SUBSET Devices]
    /\ Noisy \subseteq Ttys
    /\ Faults \subseteq {"error83", "error84", "lose"}

VARIABLES tty, units,   \* the tty of each device; who has bus address 1
          serial,       \* where serial_thread is
          cur,          \* the device serialTaskRun is at
          pit,          \* the device recv_thread is to read from
          nextPkg,      \* [Devices -> 0..PointCount], a member of Modbus
          pointCount,
          results,      \* v_rtSrcInfo
          recvMutex,    \* is recv_mutex held by serial_thread asleep?
          is_RecvRun, total_recv_buf,
          header,       \* what bytes 1 and 2 of total_recv_buf say
          reader,       \* where recv_thread is
          source,       \* recv_thread's copy of pit
          chunk,        \* recv_buf
          request,      \* [Ttys -> 0..PointCount]: the last request, or 0
          line,         \* [Ttys -> sequence of cells not yet read]
          harm          \* history: the worst that has happened to a reply

wiring == <<tty, units>>
serialVars == <<serial, cur, nextPkg, pointCount, results>>
bufVars == <<total_recv_buf, header>>
readerVars == <<reader, source, chunk>>
portVars == <<request, line, harm>>
vars == <<wiring, serialVars, pit, recvMutex, is_RecvRun, bufVars, readerVars, portVars>>

(***************************************************************************)
(* Bytes 1 and 2 of a reply, as ParsePacket reads them: the function code  *)
(* ("error84" is any but 3, 4 and 0x83) and the length field, in cells of  *)
(* the whole reply (0: a length of 0).                                     *)
(***************************************************************************)
Header == {[fn |-> "read", len |-> n] : n \in {0} \cup ErrorLen .. Capacity}
          \cup {[fn |-> fn, len |-> 1] : fn \in {"error83", "error84"}}

ReadHeader == [fn |-> "read", len |-> FrameLen]
ErrorHeader(fn) == [fn |-> fn, len |-> 1]

TrueHeaders == {ReadHeader} \cup {ErrorHeader(fn) : fn \in Faults \cap {"error83", "error84"}}

\* The replies ParsePacket can make something of.
Readable == {ReadHeader, ErrorHeader("error83")}

FrameSize(h) == IF h = ReadHeader THEN FrameLen ELSE ErrorLen

\* Data, or a header hit by noise: whatever ParsePacket reads there.
NoHeader == [fn |-> "data", len |-> 0]

\* Which request a cell answers is told only until a header is garbled.
Unknown == 0

Cell == [dev : Devices \cup {Unknown}, point : Points \cup {Unknown},
         head : Header \cup {NoHeader}]

Result == [title : Points, dev : Devices \cup {Unknown}, point : Points \cup {Unknown}]

-----------------------------------------------------------------------------
(* Replies and ParsePacket *)

Frame(d, k, h, size) ==
    [i \in 1 .. size |-> [dev |-> d, point |-> k, head |-> IF i = 1 THEN h ELSE NoHeader]]

LostFrom(h) == IF "lose" \in Faults THEN 0 .. FrameSize(h) - 1 ELSE {}

\* A reply of unit d to request k: whole, or an exception 0x84 or cut short.
Whole(d, k) == {Frame(d, k, h, FrameSize(h)) : h \in TrueHeaders \cap Readable}

Short(d, k) ==
    {Frame(d, k, h, FrameSize(h)) : h \in TrueHeaders \ Readable}
    \cup UNION {{Frame(d, k, h, n) : n \in LostFrom(h)} : h \in TrueHeaders}

\* A reply with noise on its header, or without its beginning.
Garbled == {Frame(Unknown, Unknown, NoHeader, n) : n \in 1 .. FrameLen}

\* Slip: the length of the reply is not compared with its length field.
ParsePacketSlip(h, length) ==
    IF length < 2 THEN "incomplete"
    ELSE IF h.fn = "error83" THEN "refused"
    ELSE IF h.fn # "read" THEN "incomplete"
    ELSE "accepted"

(***************************************************************************)
(* -1 is "incomplete", 0 is "refused", a length is "accepted".  Only the   *)
(* function code and the length are looked at: the CRC is not.             *)
(***************************************************************************)
ParsePacket(h, length) ==
    IF length < 2 THEN "incomplete"
    ELSE IF h.fn = "error83" THEN "refused"
    ELSE IF h.fn # "read" THEN "incomplete"
    ELSE IF h.len = 0 THEN "refused"
    ELSE IF h.len # length THEN "incomplete"
    ELSE "accepted"

Verdict == ParsePacket(header, Len(total_recv_buf))

-----------------------------------------------------------------------------
Init == /\ \E w \in Wirings : tty = w.tty /\ units = w.units
        /\ serial = "next"
        /\ cur = 1
        /\ pit = NoDevice
        /\ nextPkg = [d \in Devices |-> 0]
        /\ pointCount = 0
        /\ results = <<>>
        /\ recvMutex = FALSE
        /\ is_RecvRun = TRUE
        /\ total_recv_buf = <<>>
        /\ header = NoHeader
        /\ reader = "test"
        /\ source = NoDevice
        /\ chunk = <<>>
        /\ request = [t \in Ttys |-> 0]
        /\ line = [t \in Ttys |-> <<>>]
        /\ harm = "none"

(***************************************************************************)
(* serial_thread: serialTaskRun, sendPacketProc, parsePacketProc *)
(***************************************************************************)
\* Slip: pointCount runs on from device to device.
NextDeviceSlip ==
    /\ serial = "next"
    /\ pit' = cur
    /\ serial' = "assemble"
    /\ UNCHANGED <<wiring, cur, results, pointCount, nextPkg, recvMutex, is_RecvRun, bufVars,
                   readerVars, portVars>>

NextDevice ==
    /\ serial = "next"
    /\ pit' = cur
    /\ pointCount' = 0
    /\ serial' = "assemble"
    /\ UNCHANGED <<wiring, cur, results, nextPkg, recvMutex, is_RecvRun, bufVars, readerVars, portVars>>

SendRequest ==
    /\ serial = "assemble"
    /\ nextPkg[pit] < PointCount
    /\ nextPkg' = [nextPkg EXCEPT ![pit] = @ + 1]
    /\ request' = [request EXCEPT ![tty[pit]] = nextPkg[pit] + 1]
    /\ pointCount' = pointCount + 1
    /\ serial' = "ask"
    /\ UNCHANGED <<wiring, cur, results, pit, recvMutex, is_RecvRun, bufVars, readerVars,
                   line, harm>>

\* Slip: the exhausted list of requests does not start over.
EndOfPointsSlip ==
    /\ serial = "assemble"
    /\ nextPkg[pit] = PointCount
    /\ nextPkg' = [nextPkg EXCEPT ![pit] = 1]
    /\ serial' = "publish"
    /\ UNCHANGED <<wiring, cur, pointCount, results, pit, recvMutex, is_RecvRun, bufVars,
                   readerVars, portVars>>

EndOfPoints ==
    /\ serial = "assemble"
    /\ nextPkg[pit] = PointCount
    /\ nextPkg' = [nextPkg EXCEPT ![pit] = 0]
    /\ serial' = "publish"
    /\ UNCHANGED <<wiring, cur, pointCount, results, pit, recvMutex, is_RecvRun, bufVars,
                   readerVars, portVars>>

\* recv_cv.notify_all(); recv_thread is the only one that waits there.
NotifyReader == reader' = IF reader = "waiting" THEN "test" ELSE reader

(***************************************************************************)
(* is_RecvRun = false; notify_all().  Nothing reads the flag between the   *)
(* two but recv_thread, whose own test and wait are separate steps.        *)
(***************************************************************************)
WakeReader == is_RecvRun' = FALSE /\ NotifyReader

Ask ==
    /\ serial = "ask"
    /\ WakeReader
    /\ serial' = "parse"
    /\ UNCHANGED <<wiring, cur, nextPkg, pointCount, results, pit, recvMutex, bufVars,
                   source, chunk, portVars>>

\* Slip: the reader is woken once per request and never again.
ParseNothingSlip ==
    /\ serial = "parse"
    /\ total_recv_buf = <<>>
    /\ UNCHANGED vars

\* Nothing received: wake the reader and look again.
ParseNothing ==
    /\ serial = "parse"
    /\ total_recv_buf = <<>>
    /\ WakeReader
    /\ UNCHANGED <<wiring, serialVars, pit, recvMutex, bufVars, source, chunk, portVars>>

\* An incomplete reply: wake the reader, then sleep with recv_mutex held.
ParseIncomplete ==
    /\ serial = "parse"
    /\ total_recv_buf # <<>>
    /\ Verdict = "incomplete"
    /\ WakeReader
    /\ recvMutex' = TRUE
    /\ serial' = "doze"
    /\ UNCHANGED <<wiring, cur, nextPkg, pointCount, results, pit, bufVars,
                   source, chunk, portVars>>

ParseAgain ==
    /\ serial = "doze"
    /\ recvMutex' = FALSE
    /\ serial' = "parse"
    /\ UNCHANGED <<wiring, cur, nextPkg, pointCount, results, pit, is_RecvRun, bufVars,
                   readerVars, portVars>>

\* Slip: the buffer keeps a reply that was refused.
ClearedSlip == IF Verdict = "refused" THEN total_recv_buf ELSE <<>>

Cleared == <<>>

ParseComplete ==
    /\ serial = "parse"
    /\ total_recv_buf # <<>>
    /\ Verdict \in {"refused", "accepted"}
    /\ results' = Append(results,
                         [title |-> pointCount,
                          dev |-> total_recv_buf[1].dev, point |-> total_recv_buf[1].point])
    /\ total_recv_buf' = Cleared
    /\ header' = IF Cleared = <<>> THEN NoHeader ELSE header
    /\ serial' = "assemble"
    /\ UNCHANGED <<wiring, cur, nextPkg, pointCount, pit, recvMutex, is_RecvRun, readerVars, portVars>>

\* handleAllRecvData decodes results, publish hands them out; then v_rtSrcInfo
\* goes out of scope.
Publish ==
    /\ serial = "publish"
    /\ cur' = IF cur = DevCount THEN 1 ELSE cur + 1
    /\ results' = <<>>
    /\ serial' = "next"
    /\ UNCHANGED <<wiring, nextPkg, pointCount, pit, recvMutex, is_RecvRun, bufVars,
                   readerVars, portVars>>

SerialStep == \/ NextDevice \/ SendRequest \/ EndOfPoints \/ Ask \/ ParseNothing
              \/ ParseIncomplete \/ ParseAgain \/ ParseComplete \/ Publish

(***************************************************************************)
(* recv_thread *)
(***************************************************************************)
ReaderTest ==
    /\ reader = "test"
    /\ reader' = IF is_RecvRun THEN "toWait" ELSE "pick"
    /\ UNCHANGED <<wiring, serialVars, pit, recvMutex, is_RecvRun, bufVars,
                   source, chunk, portVars>>

\* A notification since the test is lost.
ReaderWait ==
    /\ reader = "toWait"
    /\ reader' = "waiting"
    /\ UNCHANGED <<wiring, serialVars, pit, recvMutex, is_RecvRun, bufVars,
                   source, chunk, portVars>>

ReaderSpuriousWake ==
    /\ reader = "waiting"
    /\ reader' = "test"
    /\ UNCHANGED <<wiring, serialVars, pit, recvMutex, is_RecvRun, bufVars,
                   source, chunk, portVars>>

ReaderPick ==
    /\ reader = "pick"
    /\ source' = pit
    /\ reader' = "read"
    /\ UNCHANGED <<wiring, serialVars, pit, recvMutex, is_RecvRun, bufVars, chunk, portVars>>

\* The port is opened with O_NDELAY: read() returns what is there, if anything.
ReaderRead ==
    /\ reader = "read"
    /\ IF source = NoDevice \/ line[tty[source]] = <<>>
       THEN chunk' = <<>> /\ UNCHANGED line
       ELSE \E n \in 1 .. Len(line[tty[source]]) :
               /\ chunk' = SubSeq(line[tty[source]], 1, n)
               /\ line' = [line EXCEPT ![tty[source]] = SubSeq(@, n + 1, Len(@))]
    /\ reader' = "append"
    /\ UNCHANGED <<wiring, serialVars, pit, recvMutex, is_RecvRun, bufVars, source,
                   request, harm>>

(***************************************************************************)
(* Bytes 1 and 2 of what is appended to an empty buffer: the header of a   *)
(* reply, or, where a reply begins in the middle, any two bytes of data.   *)
(***************************************************************************)
FirstHeader(cells) ==
    IF cells = <<>> THEN {NoHeader}
    ELSE IF cells[1].head = NoHeader THEN Header
    ELSE {cells[1].head}

Bytes(cells) == [i \in DOMAIN cells |-> [cells[i] EXCEPT !.head = NoHeader]]

ReaderAppend ==
    /\ reader = "append"
    /\ ~recvMutex
    /\ total_recv_buf' = total_recv_buf \o Bytes(chunk)
    /\ header' \in IF total_recv_buf = <<>> THEN FirstHeader(chunk) ELSE {header}
    /\ chunk' = <<>>
    /\ reader' = "flag"
    /\ UNCHANGED <<wiring, serialVars, pit, recvMutex, is_RecvRun, source, portVars>>

\* Slip: the reader goes on without putting itself to sleep.
ReaderFlagSlip ==
    /\ reader = "flag"
    /\ reader' = "test"
    /\ UNCHANGED <<wiring, serialVars, pit, recvMutex, is_RecvRun, bufVars,
                   source, chunk, portVars>>

\* This may undo a wake-up serial_thread has just asked for.
ReaderFlag ==
    /\ reader = "flag"
    /\ is_RecvRun' = TRUE
    /\ reader' = "test"
    /\ UNCHANGED <<wiring, serialVars, pit, recvMutex, bufVars, source, chunk, portVars>>

ReaderStep == ReaderTest \/ ReaderWait \/ ReaderPick \/ ReaderRead \/ ReaderFlag

(***************************************************************************)
(* The units at the other end of a tty                                     *)
(***************************************************************************)
Units(t) == {d \in units : tty[d] = t}

\* Two units of one address answer at once, and neither can be read.
Alone(d) == Units(tty[d]) = {d}

Kept(cells) == IF Len(cells) <= Capacity THEN cells ELSE SubSeq(cells, 1, Capacity)

Told(cells) ==
    IF harm # "garbled" THEN cells
    ELSE [i \in DOMAIN cells |-> [cells[i] EXCEPT !.dev = Unknown, !.point = Unknown]]

Deliver(t, cells) ==
    /\ line' = [line EXCEPT ![t] = Kept(@ \o Told(cells))]
    /\ request' = [request EXCEPT ![t] = 0]
    /\ UNCHANGED <<wiring, serialVars, pit, recvMutex, is_RecvRun, bufVars, readerVars>>

AnswerWhole(t) ==
    /\ request[t] # 0
    /\ \E d \in Units(t) :
          /\ Alone(d)
          /\ \E cells \in Whole(d, request[t]) : Deliver(t, cells)
    /\ UNCHANGED harm

AnswerShort(t) ==
    /\ request[t] # 0
    /\ \E d \in Units(t) :
          /\ Alone(d)
          /\ \E cells \in Short(d, request[t]) : Deliver(t, cells)
    /\ harm' = IF harm = "none" THEN "short" ELSE harm

AnswerGarbled(t) ==
    /\ request[t] # 0
    /\ \E d \in Units(t) :
          /\ t \in Noisy \/ ~Alone(d)
          /\ \E cells \in Garbled : Deliver(t, cells)
    /\ harm' = "garbled"

Answer(t) == AnswerWhole(t) \/ AnswerShort(t) \/ AnswerGarbled(t)

-----------------------------------------------------------------------------
Next == \/ SerialStep
        \/ ReaderStep \/ ReaderAppend \/ ReaderSpuriousWake
        \/ \E t \in Ttys : Answer(t)

Spec == Init /\ [][Next]_vars

(***************************************************************************)
(* Both threads run and units answer.  recv_mutex is another matter:       *)
(* serial_thread takes it again right after it has released it, and weak   *)
(* fairness lets recv_thread miss it for ever, as std::mutex does.         *)
(***************************************************************************)
Fairness == /\ WF_vars(SerialStep)
            /\ WF_vars(ReaderStep)
            /\ WF_vars(ReaderAppend)
            /\ \A t \in Ttys : WF_vars(Answer(t))

FairSpec == Spec /\ Fairness

-----------------------------------------------------------------------------
(* Properties *)

TypeOK ==
    /\ tty \in [Devices -> Ttys]
    /\ units \in SUBSET Devices
    /\ serial \in {"next", "assemble", "ask", "parse", "doze", "publish"}
    /\ cur \in Devices
    /\ pit \in Devices \cup {NoDevice}
    /\ nextPkg \in [Devices -> 0 .. PointCount]
    /\ pointCount \in 0 .. PointCount
    /\ results \in Seq(Result)
    /\ recvMutex \in BOOLEAN
    /\ is_RecvRun \in BOOLEAN
    /\ total_recv_buf \in Seq(Cell)
    /\ header \in Header \cup {NoHeader}
    /\ reader \in {"test", "toWait", "waiting", "pick", "read", "append", "flag"}
    /\ source \in Devices \cup {NoDevice}
    /\ chunk \in Seq(Cell)
    /\ request \in [Ttys -> 0 .. PointCount]
    /\ line \in [Ttys -> Seq(Cell)]
    /\ harm \in {"none", "short", "garbled"}

(***************************************************************************)
(* Every result has the title its place asks for, although the request     *)
(* (Modbus::nextPkg) and the title (TaskSerial::pointCount) are counted by *)
(* different objects.  Unless a header was ever garbled, be it by noise or *)
(* by two units of one address, the result is the reply to that very       *)
(* request, of the device being polled if that device has bus address 1,   *)
(* the only address TaskSerial ever asks.                                  *)
(***************************************************************************)
Attribution ==
    \A i \in DOMAIN results :
        /\ results[i].title = i
        /\ \/ harm = "garbled"
           \/ /\ results[i].point = i
              /\ cur \in units => results[i].dev = cur

\* What is published for a device is complete: one result per point.
PublishedComplete == serial = "publish" => Len(results) = PointCount

(***************************************************************************)
(* Unless a header was ever garbled, nothing of an earlier reply is left   *)
(* when a request goes out: not on a tty, not in the reader's hands, not   *)
(* in the buffer.  ParsePacket accepts or refuses no reply, exceptions     *)
(* included, before the last of it has been read.                          *)
(***************************************************************************)
NoResidue ==
    harm # "garbled" /\ serial \in {"next", "assemble", "publish"} =>
        /\ total_recv_buf = <<>> /\ chunk = <<>>
        /\ \A t \in Ttys : line[t] = <<>> /\ request[t] = 0

(***************************************************************************)
(* is_RecvRun works as a hand-over of pit and of the port, with no lock:   *)
(* the reader picks, reads or appends only between a request and its       *)
(* result, so serial_thread never assigns the shared pointer pit while the *)
(* reader copies it, and the reader is never at another device's port.     *)
(***************************************************************************)
ReaderOnlyWhileAsked ==
    reader \in {"pick", "read", "append"} =>
        /\ serial \in {"parse", "doze"}
        /\ pit = cur
        /\ reader # "pick" => source = cur

(***************************************************************************)
(* serial_thread waits for the rest of a reply of which nothing more will  *)
(* come: a unit's answer was short, garbled or 0x84, or nobody answers.    *)
(***************************************************************************)
NothingMore ==
    /\ serial \in {"parse", "doze"}
    /\ Verdict = "incomplete" /\ chunk = <<>> /\ line[tty[pit]] = <<>>
    /\ \/ request[tty[pit]] = 0 /\ harm # "none"
       \/ Units(tty[pit]) = {}

\* The reader has read a piece but never gets recv_mutex to append it.
Starved ==
    /\ reader = "append" /\ total_recv_buf # <<>>
    /\ serial \in {"parse", "doze"} /\ Verdict = "incomplete"

(***************************************************************************)
(* Nothing else stops polling: unless one of these lasts for ever, every   *)
(* device is polled for ever, and no wake-up that matters is lost.  A      *)
(* reader starves only while it holds a later piece of a reply.            *)
(***************************************************************************)
PollsForever ==
    \/ <>[]NothingMore
    \/ <>[]Starved
    \/ \A d \in Devices : []<>(serial = "publish" /\ cur = d)
=============================================================================
