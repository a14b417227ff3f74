---------------------------- MODULE DeviceLists -----------------------------
(***************************************************************************)
(* How a change of the tables reaches the polling loop: a request goes     *)
(* through the service queue to Setting (external), which answers and      *)
(* publishes the whole table; the pool of the message queue runs the       *)
(* callbacks of src/code/task/TaskSerial.cpp, which compare the table with *)
(* the list they keep and create or destroy Serial_485 and Modbus objects. *)
(*                                                                         *)
(* A device is polled over the port proto[d] (protocolInfoMap); it is in   *)
(* dangling if that Serial_485 object has been destroyed since, as Modbus  *)
(* keeps a raw pointer to it.  A callback holds list_mutex, first changes  *)
(* the flag or the maps, then replaces the list; serial_thread holds it    *)
(* while it polls, but tests the flags and runs loadAllList without.       *)
(* Where the code's behaviour is undefined the model may go on or stop,    *)
(* with the reason in the variable undefined.                              *)
(***************************************************************************)
EXTENDS Integers, Sequences, FiniteSets, SequencesExt

CONSTANTS Devs,          \* devices, by devName; all of them modbus
          Ports,         \* serial ports, by name; all of them RS-485
          Ttys,          \* SerialNames of ports: some may be names of ports too
          None,
          Workers,       \* threads of the pool of one message queue
          MaxRequests    \* bound on the changes a user makes

ASSUME ListAssumption == /\ IsFiniteSet(Devs)
                         /\ IsFiniteSet(Ports)
                         /\ None \notin Ports \cup Ttys
                         /\ Workers \in Nat \ {0}
                         /\ MaxRequests \in Nat

VARIABLES devTable, portTable,   \* Setting
          requests, service,     \* requests made; is TaskHttp in future.get()?
          queue,                 \* tables published and not yet handled, by topic
          half,                  \* the message a callback is half through with, or 0
          isLoad, merge,         \* is_loadDevList/is_loadSerialList, is_mergeDevAndSerial
          devList, portList,     \* devList, serialList
          infoMap,               \* serialInfoMap: the SerialName each object was made for
          proto, dangling,       \* protocolInfoMap
          points,                \* v_point
          serial,                \* where serial_thread is
          undefined,
          ahead, unheeded, lost  \* history, see below

settingVars == <<devTable, portTable, requests, service>>
busVars == <<queue, half, ahead>>
mapVars == <<infoMap, proto, dangling, points>>
listVars == <<isLoad, merge, devList, portList>>
historyVars == <<unheeded, lost>>
vars == <<settingVars, busVars, mapVars, listVars, historyVars, serial, undefined>>

Topics == {"dev", "port"}

\* A table of devices has the port of each, a table of ports the SerialName of each.
DevTables == [Devs -> Ports \cup {None}]
PortTables == [Ports -> Ttys \cup {None}]

Listed(table) == {x \in DOMAIN table : table[x] # None}

Changed(list, m) == {x \in DOMAIN m : m[x] # list[x]}

Init == /\ devTable \in DevTables
        /\ portTable \in PortTables
        /\ requests = 0
        /\ service = "idle"
        /\ queue = [t \in Topics |-> IF t = "dev" THEN <<devTable>> ELSE <<portTable>>]
        /\ half = [t \in Topics |-> 0]
        /\ isLoad = [t \in Topics |-> TRUE]
        /\ merge = TRUE
        /\ devList = [d \in Devs |-> None]
        /\ portList = [p \in Ports |-> None]
        /\ infoMap = [p \in Ports |-> None]
        /\ proto = [d \in Devs |-> None]
        /\ dangling = {}
        /\ points = "none"
        /\ serial = "top"
        /\ undefined = "no"
        /\ ahead = [t \in Topics |-> FALSE]
        /\ unheeded = [t \in Topics |-> {}]
        /\ lost = {}

Defined == undefined = "no"

-----------------------------------------------------------------------------
(* TaskHttp and Setting *)

ServicePublish ==
    /\ Defined
    /\ service = "idle"
    /\ requests < MaxRequests
    /\ service' = "asked"
    /\ requests' = requests + 1
    /\ UNCHANGED <<devTable, portTable, busVars, mapVars, listVars, historyVars, serial, undefined>>

\* ahead: the newest table of a topic has been handled before an older one.
Publish(t, table) ==
    /\ queue' = [queue EXCEPT ![t] = Append(@, table)]
    /\ ahead' = [ahead EXCEPT ![t] = FALSE]

SetDevs(table) == devTable' = table /\ Publish("dev", table) /\ UNCHANGED portTable
SetPorts(table) == portTable' = table /\ Publish("port", table) /\ UNCHANGED devTable

AddDev == \E d \in Devs \ Listed(devTable), p \in Ports : SetDevs([devTable EXCEPT ![d] = p])

\* A device gets another name, another port or both; it is known by its Id.
EditDev == \E d \in Listed(devTable), p \in Ports :
              \E e \in {d} \cup (Devs \ Listed(devTable)) :
                 SetDevs([devTable EXCEPT ![d] = None, ![e] = p])

DelDev == \E d \in Listed(devTable) : SetDevs([devTable EXCEPT ![d] = None])

AddPort == \E p \in Ports \ Listed(portTable), s \in Ttys : SetPorts([portTable EXCEPT ![p] = s])

EditPort == \E p \in Listed(portTable), s \in Ttys :
               \E q \in {p} \cup (Ports \ Listed(portTable)) :
                  SetPorts([portTable EXCEPT ![p] = None, ![q] = s])

DelPort == \E p \in Listed(portTable) : SetPorts([portTable EXCEPT ![p] = None])

Table(t) == IF t = "dev" THEN devTable ELSE portTable

\* A request to read the table, or one that Setting refuses.
NoChange == UNCHANGED <<devTable, portTable, queue, ahead>>

Change == AddDev \/ EditDev \/ DelDev \/ AddPort \/ EditPort \/ DelPort \/ NoChange

\* Setting changes the table, publishes it and fulfils the promise.
Respond ==
    /\ Defined
    /\ service = "asked"
    /\ Change
    /\ service' = "idle"
    /\ UNCHANGED <<requests, half, mapVars, listVars, historyVars, serial, undefined>>

-----------------------------------------------------------------------------
(* The callbacks, until the list is replaced *)

(***************************************************************************)
(* The pool starts callbacks in order (Executor), as many at a time as it  *)
(* has workers, and whoever gets list_mutex first is first: the next       *)
(* message handled is one of the oldest Workers, i of the queue.           *)
(***************************************************************************)
InHand(t) == {i \in DOMAIN queue[t] : i <= Workers}

Locked == serial = "poll" \/ \E t \in Topics : half[t] # 0

Enter(t, i) ==
    /\ Defined
    /\ ~Locked
    /\ half' = [half EXCEPT ![t] = i]
    /\ UNCHANGED <<settingVars, queue, ahead, serial>>

(***************************************************************************)
(* Undefined are: a callback while loadAllList uses the lists and maps,    *)
(* and going on from an iterator whose element has been erased.  Either    *)
(* may seem to work.                                                       *)
(***************************************************************************)
Loading == serial \in {"loading", "loadDevs"}
Torn == IF Loading THEN {"no", "torn"} ELSE {"no"}
Erasing(gone) == IF gone = {} THEN {"no"} ELSE {"no", "iterator"}

(***************************************************************************)
(* History.  unheeded: the devices and the ports of which a message said   *)
(* something that the callback did not act on, and neither has loadAllList *)
(* since.  lost: the ports that a message left out, or that a deletion     *)
(* took for deleted because they bear another name than their driver.      *)
(***************************************************************************)
Ignore(t, ignored, heeded) ==
    unheeded' = [unheeded EXCEPT ![t] = (@ \cup ignored) \ heeded]

\* The first message of a topic only sets the flag and the list, in this order.
FirstMessage(t, i) ==
    /\ Enter(t, i)
    /\ isLoad[t]
    /\ isLoad' = [isLoad EXCEPT ![t] = FALSE]
    /\ UNCHANGED <<merge, devList, portList, mapVars, historyVars, undefined>>

NewPoints == points' = IF points = "none" THEN "coming" ELSE points

\* More devices than before: the first new one gets a protocol if its port exists.
DevAdded(i, m) ==
    /\ Enter("dev", i)
    /\ ~isLoad["dev"]
    /\ Cardinality(Listed(devList)) < Cardinality(Listed(m))
    /\ \E d \in Listed(m) \ Listed(devList) :
          \/ /\ m[d] \in Listed(infoMap)
             /\ proto' = [proto EXCEPT ![d] = m[d]]
             /\ dangling' = dangling \ {d}
             /\ NewPoints
             /\ Ignore("dev", Changed(devList, m), {d})
          \/ /\ m[d] \notin Listed(infoMap)
             /\ UNCHANGED <<proto, dangling, points>>
             /\ Ignore("dev", Changed(devList, m), {})
    /\ undefined' \in Torn
    /\ UNCHANGED <<listVars, infoMap, lost>>

\* What is left of a list when the entries that the message lacks are erased.
Kept(list, m) == [x \in DOMAIN list |-> IF m[x] = None THEN None ELSE list[x]]

\* Slip: the list is updated, the protocols are kept.
DevDeletedSlip(i, m) ==
    /\ Enter("dev", i)
    /\ ~isLoad["dev"]
    /\ Cardinality(Listed(devList)) > Cardinality(Listed(m))
    /\ Ignore("dev", Changed(devList, m), Devs \ Listed(m))
    /\ devList' = Kept(devList, m)
    /\ undefined' \in Torn
    /\ UNCHANGED <<isLoad, merge, portList, mapVars, lost>>

\* Fewer devices: the protocols of those that are gone are destroyed, or some of them.
DevDeleted(i, m) ==
    /\ Enter("dev", i)
    /\ ~isLoad["dev"]
    /\ Cardinality(Listed(devList)) > Cardinality(Listed(m))
    /\ LET gone == Listed(proto) \ Listed(m) IN
       /\ \E some \in SUBSET gone :
             /\ gone # {} => some # {}
             /\ proto' = [d \in Devs |-> IF d \in some THEN None ELSE proto[d]]
             /\ dangling' = dangling \ some
             /\ Ignore("dev", Changed(devList, m), Devs \ (Listed(m) \cup (gone \ some)))
       /\ undefined' \in Torn \cup Erasing(gone)
    /\ devList' = Kept(devList, m)
    /\ UNCHANGED <<isLoad, merge, portList, infoMap, points, lost>>

\* As many devices as before: an edit, of which only the list takes notice.
DevEdited(i, m) ==
    /\ Enter("dev", i)
    /\ ~isLoad["dev"]
    /\ Cardinality(Listed(devList)) = Cardinality(Listed(m))
    /\ Ignore("dev", Changed(devList, m), {})
    /\ UNCHANGED <<listVars, mapVars, lost, undefined>>

\* The devices polled over these ports, whose Serial_485 objects are destroyed.
Orphans(gone) == {d \in Devs : proto[d] \in gone}

LeftOut(m) == Listed(portList) \ Listed(m)

\* More ports than before: the first new one is created, in the place of one that is there.
PortAdded(i, m) ==
    /\ Enter("port", i)
    /\ ~isLoad["port"]
    /\ Cardinality(Listed(portList)) < Cardinality(Listed(m))
    /\ \E p \in Listed(m) \ Listed(portList) :
          /\ infoMap' = [infoMap EXCEPT ![p] = m[p]]
          /\ dangling' = dangling \cup Orphans({p} \cap Listed(infoMap))
          /\ Ignore("port", Changed(portList, m), {p})
    /\ lost' = lost \cup LeftOut(m)
    /\ undefined' \in Torn
    /\ UNCHANGED <<listVars, proto, points>>

\* The loop compares the SerialName of the ports left with the names of the map.
Unmatched(m) == Listed(infoMap) \ {m[p] : p \in Listed(m)}

Misnamed(m) == {p \in Listed(m) : m[p] # p}

PortDeleted(i, m) ==
    /\ Enter("port", i)
    /\ ~isLoad["port"]
    /\ Cardinality(Listed(portList)) > Cardinality(Listed(m))
    /\ \E some \in SUBSET Unmatched(m) :
          /\ Unmatched(m) # {} => some # {}
          /\ infoMap' = [p \in Ports |-> IF p \in some THEN None ELSE infoMap[p]]
          /\ dangling' = dangling \cup Orphans(some)
          /\ Ignore("port", Changed(portList, m) \cup Misnamed(m), some \ Listed(m))
    /\ portList' = Kept(portList, m)
    /\ lost' = lost \cup LeftOut(m) \cup Misnamed(m)
    /\ undefined' \in Torn \cup Erasing(Unmatched(m))
    /\ UNCHANGED <<isLoad, merge, devList, proto, points>>

PortEdited(i, m) ==
    /\ Enter("port", i)
    /\ ~isLoad["port"]
    /\ Cardinality(Listed(portList)) = Cardinality(Listed(m))
    /\ Ignore("port", Changed(portList, m), {})
    /\ lost' = lost \cup LeftOut(m)
    /\ UNCHANGED <<listVars, mapVars, undefined>>

DevCallback ==
    \E i \in InHand("dev") :
       LET m == queue["dev"][i]
       IN FirstMessage("dev", i) \/ DevAdded(i, m) \/ DevDeleted(i, m) \/ DevEdited(i, m)

PortCallback ==
    \E i \in InHand("port") :
       LET m == queue["port"][i]
       IN FirstMessage("port", i) \/ PortAdded(i, m) \/ PortDeleted(i, m) \/ PortEdited(i, m)

-----------------------------------------------------------------------------
(* The end of a callback, and the callback of the points *)

List(t) == IF t = "dev" THEN devList ELSE portList
Assign(t, m) == IF t = "dev" THEN devList' = m /\ UNCHANGED portList
                             ELSE portList' = m /\ UNCHANGED devList

InHalf(t) == queue[t][half[t]]

Dequeue(t) ==
    /\ Defined
    /\ half[t] # 0
    /\ half' = [half EXCEPT ![t] = 0]
    /\ queue' = [queue EXCEPT ![t] = RemoveAt(@, half[t])]
    /\ ahead' = [ahead EXCEPT ![t] = @ \/ (1 < half[t] /\ half[t] = Len(queue[t]))]
    /\ undefined' \in Torn

\* Slip: the list is not replaced.
TakeOverSlip(t) ==
    /\ Dequeue(t)
    /\ UNCHANGED <<settingVars, isLoad, merge, devList, portList, mapVars, historyVars, serial>>

TakeOver(t) ==
    /\ Dequeue(t)
    /\ Assign(t, InHalf(t))
    /\ UNCHANGED <<settingVars, isLoad, merge, mapVars, historyVars, serial>>

\* Modbus has published its points; the callback takes no lock.
PointsArrive ==
    /\ Defined
    /\ points = "coming"
    /\ points' = "loaded"
    /\ UNCHANGED <<settingVars, busVars, listVars, infoMap, proto, dangling, historyVars,
                   serial, undefined>>

-----------------------------------------------------------------------------
(* serial_thread *)

\* Slip: the list of ports is not waited for.
ReadyToLoadSlip == ~isLoad["dev"] /\ merge

ReadyToLoad == ~isLoad["dev"] /\ ~isLoad["port"] /\ merge

\* The flags are read without the lock.
TestFlags ==
    /\ Defined
    /\ serial = "top"
    /\ serial' = IF ReadyToLoad THEN "loading" ELSE "toLock"
    /\ UNCHANGED <<settingVars, busVars, mapVars, listVars, historyVars, undefined>>

\* What a callback that is half done brings is not in the lists yet.
Missed(t) == IF half[t] = 0 THEN {} ELSE Changed(List(t), InHalf(t))

LoadBeside == undefined' \in IF \E t \in Topics : half[t] # 0 THEN {"no", "torn"} ELSE {"no"}

\* loadAllList, first loop: every port of the list is created anew.
LoadPorts ==
    /\ Defined
    /\ serial = "loading"
    /\ infoMap' = [p \in Ports |-> IF portList[p] # None THEN portList[p] ELSE infoMap[p]]
    /\ dangling' = dangling \cup Orphans(Listed(infoMap) \cap Listed(portList))
    /\ unheeded' = [unheeded EXCEPT !["dev"] = @ \cup Missed("dev"),
                                    !["port"] = (@ \ Listed(portList)) \cup Missed("port")]
    /\ LoadBeside
    /\ serial' = "loadDevs"
    /\ UNCHANGED <<settingVars, busVars, listVars, proto, points, lost>>

\* Slip: a device that has a protocol keeps it.
RenewedSlip == {d \in Listed(devList) : devList[d] \in Listed(infoMap) /\ proto[d] = None}

Renewed == {d \in Listed(devList) : devList[d] \in Listed(infoMap)}

\* History: the devices of the list whose port is not there.
Portless == {d \in Listed(devList) : devList[d] \notin Listed(infoMap)}

\* loadAllList, second loop: so is every protocol over a port.
LoadDevs ==
    /\ Defined
    /\ serial = "loadDevs"
    /\ proto' = [d \in Devs |-> IF d \in Renewed THEN devList[d] ELSE proto[d]]
    /\ dangling' = dangling \ Renewed
    /\ IF Renewed # {} THEN NewPoints ELSE UNCHANGED points
    /\ merge' = FALSE
    /\ unheeded' = [unheeded EXCEPT
                       !["dev"] = (@ \ Listed(devList)) \cup Portless \cup Missed("dev")]
    /\ LoadBeside
    /\ serial' = "top"
    /\ UNCHANGED <<settingVars, busVars, isLoad, devList, portList, infoMap, lost>>

(***************************************************************************)
(* serialTaskRun locks list_mutex and polls every device.  Using a         *)
(* destroyed port is undefined, and so is v_point[0] if the points have    *)
(* not arrived when the first device is asked.                             *)
(***************************************************************************)
PollBegin ==
    /\ Defined
    /\ serial = "toLock" /\ ~Locked
    /\ serial' = "poll"
    /\ undefined' \in IF dangling # {} THEN {"no", "dangling"}
                      ELSE IF Listed(proto) # {} /\ points # "loaded" THEN {"no", "points"}
                      ELSE {"no"}
    /\ UNCHANGED <<settingVars, busVars, mapVars, listVars, historyVars>>

PollEnd ==
    /\ Defined
    /\ serial = "poll"
    /\ serial' = "top"
    /\ UNCHANGED <<settingVars, busVars, mapVars, listVars, historyVars, undefined>>

-----------------------------------------------------------------------------
Next == \/ ServicePublish \/ Respond
        \/ DevCallback \/ PortCallback \/ (\E t \in Topics : TakeOver(t)) \/ PointsArrive
        \/ TestFlags \/ LoadPorts \/ LoadDevs \/ PollBegin \/ PollEnd

Spec == Init /\ [][Next]_vars

-----------------------------------------------------------------------------
(* Properties *)

TypeOK ==
    /\ devTable \in DevTables /\ devList \in DevTables /\ proto \in DevTables
    /\ portTable \in PortTables /\ portList \in PortTables /\ infoMap \in PortTables
    /\ requests \in 0 .. MaxRequests
    /\ service \in {"idle", "asked"}
    /\ DOMAIN queue = Topics
    /\ queue["dev"] \in Seq(DevTables) /\ queue["port"] \in Seq(PortTables)
    /\ half \in [Topics -> Nat]
    /\ \A t \in Topics : half[t] # 0 => half[t] \in InHand(t)
    /\ \A t, o \in Topics : half[t] # 0 /\ half[o] # 0 => t = o
    /\ isLoad \in [Topics -> BOOLEAN]
    /\ merge \in BOOLEAN /\ (~merge => \A t \in Topics : ~isLoad[t])
    /\ dangling \subseteq Listed(proto)
    /\ points \in {"none", "coming", "loaded"}
    /\ serial \in {"top", "loading", "loadDevs", "toLock", "poll"}
    /\ undefined \in {"no", "torn", "iterator", "dangling", "points"}
    /\ ahead \in [Topics -> BOOLEAN]
    /\ DOMAIN unheeded = Topics
    /\ unheeded["dev"] \subseteq Devs /\ unheeded["port"] \subseteq Ports
    /\ lost \subseteq Ports

(***************************************************************************)
(* A port is destroyed under a device that is polled over it only if a     *)
(* message left the port out (it was deleted or renamed), or a deletion    *)
(* met it under another name than its driver's, or TaskSerial did not act  *)
(* on what it was last told of the device.  Loading the lists beside early *)
(* messages, adding ports, and messages that overtake one another, never   *)
(* do it.                                                                  *)
(***************************************************************************)
PortsOutliveUse ==
    serial # "loadDevs" => \A d \in dangling : d \in unheeded["dev"] \/ proto[d] \in lost

(***************************************************************************)
(* Once the lists are loaded, the maps agree with the lists whenever no    *)
(* callback is under way: each device is polled over its port and each     *)
(* port open on its driver, and nothing else is; except for the devices    *)
(* and ports of which some message was not heeded: those changed by a      *)
(* message of the same size, or by one that adds another device or port    *)
(* first, devices whose port was not there, ports that a deletion met      *)
(* under another name than their driver's, and what a callback brought     *)
(* while the lists were being loaded.                                      *)
(***************************************************************************)
PolledAsListed ==
    ~merge /\ (\A t \in Topics : half[t] = 0) =>
        /\ \A d \in Devs \ unheeded["dev"] : proto[d] = devList[d]
        /\ \A p \in Ports \ unheeded["port"] : infoMap[p] = portList[p]

(***************************************************************************)
(* When every table published has been handled, the list is the table,     *)
(* unless the newest table overtook an older one: the harm of overtaking   *)
(* lasts until the next change.                                            *)
(***************************************************************************)
ListsFollow ==
    \A t \in Topics : queue[t] = <<>> /\ ~ahead[t] => List(t) = Table(t)
=============================================================================
