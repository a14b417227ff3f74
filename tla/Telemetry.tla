----------------------------- MODULE Telemetry ------------------------------
(***************************************************************************)
(* Live values on their way from the polling loop to the browsers.         *)
(* TaskSerial publishes the values of one device at a time; a callback of  *)
(* NetWorkLayerImp stores them in v_RTSrcInfo, then the device in sn.      *)
(* ws_thread (TaskWebSocket.cpp) looks every 3 s, if a browser has asked   *)
(* for a device, whether sn is that device; it sends those values, or the  *)
(* ones it sent last, or none, to every connection of WebSocketService.    *)
(* None of this takes a lock: a step is one access, or several to what no  *)
(* other thread writes.  Two threads on one string, vector or set, of whom *)
(* one writes, are undefined behaviour: it may seem to work or not (down). *)
(*                                                                         *)
(* Values are a device and the number of its reading.  The pool of the bus *)
(* starts the callbacks in order, but runs as many at a time as it has     *)
(* workers: they overtake one another.                                     *)
(***************************************************************************)
EXTENDS Integers, Sequences, FiniteSets, SequencesExt

CONSTANTS Devs,         \* devices, by the name browsers and TaskSerial give them
          None,
          Clients,      \* browsers
          Workers,      \* threads of the pool of the bus: MQ_THREAD_MAX
          MaxReadings   \* bound on the readings of each device

ASSUME TelemetryAssumption == /\ None \notin Devs
                              /\ Workers \in Nat \ {0}
                              /\ MaxReadings \in [Devs -> Nat]

VARIABLES published,                 \* readings of each device so far
          feed, storing,             \* messages whose values are to be stored; whose device is
          v_RTSrcInfo, sn,
          v_PreRTSrcInfo, preSn,
          rttask,                    \* the device asked for, None if isOn is 0
          ws, task,                  \* where ws_thread is, and its copy of rttask
          payload,                   \* what was composed last: for whom, whose values
          shown, raced,              \* history: see the properties
          beside, overtaken,         \* history of the callbacks
          state, connections,        \* of the clients; of WebSocketService
          todo,                      \* connections left to send to
          down                       \* "terminated" by an exception; "torn" by a race

busVars == <<published, feed, storing, beside, overtaken>>
srcVars == <<v_RTSrcInfo, sn>>
preVars == <<v_PreRTSrcInfo, preSn>>
opVars == <<ws, task, payload, shown>>
clientVars == <<state, connections, todo>>
netVars == <<clientVars, down>>
vars == <<busVars, srcVars, preVars, rttask, opVars, raced, netVars>>

Reading == [dev : Devs, n : Nat \ {0}]
NoReading == [dev |-> None, n |-> 0]

Init == /\ published = [d \in Devs |-> 0]
        /\ feed = <<>>
        /\ storing = {}
        /\ beside = FALSE /\ overtaken = {}
        /\ v_RTSrcInfo = NoReading /\ sn = None
        /\ v_PreRTSrcInfo = NoReading /\ preSn = None
        /\ rttask = None
        /\ ws = "idle" /\ task = None
        /\ payload = [for |-> None, val |-> NoReading]
        /\ shown = [d \in Devs |-> 0]
        /\ raced = FALSE
        /\ state = [c \in Clients |-> "out"]
        /\ connections = {}
        /\ todo = {}
        /\ down = "no"

Up == down = "no"

-----------------------------------------------------------------------------
(* TaskSerial and the subscriber *)

PublishValues(d) ==
    /\ Up
    /\ published[d] < MaxReadings[d]
    /\ published' = [published EXCEPT ![d] = @ + 1]
    /\ feed' = Append(feed, [dev |-> d, n |-> published'[d]])
    /\ UNCHANGED <<storing, beside, overtaken, srcVars, preVars, rttask, opVars, raced, netVars>>

TornIf(race) == down' \in IF race THEN {"no", "torn"} ELSE {"no"}

\* The messages whose callback has been started, or can be: by their place in feed.
InHand == {i \in DOMAIN feed : i + Cardinality(storing) <= Workers}

\* ws_thread is between its comparison with sn and its last use of v_RTSrcInfo.
MidRead == ws \in {"compose", "keep"}

(***************************************************************************)
(* History.  beside: two callbacks have been under way at once since the   *)
(* last that ran alone.  overtaken: the devices of which a reading has     *)
(* been stored before an older one.                                        *)
(***************************************************************************)
Overtake(i) == /\ beside' = (storing # {})
               /\ overtaken' = IF \E j \in 1 .. i - 1 : feed[j].dev = feed[i].dev
                               THEN overtaken \cup {feed[i].dev} ELSE overtaken

\* Slip: values of the device that is already there are not stored.
StoreValuesSlip ==
    /\ Up
    /\ \E i \in InHand :
          /\ storing' = storing \cup {feed[i]}
          /\ feed' = RemoveAt(feed, i)
          /\ v_RTSrcInfo' = IF sn = feed[i].dev THEN v_RTSrcInfo ELSE feed[i]
          /\ Overtake(i)
    /\ raced' = (raced \/ MidRead)
    /\ UNCHANGED <<published, sn, preVars, rttask, opVars, netVars>>

StoreValues ==
    /\ Up
    /\ \E i \in InHand :
          /\ storing' = storing \cup {feed[i]}
          /\ feed' = RemoveAt(feed, i)
          /\ v_RTSrcInfo' = feed[i]
          /\ Overtake(i)
    /\ raced' = (raced \/ MidRead)
    /\ TornIf(MidRead \/ Cardinality(InHand) > 1)
    /\ UNCHANGED <<published, sn, preVars, rttask, opVars, clientVars>>

StoreSn ==
    /\ Up
    /\ \E r \in storing :
          /\ sn' = r.dev
          /\ storing' = storing \ {r}
    /\ TornIf(ws = "compare" \/ Cardinality(storing) > 1)
    /\ UNCHANGED <<published, feed, beside, overtaken, v_RTSrcInfo, preVars, rttask, opVars,
                   raced, clientVars>>

-----------------------------------------------------------------------------
(* getRTData, its subscriber, and sendDataToWeb *)

\* A browser asks for a device, or for none.
GetRTData(d) ==
    /\ Up
    /\ rttask' = d
    /\ TornIf(ws = "idle" /\ rttask # None)
    /\ UNCHANGED <<busVars, srcVars, preVars, opVars, raced, clientVars>>

OpBegin ==
    /\ Up
    /\ ws = "idle" /\ rttask # None
    /\ task' = rttask
    /\ ws' = "compare"
    /\ UNCHANGED <<busVars, srcVars, preVars, rttask, payload, shown, raced, netVars>>

Compose(val) ==
    /\ payload' = [for |-> task, val |-> val]
    /\ shown' = IF val.dev = task THEN [shown EXCEPT ![task] = val.n] ELSE shown

Broadcast == /\ ws' = "send"
             /\ todo' = connections
             /\ UNCHANGED <<state, connections, down>>

\* Values of the device asked for are there, or are being replaced just now.
OpMatch ==
    /\ Up
    /\ ws = "compare"
    /\ sn = task
    /\ ws' = "compose"
    /\ raced' = (storing # {} \/ beside)
    /\ UNCHANGED <<busVars, srcVars, preVars, rttask, task, payload, shown, netVars>>

OpCompose ==
    /\ Up
    /\ ws = "compose"
    /\ Compose(v_RTSrcInfo)
    /\ ws' = "keep"
    /\ UNCHANGED <<busVars, srcVars, preVars, rttask, task, raced, netVars>>

\* Slip: what was sent is kept for a device that is new only.
OpKeepSlip ==
    /\ Up
    /\ ws = "keep"
    /\ v_PreRTSrcInfo' = IF preSn = task THEN v_PreRTSrcInfo ELSE v_RTSrcInfo
    /\ preSn' = task
    /\ Broadcast
    /\ UNCHANGED <<busVars, srcVars, rttask, task, payload, shown, raced>>

OpKeep ==
    /\ Up
    /\ ws = "keep"
    /\ v_PreRTSrcInfo' = v_RTSrcInfo
    /\ preSn' = task
    /\ Broadcast
    /\ UNCHANGED <<busVars, srcVars, rttask, task, payload, shown, raced>>

\* Slip: the values kept are sent whoever they were kept for.
OpOtherSlip ==
    /\ Up
    /\ ws = "compare"
    /\ sn # task
    /\ Compose(v_PreRTSrcInfo)
    /\ preSn' = task
    /\ Broadcast
    /\ UNCHANGED <<busVars, srcVars, v_PreRTSrcInfo, rttask, task, raced>>

\* preSn becomes the device asked for although nothing of it was kept.
OpOther ==
    /\ Up
    /\ ws = "compare"
    /\ sn # task
    /\ Compose(IF preSn = task THEN v_PreRTSrcInfo ELSE NoReading)
    /\ preSn' = task
    /\ Broadcast
    /\ UNCHANGED <<busVars, srcVars, v_PreRTSrcInfo, rttask, task, raced>>

-----------------------------------------------------------------------------
(* WebSocketService: send, on ws_thread, and the handlers of its own thread *)

dataVars == <<busVars, srcVars, preVars, rttask, task, payload, shown, raced>>

\* Sending to a connection that is being closed throws, and nobody catches.
SendOne(c) ==
    /\ Up
    /\ ws = "send" /\ c \in todo
    /\ todo' = todo \ {c}
    /\ down' = IF state[c] = "open" THEN down ELSE "terminated"
    /\ UNCHANGED <<dataVars, ws, state, connections>>

SendDone ==
    /\ Up
    /\ ws = "send" /\ todo = {}
    /\ ws' = "idle"
    /\ UNCHANGED <<dataVars, netVars>>

Open(c) ==
    /\ Up
    /\ state[c] = "out"
    /\ state' = [state EXCEPT ![c] = "open"]
    /\ connections' = connections \cup {c}
    /\ TornIf(ws = "send" /\ todo # {})   \* while the loop is on the set
    /\ \/ UNCHANGED todo
       \/ ws = "send" /\ todo # {} /\ todo' = todo \cup {c}
    /\ UNCHANGED <<dataVars, ws>>

\* The peer closes, or is gone; the handler has yet to run.
Closing(c) ==
    /\ Up
    /\ state[c] = "open"
    /\ state' = [state EXCEPT ![c] = "closing"]
    /\ UNCHANGED <<dataVars, ws, connections, todo, down>>

\* Slip: the connection stays in the set.
ClosedSlip(c) ==
    /\ Up
    /\ state[c] = "closing"
    /\ state' = [state EXCEPT ![c] = "out"]
    /\ UNCHANGED <<dataVars, ws, connections, todo, down>>

Closed(c) ==
    /\ Up
    /\ state[c] = "closing"
    /\ state' = [state EXCEPT ![c] = "out"]
    /\ connections' = connections \ {c}
    /\ todo' = todo \ {c}
    /\ TornIf(ws = "send" /\ todo # {})   \* while the loop is on the set
    /\ UNCHANGED <<dataVars, ws>>

-----------------------------------------------------------------------------
Operation == OpBegin \/ OpMatch \/ OpCompose \/ OpKeep \/ OpOther
                \/ (\E c \in Clients : SendOne(c)) \/ SendDone

Next == \/ \E d \in Devs : PublishValues(d)
        \/ StoreValues \/ StoreSn
        \/ \E d \in Devs \cup {None} : GetRTData(d)
        \/ Operation
        \/ \E c \in Clients : Open(c) \/ Closing(c) \/ Closed(c)

Spec == Init /\ [][Next]_vars

\* ws_thread and the pool run; nobody need publish, ask, connect or leave.
FairSpec == Spec /\ WF_vars(StoreValues \/ StoreSn) /\ WF_vars(Operation)

-----------------------------------------------------------------------------
(* Properties *)

TypeOK ==
    /\ published \in [Devs -> Nat] /\ shown \in [Devs -> Nat]
    /\ feed \in Seq(Reading)
    /\ storing \subseteq Reading
    /\ {v_RTSrcInfo, v_PreRTSrcInfo} \subseteq Reading \cup {NoReading}
    /\ {sn, preSn, rttask, task} \subseteq Devs \cup {None}
    /\ payload \in [for : Devs \cup {None}, val : Reading \cup {NoReading}]
    /\ ws \in {"idle", "compare", "compose", "keep", "send"}
    /\ raced \in BOOLEAN /\ beside \in BOOLEAN
    /\ overtaken \subseteq Devs
    /\ state \in [Clients -> {"out", "open", "closing"}]
    /\ connections = {c \in Clients : state[c] # "out"}
    /\ todo \subseteq connections
    /\ down \in {"no", "terminated", "torn"}

(***************************************************************************)
(* A browser that switches to another device is never shown the former     *)
(* one's values at once, and a device whose values have been shown goes on *)
(* being shown with its own: only directly after an empty answer (or a     *)
(* wrong one) for the same device may the values be another's; or if a     *)
(* callback wrote while ws_thread was reading, or two callbacks were under *)
(* way at once and none has run alone since: their values and devices may  *)
(* have crossed.                                                           *)
(***************************************************************************)
WrongOnlyAfterEmpty ==
    [][ \/ raced'
        \/ payload'.val.dev \in {payload'.for, None}
        \/ payload.for = payload'.for /\ payload.val.dev # payload.for ]_payload

(***************************************************************************)
(* What is shown of a device never gets older, cached or not, whatever     *)
(* other devices were asked for in between: only the bus can make it, by   *)
(* storing two readings of that very device in the wrong order.            *)
(***************************************************************************)
OlderOnlyIfOvertaken ==
    [][payload'.for \in Devs \ overtaken /\ payload'.val.dev = payload'.for =>
          payload'.val.n >= shown[payload'.for]]_payload

(***************************************************************************)
(* If a browser keeps asking for a device and that device is the last that *)
(* was polled, its newest values are shown in the end, once browsers stop  *)
(* coming and going while a broadcast is on its way, unless its readings   *)
(* were stored in the wrong order or the last callbacks overlapped.        *)
(***************************************************************************)
LatestIsShown ==
    \A d \in Devs :
        /\ <>[](rttask = d /\ sn = d /\ Up /\ ~beside /\ d \notin overtaken)
        /\ <>[][FALSE]_connections
        => <>[](payload = [for |-> d, val |-> [dev |-> d, n |-> published[d]]])
=============================================================================
