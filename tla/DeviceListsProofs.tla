------------------------- MODULE DeviceListsProofs --------------------------
(***************************************************************************)
(* Theorems about DeviceLists for any devices and ports, any number of     *)
(* requests and any number of workers.                                     *)
(***************************************************************************)
EXTENDS DeviceLists, SequenceTheorems, TLAPS

Tables(t) == IF t = "dev" THEN DevTables ELSE PortTables

\* The queue of a topic, as TypeOK has it.
QueueOK == DOMAIN queue = Topics /\ \A t \in Topics : queue[t] \in Seq(Tables(t))

LEMMA QueueForm == QueueOK <=> /\ DOMAIN queue = Topics
                               /\ queue["dev"] \in Seq(DevTables)
                               /\ queue["port"] \in Seq(PortTables)
  BY DEF QueueOK, Topics, Tables

\* What is left when one message has been taken out of a queue.
LEMMA Removed ==
  ASSUME NEW S, NEW s \in Seq(S), NEW i \in DOMAIN s
  PROVE  /\ RemoveAt(s, i) \in Seq(S)
         /\ Len(RemoveAt(s, i)) = Len(s) - 1
         /\ i # Len(s) => RemoveAt(s, i)[Len(s) - 1] = s[Len(s)]
<1> DEFINE a == SubSeq(s, 1, i - 1)
           b == SubSeq(s, i + 1, Len(s))
<1>1. i \in 1 .. Len(s) /\ Len(s) \in Nat
  OBVIOUS
<1>2. a \in Seq(S) /\ Len(a) = i - 1
  BY <1>1
<1>3. b \in Seq(S) /\ Len(b) = Len(s) - i
  BY <1>1
<1>4. \A j \in 1 .. Len(s) - i : b[j] = s[i + j]
  BY <1>1
<1>5. RemoveAt(s, i) = a \o b
  BY DEF RemoveAt
<1> HIDE DEF a, b
<1>6. /\ a \o b \in Seq(S) /\ Len(a \o b) = Len(a) + Len(b)
      /\ \A j \in 1 .. Len(a) + Len(b) : (a \o b)[j] = IF j <= Len(a) THEN a[j] ELSE b[j - Len(a)]
  BY <1>2, <1>3, ConcatProperties
<1>7. ASSUME i # Len(s) PROVE (a \o b)[Len(s) - 1] = s[Len(s)]
  <2> DEFINE n == Len(s)
             k == Len(a)
             l == Len(b)
  <2>a. i \in Int /\ n \in Int /\ 1 <= i /\ i < n /\ k = i - 1 /\ l = n - i
    BY <1>1, <1>2, <1>3, <1>7
  <2> HIDE DEF n, k, l
  <2>c. \A j, o \in Int : 1 <= j /\ j < o =>
           /\ o - j \in 1 .. o - j /\ o - 1 \in 1 .. (j - 1) + (o - j)
           /\ ~(o - 1 <= j - 1) /\ o - 1 - (j - 1) = o - j /\ j + (o - j) = o
    OBVIOUS
  <2>b. /\ n - i \in 1 .. n - i /\ n - 1 \in 1 .. k + l
        /\ ~(n - 1 <= k) /\ n - 1 - k = n - i /\ i + (n - i) = n
    BY <2>a, <2>c, Zenon
  <2>1. /\ Len(s) - i \in 1 .. Len(s) - i /\ Len(s) - 1 \in 1 .. Len(a) + Len(b)
        /\ ~(Len(s) - 1 <= Len(a))
        /\ Len(s) - 1 - Len(a) = Len(s) - i
        /\ i + (Len(s) - i) = Len(s)
    BY <2>b DEF n, k, l
  <2>2. (a \o b)[Len(s) - 1] = b[Len(s) - i]
    BY <1>6, <2>1
  <2>3. b[Len(s) - i] = s[i + (Len(s) - i)]
    BY <1>4, <2>1
  <2>4. QED
    BY <2>1, <2>2, <2>3
<1>8. Len(a) + Len(b) = Len(s) - 1
  BY <1>1, <1>2, <1>3
<1>9. QED
  BY <1>5, <1>6, <1>7, <1>8

\* Publishing leaves the messages that are there where they are.
LEMMA Appended ==
  ASSUME NEW S, NEW s \in Seq(S), NEW x \in S
  PROVE  /\ Append(s, x) \in Seq(S)
         /\ Len(Append(s, x)) = Len(s) + 1
         /\ Append(s, x)[Len(s) + 1] = x
         /\ \A i \in DOMAIN s : i \in DOMAIN Append(s, x) /\ Append(s, x)[i] = s[i]
  BY AppendProperties

-----------------------------------------------------------------------------
(***************************************************************************)
(* Types *)
(***************************************************************************)
LEMMA TypeInit == Init => TypeOK
<1> SUFFICES ASSUME Init PROVE TypeOK
  OBVIOUS
<1>1. /\ [d \in Devs |-> None] \in DevTables /\ [p \in Ports |-> None] \in PortTables
      /\ Listed([d \in Devs |-> None]) = {}
  BY DEF DevTables, PortTables, Listed
<1>2. DOMAIN queue = Topics /\ queue["dev"] = <<devTable>> /\ queue["port"] = <<portTable>>
  BY DEF Init, Topics
<1>3. queue["dev"] \in Seq(DevTables) /\ queue["port"] \in Seq(PortTables)
  <2>1. devTable \in DevTables /\ portTable \in PortTables
    BY DEF Init
  <2>2. <<devTable>> \in Seq(DevTables) /\ <<portTable>> \in Seq(PortTables)
    BY <2>1
  <2>3. QED
    BY <1>2, <2>2
<1>4. 0 \in 0 .. MaxRequests
  BY ListAssumption
<1>5. half \in [Topics -> Nat] /\ \A t \in Topics : half[t] = 0
  BY DEF Init
<1>6. isLoad \in [Topics -> BOOLEAN] /\ ahead \in [Topics -> BOOLEAN]
  BY DEF Init
<1>7. /\ DOMAIN unheeded = Topics
      /\ unheeded["dev"] \subseteq Devs /\ unheeded["port"] \subseteq Ports
  BY DEF Init, Topics
<1>8. QED
  BY <1>1, <1>2, <1>3, <1>4, <1>5, <1>6, <1>7 DEF Init, TypeOK

\* What a request can do to the tables and the queues.
LEMMA ChangeStep ==
  ASSUME TypeOK, Change
  PROVE  /\ devTable' \in DevTables /\ portTable' \in PortTables
         /\ QueueOK' /\ ahead' \in [Topics -> BOOLEAN]
         /\ \A t \in Topics : \A i \in DOMAIN queue[t] :
               i \in DOMAIN queue'[t] /\ queue'[t][i] = queue[t][i]
         /\ \/ UNCHANGED <<devTable, portTable, queue, ahead>>
            \/ \E t \in Topics :
                  /\ \A o \in Topics \ {t} : /\ queue'[o] = queue[o] /\ ahead'[o] = ahead[o]
                                             /\ Table(o)' = Table(o)
                  /\ queue'[t] # <<>> /\ queue'[t][Len(queue'[t])] = Table(t)'
<1>1. QueueOK
  BY QueueForm DEF TypeOK
<1>2. ASSUME NEW t \in Topics, NEW table \in Tables(t), Publish(t, table)
      PROVE  /\ QueueOK' /\ ahead' \in [Topics -> BOOLEAN]
             /\ \A o \in Topics \ {t} : queue'[o] = queue[o] /\ ahead'[o] = ahead[o]
             /\ queue'[t] # <<>> /\ queue'[t][Len(queue'[t])] = table
             /\ \A o \in Topics : \A i \in DOMAIN queue[o] :
                   i \in DOMAIN queue'[o] /\ queue'[o][i] = queue[o][i]
  <2>1. queue[t] \in Seq(Tables(t))
    BY <1>1 DEF QueueOK
  <2> DEFINE q == Append(queue[t], table)
  <2>2. /\ q \in Seq(Tables(t)) /\ Len(q) = Len(queue[t]) + 1 /\ q[Len(queue[t]) + 1] = table
        /\ \A i \in DOMAIN queue[t] : i \in DOMAIN q /\ q[i] = queue[t][i]
    BY <2>1, Appended
  <2>3. queue' = [queue EXCEPT ![t] = q] /\ DOMAIN queue = Topics
    BY <1>1, <1>2 DEF Publish, QueueOK
  <2>4. q # <<>>
    BY <2>1, <2>2
  <2> HIDE DEF q
  <2>5. queue'[t] = q /\ DOMAIN queue' = Topics /\ \A o \in Topics \ {t} : queue'[o] = queue[o]
    BY <2>3
  <2>6. QueueOK'
    BY <1>1, <2>2, <2>5 DEF QueueOK
  <2>7. ahead' \in [Topics -> BOOLEAN] /\ \A o \in Topics \ {t} : ahead'[o] = ahead[o]
    BY <1>2 DEF Publish, TypeOK
  <2>8. QED
    BY <2>2, <2>4, <2>5, <2>6, <2>7
<1>3. ASSUME NEW table \in DevTables, SetDevs(table)
      PROVE  /\ Publish("dev", table) /\ devTable' \in DevTables /\ portTable' \in PortTables
             /\ Table("dev")' = table /\ Table("port")' = Table("port")
  BY <1>3 DEF SetDevs, TypeOK, Table
<1>4. ASSUME NEW table \in PortTables, SetPorts(table)
      PROVE  /\ Publish("port", table) /\ devTable' \in DevTables /\ portTable' \in PortTables
             /\ Table("port")' = table /\ Table("dev")' = Table("dev")
  BY <1>4 DEF SetPorts, TypeOK, Table
<1>5. CASE \E table \in DevTables : SetDevs(table)
  <2>1. PICK table \in DevTables : SetDevs(table)
    BY <1>5
  <2>2. "dev" \in Topics /\ table \in Tables("dev") /\ Topics \ {"dev"} = {"port"}
    BY DEF Topics, Tables
  <2>3. QED
    BY <1>2, <1>3, <2>1, <2>2
<1>6. CASE \E table \in PortTables : SetPorts(table)
  <2>1. PICK table \in PortTables : SetPorts(table)
    BY <1>6
  <2>2. "port" \in Topics /\ table \in Tables("port") /\ Topics \ {"port"} = {"dev"}
    BY DEF Topics, Tables
  <2>3. QED
    BY <1>2, <1>4, <2>1, <2>2
<1>7. CASE AddDev \/ EditDev \/ DelDev
  <2>1. \A d, e \in Devs, p \in Ports \cup {None} :
           /\ [devTable EXCEPT ![d] = p] \in DevTables
           /\ [devTable EXCEPT ![d] = None, ![e] = p] \in DevTables
    BY DEF TypeOK, DevTables
  <2>2. \E table \in DevTables : SetDevs(table)
    BY <1>7, <2>1 DEF AddDev, EditDev, DelDev, Listed, TypeOK, DevTables
  <2>3. QED
    BY <1>5, <2>2
<1>8. CASE AddPort \/ EditPort \/ DelPort
  <2>1. \A p, q \in Ports, s \in Ttys \cup {None} :
           /\ [portTable EXCEPT ![p] = s] \in PortTables
           /\ [portTable EXCEPT ![p] = None, ![q] = s] \in PortTables
    BY DEF TypeOK, PortTables
  <2>2. \E table \in PortTables : SetPorts(table)
    BY <1>8, <2>1 DEF AddPort, EditPort, DelPort, Listed, TypeOK, PortTables
  <2>3. QED
    BY <1>6, <2>2
<1>9. CASE NoChange
  BY <1>1, <1>9 DEF NoChange, TypeOK, QueueOK
<1>10. QED
  BY <1>7, <1>8, <1>9 DEF Change

\* The messages the callbacks are half through with, as TypeOK has them.
HalfOK == /\ half \in [Topics -> Nat]
          /\ \A t \in Topics : half[t] # 0 => half[t] \in InHand(t)
          /\ \A t, o \in Topics : half[t] # 0 /\ half[o] # 0 => t = o

\* A callback begins: the message is one of the queue, and it alone is begun.
LEMMA Entered ==
  ASSUME TypeOK, NEW t \in Topics, NEW i \in InHand(t), Enter(t, i)
  PROVE  /\ HalfOK' /\ half'[t] = i /\ \A o \in Topics \ {t} : half'[o] = 0
         /\ \A o \in Topics : half[o] = 0
         /\ i \in DOMAIN queue[t] /\ i # 0 /\ queue[t] # <<>> /\ queue[t][i] \in Tables(t)
<1>1. queue[t] \in Seq(Tables(t))
  BY QueueForm DEF TypeOK, QueueOK
<1>2. i \in DOMAIN queue[t] /\ i \in Nat \ {0} /\ queue[t] # <<>> /\ queue[t][i] \in Tables(t)
  BY <1>1 DEF InHand
<1>3. \A o \in Topics : half[o] = 0
  BY DEF Enter, Locked
<1>4. half' = [half EXCEPT ![t] = i] /\ queue' = queue /\ half \in [Topics -> Nat]
  BY DEF Enter, TypeOK
<1>5. half' \in [Topics -> Nat] /\ half'[t] = i /\ \A o \in Topics \ {t} : half'[o] = 0
  BY <1>2, <1>3, <1>4
<1>6. \A o \in Topics : half'[o] # 0 => half'[o] \in InHand(o)'
  BY <1>4, <1>5 DEF InHand
<1>7. QED
  BY <1>2, <1>3, <1>5, <1>6 DEF HalfOK

LEMMA DevCallbackType == TypeOK /\ DevCallback => TypeOK'
<1> SUFFICES ASSUME TypeOK, NEW i \in InHand("dev"),
                    \/ FirstMessage("dev", i) \/ DevAdded(i, queue["dev"][i])
                    \/ DevDeleted(i, queue["dev"][i]) \/ DevEdited(i, queue["dev"][i])
             PROVE  TypeOK'
  BY DEF DevCallback
<1> DEFINE m == queue["dev"][i]
<1>1. Enter("dev", i) /\ "dev" \in Topics
  BY DEF FirstMessage, DevAdded, DevDeleted, DevEdited, Topics
<1>2. HalfOK' /\ m \in DevTables
  BY <1>1, Entered DEF Tables
<1>3. UNCHANGED <<settingVars, queue, ahead, serial>>
  BY <1>1 DEF Enter
<1>4. Changed(devList, m) \subseteq Devs
  BY <1>2 DEF Changed, DevTables
<1> HIDE DEF m
<1> USE <1>2, <1>3 DEF TypeOK, HalfOK, settingVars
<1>5. CASE FirstMessage("dev", i)
  BY <1>5 DEF FirstMessage, Topics, mapVars, historyVars
<1>6. CASE DevAdded(i, m)
  <2>1. PICK d \in Listed(m) \ Listed(devList) :
          \/ /\ m[d] \in Listed(infoMap)
             /\ proto' = [proto EXCEPT ![d] = m[d]]
             /\ dangling' = dangling \ {d}
             /\ NewPoints
             /\ Ignore("dev", Changed(devList, m), {d})
          \/ /\ m[d] \notin Listed(infoMap)
             /\ UNCHANGED <<proto, dangling, points>>
             /\ Ignore("dev", Changed(devList, m), {})
    BY <1>6 DEF DevAdded
  <2>2. d \in Devs /\ m[d] \in Ports \cup {None} /\ m[d] # None
    BY DEF Listed, DevTables
  <2>3. proto' \in DevTables
    BY <2>1, <2>2 DEF DevTables
  <2>4. dangling' \subseteq Listed(proto')
    BY <2>1, <2>2 DEF Listed, DevTables
  <2>5. points' \in {"none", "coming", "loaded"}
    BY <2>1 DEF NewPoints
  <2>6. /\ DOMAIN unheeded' = Topics
        /\ unheeded'["dev"] \subseteq Devs /\ unheeded'["port"] \subseteq Ports
    BY <1>4, <2>1 DEF Ignore, Topics
  <2>7. UNCHANGED <<isLoad, merge, devList, portList, infoMap, lost>> /\ undefined' \in {"no", "torn"}
    BY <1>6 DEF DevAdded, listVars, Torn
  <2>8. QED
    BY <2>3, <2>4, <2>5, <2>6, <2>7
<1>7. CASE DevDeleted(i, m)
  <2> DEFINE gone == Listed(proto) \ Listed(m)
  <2>1. PICK some \in SUBSET gone :
             /\ proto' = [d \in Devs |-> IF d \in some THEN None ELSE proto[d]]
             /\ dangling' = dangling \ some
             /\ Ignore("dev", Changed(devList, m), Devs \ (Listed(m) \cup (gone \ some)))
    BY <1>7 DEF DevDeleted
  <2> HIDE DEF gone
  <2>2. proto' \in DevTables /\ dangling' \subseteq Listed(proto')
    BY <2>1 DEF DevTables, Listed
  <2>3. /\ DOMAIN unheeded' = Topics
        /\ unheeded'["dev"] \subseteq Devs /\ unheeded'["port"] \subseteq Ports
    BY <1>4, <2>1 DEF Ignore, Topics
  <2>4. devList' \in DevTables
    BY <1>7 DEF DevDeleted, Kept, DevTables
  <2>5. UNCHANGED <<isLoad, merge, portList, infoMap, points, lost>>
        /\ undefined' \in {"no", "torn", "iterator"}
    BY <1>7 DEF DevDeleted, Torn, Erasing
  <2>6. QED
    BY <2>2, <2>3, <2>4, <2>5
<1>8. CASE DevEdited(i, m)
  <2>1. /\ DOMAIN unheeded' = Topics
        /\ unheeded'["dev"] \subseteq Devs /\ unheeded'["port"] \subseteq Ports
    BY <1>4, <1>8 DEF DevEdited, Ignore, Topics
  <2>2. QED
    BY <1>8, <2>1 DEF DevEdited, listVars, mapVars
<1>9. QED
  BY <1>5, <1>6, <1>7, <1>8 DEF m

LEMMA PortCallbackType == TypeOK /\ PortCallback => TypeOK'
<1> SUFFICES ASSUME TypeOK, NEW i \in InHand("port"),
                    \/ FirstMessage("port", i) \/ PortAdded(i, queue["port"][i])
                    \/ PortDeleted(i, queue["port"][i]) \/ PortEdited(i, queue["port"][i])
             PROVE  TypeOK'
  BY DEF PortCallback
<1> DEFINE m == queue["port"][i]
<1>1. Enter("port", i) /\ "port" \in Topics
  BY DEF FirstMessage, PortAdded, PortDeleted, PortEdited, Topics
<1>2. HalfOK' /\ m \in PortTables
  BY <1>1, Entered DEF Tables
<1>3. UNCHANGED <<settingVars, queue, ahead, serial>>
  BY <1>1 DEF Enter
<1>4. Changed(portList, m) \subseteq Ports /\ LeftOut(m) \subseteq Ports /\ Misnamed(m) \subseteq Ports
  BY <1>2 DEF Changed, LeftOut, Misnamed, Listed, PortTables, TypeOK
<1>a. \A gone : None \notin gone => Orphans(gone) \subseteq Listed(proto)
  BY DEF Orphans, Listed, TypeOK, DevTables
<1>b. None \notin Listed(infoMap)
  BY ListAssumption DEF Listed, TypeOK, PortTables
<1> HIDE DEF m
<1> USE <1>2, <1>3 DEF TypeOK, HalfOK, settingVars
<1>5. CASE FirstMessage("port", i)
  BY <1>5 DEF FirstMessage, Topics, mapVars, historyVars
<1>6. CASE PortAdded(i, m)
  <2>1. PICK p \in Listed(m) \ Listed(portList) :
          /\ infoMap' = [infoMap EXCEPT ![p] = m[p]]
          /\ dangling' = dangling \cup Orphans({p} \cap Listed(infoMap))
          /\ Ignore("port", Changed(portList, m), {p})
    BY <1>6 DEF PortAdded
  <2>2. infoMap' \in PortTables
    BY <2>1 DEF Listed, PortTables
  <2>3. dangling' \subseteq Listed(proto)
    BY <1>a, <1>b, <2>1
  <2>4. /\ DOMAIN unheeded' = Topics
        /\ unheeded'["dev"] \subseteq Devs /\ unheeded'["port"] \subseteq Ports
    BY <1>4, <2>1 DEF Ignore, Topics
  <2>5. /\ UNCHANGED <<isLoad, merge, devList, portList, proto, points>>
        /\ undefined' \in {"no", "torn"} /\ lost' \subseteq Ports
    BY <1>4, <1>6 DEF PortAdded, listVars, Torn
  <2>6. QED
    BY <2>2, <2>3, <2>4, <2>5
<1>7. CASE PortDeleted(i, m)
  <2>1. PICK some \in SUBSET Unmatched(m) :
          /\ infoMap' = [p \in Ports |-> IF p \in some THEN None ELSE infoMap[p]]
          /\ dangling' = dangling \cup Orphans(some)
          /\ Ignore("port", Changed(portList, m) \cup Misnamed(m), some \ Listed(m))
    BY <1>7 DEF PortDeleted
  <2>2. infoMap' \in PortTables
    BY <2>1 DEF PortTables
  <2>3. dangling' \subseteq Listed(proto)
    BY <1>a, <1>b, <2>1 DEF Unmatched
  <2>4. /\ DOMAIN unheeded' = Topics
        /\ unheeded'["dev"] \subseteq Devs /\ unheeded'["port"] \subseteq Ports
    BY <1>4, <2>1 DEF Ignore, Topics
  <2>5. portList' \in PortTables
    BY <1>7 DEF PortDeleted, Kept, PortTables
  <2>6. /\ UNCHANGED <<isLoad, merge, devList, proto, points>>
        /\ undefined' \in {"no", "torn", "iterator"} /\ lost' \subseteq Ports
    BY <1>4, <1>7 DEF PortDeleted, Torn, Erasing
  <2>7. QED
    BY <2>2, <2>3, <2>4, <2>5, <2>6
<1>8. CASE PortEdited(i, m)
  <2>1. /\ DOMAIN unheeded' = Topics /\ lost' \subseteq Ports
        /\ unheeded'["dev"] \subseteq Devs /\ unheeded'["port"] \subseteq Ports
    BY <1>4, <1>8 DEF PortEdited, Ignore, Topics
  <2>2. QED
    BY <1>8, <2>1 DEF PortEdited, listVars, mapVars
<1>9. QED
  BY <1>5, <1>6, <1>7, <1>8 DEF m

\* A callback ends: its message leaves the queue and becomes the list.
LEMMA Dequeued ==
  ASSUME TypeOK, NEW t \in Topics, Dequeue(t)
  PROVE  /\ half[t] \in DOMAIN queue[t] /\ InHalf(t) \in Tables(t)
         /\ QueueOK' /\ HalfOK' /\ \A o \in Topics : half'[o] = 0
         /\ \A o \in Topics \ {t} : queue'[o] = queue[o] /\ ahead'[o] = ahead[o] /\ half[o] = 0
         /\ queue'[t] = RemoveAt(queue[t], half[t])
<1>1. QueueOK
  BY QueueForm DEF TypeOK
<1>2. half[t] \in DOMAIN queue[t] /\ queue[t] \in Seq(Tables(t))
  BY <1>1 DEF Dequeue, TypeOK, InHand, QueueOK
<1>3. RemoveAt(queue[t], half[t]) \in Seq(Tables(t)) /\ queue[t][half[t]] \in Tables(t)
  BY <1>2, Removed
<1>4. queue' = [queue EXCEPT ![t] = RemoveAt(queue[t], half[t])] /\ DOMAIN queue = Topics
  BY <1>1 DEF Dequeue, QueueOK
<1>5. /\ DOMAIN queue' = Topics /\ queue'[t] = RemoveAt(queue[t], half[t])
      /\ \A o \in Topics \ {t} : queue'[o] = queue[o]
  BY <1>4
<1>6. QueueOK'
  BY <1>1, <1>3, <1>5 DEF QueueOK
<1>7. half' = [half EXCEPT ![t] = 0] /\ half \in [Topics -> Nat] /\ half[t] # 0
  BY DEF Dequeue, TypeOK
<1>8. \A o \in Topics \ {t} : half[o] = 0
  BY <1>7 DEF TypeOK
<1>9. half' \in [Topics -> Nat] /\ \A o \in Topics : half'[o] = 0
  BY <1>7, <1>8
<1>10. \A o \in Topics \ {t} : ahead'[o] = ahead[o]
  BY DEF Dequeue, TypeOK
<1>11. QED
  BY <1>2, <1>3, <1>5, <1>6, <1>8, <1>9, <1>10 DEF HalfOK, InHalf

LEMMA TakeOverType == ASSUME TypeOK, NEW t \in Topics, TakeOver(t) PROVE TypeOK'
<1>1. Dequeue(t)
  BY DEF TakeOver
<1>2. /\ InHalf(t) \in Tables(t) /\ QueueOK' /\ HalfOK'
  BY <1>1, Dequeued
<1>3. /\ DOMAIN queue' = Topics /\ queue'["dev"] \in Seq(DevTables)
      /\ queue'["port"] \in Seq(PortTables)
  BY <1>2 DEF QueueOK, Topics, Tables
<1>4. ahead' \in [Topics -> BOOLEAN] /\ undefined' \in {"no", "torn"}
  <2>1. (ahead[t] \/ (1 < half[t] /\ half[t] = Len(queue[t]))) \in BOOLEAN
    BY DEF TypeOK
  <2>2. QED
    BY <1>1, <2>1 DEF Dequeue, TypeOK, Torn
<1>5. devList' \in DevTables /\ portList' \in PortTables
  BY <1>2 DEF TakeOver, Assign, Topics, Tables, TypeOK
<1>6. QED
  BY <1>2, <1>3, <1>4, <1>5
     DEF TakeOver, TypeOK, HalfOK, settingVars, mapVars, historyVars

(***************************************************************************)
(* The lists are loaded only when both flags say so, and only once; a      *)
(* callback that is under way has cleared its flag.                        *)
(***************************************************************************)
Ready == /\ Loading => merge /\ \A t \in Topics : ~isLoad[t]
         /\ \A t \in Topics : half[t] # 0 => ~isLoad[t]

LEMMA LoadType == TypeOK /\ Ready /\ (LoadPorts \/ LoadDevs) => TypeOK'
<1> SUFFICES ASSUME TypeOK, Ready, LoadPorts \/ LoadDevs PROVE TypeOK'
  OBVIOUS
<1>1. /\ DOMAIN queue = Topics /\ Missed("dev") \subseteq Devs /\ Missed("port") \subseteq Ports
  <2>1. \A t \in Topics : half[t] # 0 => InHalf(t) \in Tables(t)
    BY QueueForm DEF TypeOK, QueueOK, InHand, InHalf
  <2>2. Missed("dev") \subseteq Devs
    BY <2>1 DEF Missed, Changed, Topics, Tables, DevTables
  <2>3. Missed("port") \subseteq Ports
    BY <2>1 DEF Missed, Changed, Topics, Tables, PortTables
  <2>4. QED
    BY <2>2, <2>3 DEF TypeOK
<1>2. undefined' \in {"no", "torn"}
  BY DEF LoadPorts, LoadDevs, LoadBeside
<1>3. CASE LoadPorts
  <2>1. infoMap' \in PortTables
    BY <1>3 DEF LoadPorts, TypeOK, PortTables
  <2>2. Orphans(Listed(infoMap) \cap Listed(portList)) \subseteq Listed(proto)
    BY ListAssumption DEF Orphans, Listed, TypeOK, DevTables, PortTables
  <2>3. dangling' \subseteq Listed(proto)
    BY <1>3, <2>2 DEF LoadPorts, TypeOK
  <2>4. /\ DOMAIN unheeded' = Topics
        /\ unheeded'["dev"] \subseteq Devs /\ unheeded'["port"] \subseteq Ports
    BY <1>1, <1>3 DEF LoadPorts, TypeOK, Topics
  <2>5. QED
    BY <1>2, <1>3, <2>1, <2>3, <2>4
       DEF LoadPorts, TypeOK, settingVars, busVars, listVars, InHand
<1>4. CASE LoadDevs
  <2>1. proto' \in DevTables
    BY <1>4 DEF LoadDevs, TypeOK, DevTables
  <2>2. dangling' \subseteq Listed(proto')
    BY <1>4 DEF LoadDevs, TypeOK, DevTables, Listed, Renewed
  <2>3. points' \in {"none", "coming", "loaded"}
    BY <1>4 DEF LoadDevs, NewPoints, TypeOK
  <2>4. Portless \subseteq Devs
    BY DEF Portless, Listed, TypeOK, DevTables
  <2>5. /\ DOMAIN unheeded' = Topics
        /\ unheeded'["dev"] \subseteq Devs /\ unheeded'["port"] \subseteq Ports
    BY <1>1, <1>4, <2>4 DEF LoadDevs, TypeOK, Topics
  <2>6. \A t \in Topics : ~isLoad[t]
    BY <1>4 DEF LoadDevs, Ready, Loading
  <2>7. QED
    BY <1>2, <1>4, <2>1, <2>2, <2>3, <2>5, <2>6
       DEF LoadDevs, TypeOK, settingVars, busVars, InHand
<1>5. QED
  BY <1>3, <1>4

LEMMA TypeStep == TypeOK /\ Ready /\ [Next]_vars => TypeOK'
<1> SUFFICES ASSUME TypeOK, Ready, [Next]_vars PROVE TypeOK'
  OBVIOUS
<1> USE DEF settingVars, busVars, mapVars, listVars, historyVars
<1>1. CASE ServicePublish
  BY <1>1, ListAssumption DEF ServicePublish, TypeOK, InHand
<1>2. CASE Respond
  <2>1. /\ devTable' \in DevTables /\ portTable' \in PortTables
        /\ QueueOK' /\ ahead' \in [Topics -> BOOLEAN]
        /\ \A t \in Topics : \A i \in DOMAIN queue[t] :
              i \in DOMAIN queue'[t] /\ queue'[t][i] = queue[t][i]
    BY <1>2, ChangeStep DEF Respond
  <2>2. DOMAIN queue' = Topics /\ queue'["dev"] \in Seq(DevTables)
        /\ queue'["port"] \in Seq(PortTables)
    BY <2>1 DEF QueueOK, Topics, Tables
  <2>3. half' = half
    BY <1>2 DEF Respond
  <2>4. \A t \in Topics : half'[t] # 0 => half'[t] \in InHand(t)'
    BY <2>1, <2>3 DEF InHand, TypeOK
  <2>5. QED
    BY <1>2, <2>1, <2>2, <2>3, <2>4 DEF Respond, TypeOK
<1>3. CASE DevCallback \/ PortCallback
  BY <1>3, DevCallbackType, PortCallbackType
<1>4. CASE \E t \in Topics : TakeOver(t)
  BY <1>4, TakeOverType
<1>5. CASE PointsArrive
  BY <1>5 DEF PointsArrive, TypeOK, InHand
<1>6. CASE TestFlags
  BY <1>6 DEF TestFlags, TypeOK, InHand
<1>7. CASE LoadPorts \/ LoadDevs
  BY <1>7, LoadType
<1>8. CASE PollBegin
  BY <1>8 DEF PollBegin, TypeOK, InHand
<1>9. CASE PollEnd
  BY <1>9 DEF PollEnd, TypeOK, InHand
<1>10. CASE UNCHANGED vars
  BY <1>10 DEF vars, TypeOK, InHand
<1>11. QED
  BY <1>1, <1>2, <1>3, <1>4, <1>5, <1>6, <1>7, <1>8, <1>9, <1>10 DEF Next

LEMMA CallbackReady ==
  ASSUME TypeOK, Ready, DevCallback \/ PortCallback
  PROVE  Ready'
<1> SUFFICES ASSUME NEW t \in Topics, NEW i \in InHand(t), Enter(t, i), merge' = merge,
                    \/ isLoad[t] /\ isLoad' = [isLoad EXCEPT ![t] = FALSE]
                    \/ ~isLoad[t] /\ isLoad' = isLoad
             PROVE  Ready'
  BY DEF DevCallback, PortCallback, FirstMessage, DevAdded, DevDeleted, DevEdited, PortAdded,
         PortDeleted, PortEdited, listVars, Topics
<1>1. half' = [half EXCEPT ![t] = i] /\ serial' = serial /\ \A o \in Topics : half[o] = 0
  BY DEF Enter, Locked
<1>2. ~isLoad'[t] /\ \A o \in Topics : ~isLoad[o] => ~isLoad'[o]
  BY DEF TypeOK
<1>3. QED
  BY <1>1, <1>2 DEF Ready, Loading, TypeOK

LEMMA ReadyStep == TypeOK /\ Ready /\ [Next]_vars => Ready'
<1> SUFFICES ASSUME TypeOK, Ready, [Next]_vars PROVE Ready'
  OBVIOUS
<1> USE DEF busVars, listVars, Ready, Loading
<1>1. CASE DevCallback \/ PortCallback
  BY <1>1, CallbackReady
<1>2. CASE \E t \in Topics : TakeOver(t)
  <2>1. PICK t \in Topics : TakeOver(t)
    BY <1>2
  <2>2. \A o \in Topics : half'[o] = 0
    BY <2>1, Dequeued DEF TakeOver
  <2>3. QED
    BY <2>1, <2>2 DEF TakeOver
<1>3. CASE TestFlags
  BY <1>3 DEF TestFlags, ReadyToLoad, Topics
<1>4. CASE ServicePublish \/ Respond \/ PointsArrive
  BY <1>4 DEF ServicePublish, Respond, PointsArrive
<1>5. CASE LoadPorts \/ LoadDevs \/ PollBegin \/ PollEnd
  BY <1>5 DEF LoadPorts, LoadDevs, PollBegin, PollEnd
<1>6. CASE UNCHANGED vars
  BY <1>6 DEF vars
<1>7. QED
  BY <1>1, <1>2, <1>3, <1>4, <1>5, <1>6 DEF Next

LEMMA ReadyInit == Init => Ready
  BY DEF Init, Ready, Loading

(***************************************************************************)
(* The types hold: in particular one callback at a time is under way, the  *)
(* lists are loaded only when both flags are cleared, and a protocol over  *)
(* a destroyed port is one of a device (TaskSerial.cpp 22-166, 237-241).   *)
(***************************************************************************)
THEOREM TypeCorrect == Spec => []TypeOK
  BY TypeInit, TypeStep, ReadyInit, ReadyStep, PTL DEF Spec

-----------------------------------------------------------------------------
(***************************************************************************)
(* The maps and the lists.  The table a topic is about to be: that of the  *)
(* message a callback is half through with, if there is one.  The maps     *)
(* agree with it, not with the list, while a callback is under way.        *)
(***************************************************************************)
DevComing == IF half["dev"] = 0 THEN devList ELSE queue["dev"][half["dev"]]
PortComing == IF half["port"] = 0 THEN portList ELSE queue["port"][half["port"]]

\* Until its first message a topic has brought nothing.
Fresh == /\ isLoad["dev"] => Listed(proto) = {}
         /\ isLoad["port"] => Listed(infoMap) = {} /\ Listed(portList) = {}

DevAgree == \A d \in Devs \ unheeded["dev"] :
               proto[d] = DevComing[d] \/ (merge /\ proto[d] = None)

PortAgree == \A p \in Ports \ unheeded["port"] :
                \/ infoMap[p] = PortComing[p]
                \/ merge /\ serial # "loadDevs" /\ infoMap[p] = None

\* A port that is open although the table lacks it has been left out by some message.
PortKept == Listed(infoMap) \cup Listed(portList) \subseteq Listed(PortComing) \cup lost

\* Between its loops loadAllList has destroyed ports of which it will renew the protocols.
Orphaned == \A d \in dangling : \/ d \in unheeded["dev"] \/ proto[d] \in lost
                                \/ serial = "loadDevs" /\ proto[d] \in Listed(infoMap)

MapsInv == Fresh /\ DevAgree /\ PortAgree /\ PortKept /\ Orphaned

\* The newest table is the last message, or it is the list.
FollowInv == \A t \in Topics : ~ahead[t] => IF queue[t] = <<>> THEN List(t) = Table(t)
                                            ELSE queue[t][Len(queue[t])] = Table(t)

LEMMA InvInit == Init => MapsInv /\ FollowInv
<1> SUFFICES ASSUME Init PROVE MapsInv /\ FollowInv
  OBVIOUS
<1>1. /\ \A d \in Devs : proto[d] = None /\ devList[d] = None
      /\ \A p \in Ports : infoMap[p] = None /\ portList[p] = None
      /\ DOMAIN proto = Devs /\ DOMAIN infoMap = Ports /\ DOMAIN portList = Ports
      /\ half["dev"] = 0 /\ half["port"] = 0 /\ dangling = {} /\ merge
  BY DEF Init, Topics
<1>2. Listed(proto) = {} /\ Listed(infoMap) = {} /\ Listed(portList) = {}
  BY <1>1 DEF Listed
<1>3. MapsInv
  BY <1>1, <1>2 DEF MapsInv, Fresh, DevAgree, PortAgree, PortKept, Orphaned, DevComing, PortComing
<1>4. \A t \in Topics : queue[t] = <<Table(t)>>
  BY DEF Init, Table, Topics
<1>5. QED
  BY <1>3, <1>4 DEF FollowInv

\* Steps that touch neither the maps nor the lists nor the messages already there.
LEMMA Elsewhere ==
  ASSUME MapsInv, UNCHANGED <<mapVars, listVars, historyVars, half>>,
         DevComing' = DevComing, PortComing' = PortComing,
         serial' = serial \/ {serial, serial'} \subseteq {"top", "loading", "toLock", "poll"}
  PROVE  MapsInv'
  BY DEF MapsInv, Fresh, DevAgree, PortAgree, PortKept, Orphaned, mapVars, listVars, historyVars

LEMMA DevCallbackMaps == TypeOK /\ Ready /\ MapsInv /\ DevCallback => MapsInv'
<1> SUFFICES ASSUME TypeOK, Ready, MapsInv, NEW i \in InHand("dev"),
                    \/ FirstMessage("dev", i) \/ DevAdded(i, queue["dev"][i])
                    \/ DevDeleted(i, queue["dev"][i]) \/ DevEdited(i, queue["dev"][i])
             PROVE  MapsInv'
  BY DEF DevCallback
<1> DEFINE m == queue["dev"][i]
<1>1. Enter("dev", i) /\ "dev" \in Topics /\ "port" \in Topics
  BY DEF FirstMessage, DevAdded, DevDeleted, DevEdited, Topics
<1>2. /\ half'["dev"] = i /\ i # 0 /\ half["dev"] = 0 /\ half["port"] = 0 /\ half'["port"] = 0
      /\ m \in DevTables
  BY <1>1, Entered DEF Tables, Topics
<1>3. queue' = queue /\ serial' = serial
  BY <1>1 DEF Enter
<1>4. DevComing = devList /\ DevComing' = m
  BY <1>2, <1>3 DEF DevComing
<1>5. /\ UNCHANGED <<merge, infoMap, portList, lost>>
      /\ isLoad' = isLoad \/ (isLoad["dev"] /\ isLoad' = [isLoad EXCEPT !["dev"] = FALSE])
      /\ unheeded'["port"] = unheeded["port"]
  BY DEF FirstMessage, DevAdded, DevDeleted, DevEdited, listVars, mapVars, historyVars, Ignore,
         TypeOK, Topics
<1>6. PortComing' = PortComing
  BY <1>2, <1>5 DEF PortComing
<1>7. PortAgree' /\ PortKept'
  BY <1>3, <1>5, <1>6 DEF MapsInv, PortAgree, PortKept
<1>8. isLoad'["port"] = isLoad["port"] /\ ~isLoad'["dev"]
  BY <1>5 DEF FirstMessage, DevAdded, DevDeleted, DevEdited, listVars, TypeOK, Topics
<1>9. Fresh'
  BY <1>5, <1>8 DEF MapsInv, Fresh
<1>10. DOMAIN m = Devs /\ DOMAIN proto = Devs /\ DOMAIN unheeded = Topics /\ dangling \subseteq Devs
  BY <1>2 DEF DevTables, TypeOK, Listed
<1> HIDE DEF m
<1>11. \A d \in Devs \ Changed(devList, m) : devList[d] = m[d]
  BY <1>10 DEF Changed
<1>12. \A d \in Devs \ unheeded["dev"] : proto[d] = devList[d] \/ (merge /\ proto[d] = None)
  BY <1>4 DEF MapsInv, DevAgree
<1>13. \A d \in dangling : \/ d \in unheeded["dev"] \/ proto[d] \in lost
                           \/ serial = "loadDevs" /\ proto[d] \in Listed(infoMap)
  BY DEF MapsInv, Orphaned
<1>14. CASE FirstMessage("dev", i)
  <2>1. merge /\ isLoad["dev"] /\ UNCHANGED <<proto, dangling, unheeded>>
    BY <1>14, <1>1 DEF FirstMessage, TypeOK, mapVars, historyVars
  <2>2. \A d \in Devs : proto[d] = None
    BY <2>1, <1>10 DEF MapsInv, Fresh, Listed
  <2>3. DevAgree' /\ Orphaned'
    BY <1>3, <1>5, <1>13, <2>1, <2>2 DEF DevAgree, Orphaned
  <2>4. QED
    BY <1>7, <1>9, <2>3 DEF MapsInv
<1>15. CASE DevAdded(i, m)
  <2>1. PICK d \in Listed(m) \ Listed(devList) :
          \/ /\ m[d] \in Listed(infoMap)
             /\ proto' = [proto EXCEPT ![d] = m[d]]
             /\ dangling' = dangling \ {d}
             /\ Ignore("dev", Changed(devList, m), {d})
          \/ /\ UNCHANGED <<proto, dangling>>
             /\ Ignore("dev", Changed(devList, m), {})
    BY <1>15 DEF DevAdded
  <2>2. d \in Devs /\ \A e \in Devs \ {d} : proto'[e] = proto[e]
    BY <1>10, <2>1 DEF Listed
  <2>3. CASE /\ proto' = [proto EXCEPT ![d] = m[d]]
             /\ dangling' = dangling \ {d}
             /\ Ignore("dev", Changed(devList, m), {d})
    <3>1. /\ proto'[d] = m[d]
          /\ unheeded'["dev"] = (unheeded["dev"] \cup Changed(devList, m)) \ {d}
      BY <1>1, <1>10, <2>2, <2>3 DEF Ignore
    <3>2. DevAgree' /\ Orphaned'
      BY <1>3, <1>4, <1>5, <1>10, <1>11, <1>12, <1>13, <2>2, <2>3, <3>1 DEF DevAgree, Orphaned
    <3>3. QED
      BY <1>7, <1>9, <3>2 DEF MapsInv
  <2>4. CASE UNCHANGED <<proto, dangling>> /\ Ignore("dev", Changed(devList, m), {})
    <3>1. unheeded'["dev"] = unheeded["dev"] \cup Changed(devList, m)
      BY <1>1, <1>10, <2>4 DEF Ignore
    <3>2. DevAgree' /\ Orphaned'
      BY <1>3, <1>4, <1>5, <1>11, <1>12, <1>13, <2>4, <3>1 DEF DevAgree, Orphaned
    <3>3. QED
      BY <1>7, <1>9, <3>2 DEF MapsInv
  <2>5. QED
    BY <2>1, <2>3, <2>4
<1>16. CASE DevDeleted(i, m)
  <2> DEFINE gone == Listed(proto) \ Listed(m)
  <2>1. PICK some \in SUBSET gone :
             /\ proto' = [d \in Devs |-> IF d \in some THEN None ELSE proto[d]]
             /\ dangling' = dangling \ some
             /\ Ignore("dev", Changed(devList, m), Devs \ (Listed(m) \cup (gone \ some)))
    BY <1>16 DEF DevDeleted
  <2>2. unheeded'["dev"] = (unheeded["dev"] \cup Changed(devList, m))
                             \ (Devs \ (Listed(m) \cup (gone \ some)))
    BY <1>1, <1>10, <2>1 DEF Ignore
  <2>3. \A d \in Devs : /\ d \in gone <=> proto[d] # None /\ m[d] = None
                        /\ d \in Listed(m) <=> m[d] # None
    BY <1>10 DEF Listed
  <2>4. some \subseteq gone
    OBVIOUS
  <2> HIDE DEF gone
  <2>5. DevAgree'
    <3> SUFFICES ASSUME NEW d \in Devs \ unheeded'["dev"]
                 PROVE  proto'[d] = m[d] \/ (merge /\ proto'[d] = None)
      BY <1>4, <1>5 DEF DevAgree
    <3>1. CASE d \in some
      BY <2>1, <2>3, <2>4, <3>1
    <3>2. CASE d \notin some
      <4>1. proto'[d] = proto[d]
        BY <2>1, <3>2
      <4>2. CASE proto[d] = None /\ m[d] = None
        BY <4>1, <4>2
      <4>3. CASE ~(proto[d] = None /\ m[d] = None)
        <5>1. d \notin Devs \ (Listed(m) \cup (gone \ some))
          BY <2>3, <3>2, <4>3
        <5>2. d \notin unheeded["dev"] /\ d \notin Changed(devList, m)
          BY <2>2, <5>1
        <5>3. QED
          BY <1>11, <1>12, <4>1, <5>2
      <4>4. QED
        BY <4>2, <4>3
    <3>3. QED
      BY <3>1, <3>2
  <2>6. Orphaned'
    <3> SUFFICES ASSUME NEW d \in dangling'
                 PROVE  \/ d \in unheeded'["dev"] \/ proto'[d] \in lost
                        \/ serial = "loadDevs" /\ proto'[d] \in Listed(infoMap)
      BY <1>3, <1>5 DEF Orphaned
    <3>1. d \in dangling /\ d \notin some /\ d \in Devs
      BY <1>10, <2>1
    <3>2. proto'[d] = proto[d] /\ proto[d] # None
      BY <2>1, <3>1 DEF TypeOK, Listed
    <3>3. d \notin Devs \ (Listed(m) \cup (gone \ some))
      BY <2>3, <3>1, <3>2
    <3>4. QED
      BY <1>13, <2>2, <3>1, <3>2, <3>3
  <2>7. QED
    BY <1>7, <1>9, <2>5, <2>6 DEF MapsInv
<1>17. CASE DevEdited(i, m)
  <2>1. /\ UNCHANGED <<proto, dangling>>
        /\ unheeded'["dev"] = unheeded["dev"] \cup Changed(devList, m)
    BY <1>1, <1>10, <1>17 DEF DevEdited, Ignore, mapVars
  <2>2. DevAgree' /\ Orphaned'
    BY <1>3, <1>4, <1>5, <1>11, <1>12, <1>13, <2>1 DEF DevAgree, Orphaned
  <2>3. QED
    BY <1>7, <1>9, <2>2 DEF MapsInv
<1>18. QED
  BY <1>14, <1>15, <1>16, <1>17 DEF m

LEMMA PortCallbackMaps == TypeOK /\ Ready /\ MapsInv /\ PortCallback => MapsInv'
<1> SUFFICES ASSUME TypeOK, Ready, MapsInv, NEW i \in InHand("port"),
                    \/ FirstMessage("port", i) \/ PortAdded(i, queue["port"][i])
                    \/ PortDeleted(i, queue["port"][i]) \/ PortEdited(i, queue["port"][i])
             PROVE  MapsInv'
  BY DEF PortCallback
<1> DEFINE m == queue["port"][i]
<1>1. Enter("port", i) /\ "dev" \in Topics /\ "port" \in Topics
  BY DEF FirstMessage, PortAdded, PortDeleted, PortEdited, Topics
<1>2. /\ half'["port"] = i /\ i # 0 /\ half["dev"] = 0 /\ half["port"] = 0 /\ half'["dev"] = 0
      /\ m \in PortTables
  BY <1>1, Entered DEF Tables, Topics
<1>3. queue' = queue /\ serial' = serial
  BY <1>1 DEF Enter
<1>4. PortComing = portList /\ PortComing' = m
  BY <1>2, <1>3 DEF PortComing
<1>5. /\ UNCHANGED <<merge, proto, devList>>
      /\ isLoad' = isLoad \/ (isLoad["port"] /\ isLoad' = [isLoad EXCEPT !["port"] = FALSE])
      /\ unheeded'["dev"] = unheeded["dev"]
  BY DEF FirstMessage, PortAdded, PortDeleted, PortEdited, listVars, mapVars, historyVars, Ignore,
         TypeOK, Topics
<1>6. DevComing' = DevComing
  BY <1>2, <1>5 DEF DevComing
<1>7. DevAgree'
  BY <1>5, <1>6 DEF MapsInv, DevAgree
<1>8. isLoad'["dev"] = isLoad["dev"] /\ ~isLoad'["port"]
  BY <1>5 DEF FirstMessage, PortAdded, PortDeleted, PortEdited, listVars, TypeOK, Topics
<1>9. Fresh'
  BY <1>5, <1>8 DEF MapsInv, Fresh
<1>10. /\ DOMAIN m = Ports /\ DOMAIN infoMap = Ports /\ DOMAIN portList = Ports
       /\ DOMAIN unheeded = Topics /\ dangling \subseteq Devs
  BY <1>2 DEF PortTables, TypeOK, Listed, DevTables
<1> HIDE DEF m
<1>11. \A p \in Ports \ Changed(portList, m) : portList[p] = m[p]
  BY <1>10 DEF Changed
<1>12. \A p \in Ports \ unheeded["port"] : \/ infoMap[p] = portList[p]
                                           \/ merge /\ serial # "loadDevs" /\ infoMap[p] = None
  BY <1>4 DEF MapsInv, PortAgree
<1>13. \A d \in dangling : \/ d \in unheeded["dev"] \/ proto[d] \in lost
                           \/ serial = "loadDevs" /\ proto[d] \in Listed(infoMap)
  BY DEF MapsInv, Orphaned
<1>14. Listed(infoMap) \cup Listed(portList) \subseteq Listed(portList) \cup lost
  BY <1>4 DEF MapsInv, PortKept
<1>15. CASE FirstMessage("port", i)
  <2>1. /\ merge /\ isLoad["port"] /\ serial # "loadDevs"
        /\ UNCHANGED <<infoMap, portList, dangling, unheeded, lost>>
    BY <1>15, <1>1 DEF FirstMessage, TypeOK, mapVars, historyVars, Ready, Loading
  <2>2. Listed(infoMap) = {} /\ Listed(portList) = {} /\ \A p \in Ports : infoMap[p] = None
    BY <2>1, <1>10 DEF MapsInv, Fresh, Listed
  <2>3. PortAgree' /\ Orphaned' /\ PortKept'
    BY <1>3, <1>4, <1>5, <1>13, <2>1, <2>2 DEF PortAgree, Orphaned, PortKept
  <2>4. QED
    BY <1>7, <1>9, <2>3 DEF MapsInv
<1>16. CASE PortAdded(i, m)
  <2>1. PICK p \in Listed(m) \ Listed(portList) :
          /\ infoMap' = [infoMap EXCEPT ![p] = m[p]]
          /\ dangling' = dangling \cup Orphans({p} \cap Listed(infoMap))
          /\ Ignore("port", Changed(portList, m), {p})
    BY <1>16 DEF PortAdded
  <2>2. /\ p \in Ports /\ infoMap'[p] = m[p] /\ DOMAIN infoMap' = Ports
        /\ \A q \in Ports \ {p} : infoMap'[q] = infoMap[q]
    BY <1>10, <2>1 DEF Listed
  <2>3. unheeded'["port"] = (unheeded["port"] \cup Changed(portList, m)) \ {p}
    BY <1>1, <1>10, <2>1 DEF Ignore
  <2>4. lost' = lost \cup LeftOut(m) /\ portList' = portList
    BY <1>16 DEF PortAdded, listVars
  <2>5. PortAgree'
    BY <1>3, <1>4, <1>5, <1>11, <1>12, <2>2, <2>3 DEF PortAgree
  <2>6. Listed(infoMap') = Listed(infoMap) \cup {p}
    BY <1>10, <2>1, <2>2 DEF Listed
  <2>7. PortKept'
    BY <1>4, <1>14, <2>1, <2>4, <2>6 DEF PortKept, LeftOut
  <2>8. \A d \in dangling' \ dangling : proto[d] \in lost
    BY <1>14, <2>1 DEF Orphans
  <2>9. Orphaned'
    BY <1>3, <1>5, <1>13, <2>4, <2>6, <2>8 DEF Orphaned
  <2>10. QED
    BY <1>7, <1>9, <2>5, <2>7, <2>9 DEF MapsInv
<1>17. CASE PortDeleted(i, m)
  <2>1. PICK some \in SUBSET Unmatched(m) :
          /\ infoMap' = [p \in Ports |-> IF p \in some THEN None ELSE infoMap[p]]
          /\ dangling' = dangling \cup Orphans(some)
          /\ Ignore("port", Changed(portList, m) \cup Misnamed(m), some \ Listed(m))
    BY <1>17 DEF PortDeleted
  <2>2. unheeded'["port"] = (unheeded["port"] \cup (Changed(portList, m) \cup Misnamed(m)))
                              \ (some \ Listed(m))
    BY <1>1, <1>10, <2>1 DEF Ignore
  <2>3. lost' = lost \cup LeftOut(m) \cup Misnamed(m) /\ portList' = Kept(portList, m)
    BY <1>17 DEF PortDeleted
  <2>4. \A p \in some : p \in Listed(infoMap) /\ (p \in Listed(m) => p \in Misnamed(m))
    BY DEF Unmatched, Misnamed
  <2>5. \A p \in Ports : p \in Listed(m) <=> m[p] # None
    BY <1>10 DEF Listed
  <2>6. PortAgree'
    <3> SUFFICES ASSUME NEW p \in Ports \ unheeded'["port"]
                 PROVE  \/ infoMap'[p] = m[p]
                        \/ merge /\ serial # "loadDevs" /\ infoMap'[p] = None
      BY <1>3, <1>4, <1>5 DEF PortAgree
    <3>1. CASE p \in some /\ p \notin Listed(m)
      BY <2>1, <2>5, <3>1
    <3>2. CASE p \in some /\ p \in Listed(m)
      BY <2>2, <2>4, <3>2
    <3>3. CASE p \notin some
      <4>1. p \notin unheeded["port"] /\ p \notin Changed(portList, m) /\ infoMap'[p] = infoMap[p]
        BY <2>1, <2>2, <3>3
      <4>2. QED
        BY <1>11, <1>12, <4>1
    <3>4. QED
      BY <3>1, <3>2, <3>3
  <2>7. /\ Listed(infoMap') = Listed(infoMap) \ some
        /\ Listed(portList') \subseteq Listed(m)
    <3>1. Listed(infoMap') = Listed(infoMap) \ some
      BY <1>10, <2>1 DEF Listed
    <3>2. portList' = [x \in Ports |-> IF m[x] = None THEN None ELSE portList[x]]
      BY <1>10, <2>3 DEF Kept
    <3>3. Listed(portList') \subseteq Listed(m)
      BY <1>10, <3>2 DEF Listed
    <3>4. QED
      BY <3>1, <3>3
  <2>8. PortKept'
    BY <1>4, <1>14, <2>3, <2>7 DEF PortKept, LeftOut
  <2>9. some \subseteq lost'
    BY <1>14, <2>3, <2>4 DEF LeftOut
  <2>10. \A d \in dangling' \ dangling : proto[d] \in lost'
    BY <2>1, <2>9 DEF Orphans
  <2>11. Orphaned'
    <3> SUFFICES ASSUME NEW d \in dangling'
                 PROVE  \/ d \in unheeded["dev"] \/ proto[d] \in lost'
                        \/ serial = "loadDevs" /\ proto[d] \in Listed(infoMap')
      BY <1>3, <1>5 DEF Orphaned
    <3>1. CASE d \notin dangling
      BY <2>10, <3>1
    <3>2. CASE d \in dangling
      BY <1>13, <2>3, <2>7, <2>9, <3>2
    <3>3. QED
      BY <3>1, <3>2
  <2>12. QED
    BY <1>7, <1>9, <2>6, <2>8, <2>11 DEF MapsInv
<1>18. CASE PortEdited(i, m)
  <2>1. /\ UNCHANGED <<infoMap, portList, dangling>> /\ lost' = lost \cup LeftOut(m)
        /\ unheeded'["port"] = unheeded["port"] \cup Changed(portList, m)
    BY <1>1, <1>10, <1>18 DEF PortEdited, Ignore, mapVars, listVars
  <2>2. PortAgree'
    BY <1>3, <1>4, <1>5, <1>11, <1>12, <2>1 DEF PortAgree
  <2>3. PortKept' /\ Orphaned'
    BY <1>3, <1>4, <1>5, <1>13, <1>14, <2>1 DEF PortKept, Orphaned, LeftOut
  <2>4. QED
    BY <1>7, <1>9, <2>2, <2>3 DEF MapsInv
<1>19. QED
  BY <1>15, <1>16, <1>17, <1>18 DEF m

LEMMA TakeOverMaps ==
  ASSUME TypeOK, Ready, MapsInv, NEW t \in Topics, TakeOver(t)
  PROVE  MapsInv'
<1>1. Dequeue(t) /\ half[t] # 0
  BY DEF TakeOver, Dequeue
<1>2. /\ \A o \in Topics : half'[o] = 0
      /\ \A o \in Topics \ {t} : half[o] = 0
      /\ InHalf(t) \in Tables(t)
  BY <1>1, Dequeued
<1>3. UNCHANGED <<isLoad, merge, mapVars, historyVars, serial>>
  BY DEF TakeOver
<1>4. ~isLoad[t]
  BY <1>1 DEF Ready
<1>5. DevComing' = DevComing
  BY <1>1, <1>2 DEF TakeOver, Assign, DevComing, InHalf, Topics
<1>6. PortComing' = PortComing
  BY <1>1, <1>2 DEF TakeOver, Assign, PortComing, InHalf, Topics
<1>7. portList' = portList \/ (t = "port" /\ portList' = PortComing)
  <2>1. CASE t = "port"
    BY <1>1, <2>1 DEF TakeOver, Assign, PortComing, InHalf
  <2>2. CASE t # "port"
    BY <2>2 DEF TakeOver, Assign, Topics
  <2>3. QED
    BY <2>1, <2>2
<1>8. Fresh'
  BY <1>3, <1>4, <1>7 DEF MapsInv, Fresh, mapVars
<1>9. PortKept'
  BY <1>3, <1>6, <1>7 DEF MapsInv, PortKept, mapVars, historyVars
<1>10. DevAgree' /\ PortAgree' /\ Orphaned'
  BY <1>3, <1>5, <1>6 DEF MapsInv, DevAgree, PortAgree, Orphaned, mapVars, historyVars
<1>11. QED
  BY <1>8, <1>9, <1>10 DEF MapsInv

LEMMA LoadPortsMaps == TypeOK /\ Ready /\ MapsInv /\ LoadPorts => MapsInv'
<1> SUFFICES ASSUME TypeOK, Ready, MapsInv, LoadPorts PROVE MapsInv'
  OBVIOUS
<1>1. /\ serial = "loading" /\ serial' = "loadDevs" /\ ~isLoad["port"]
      /\ UNCHANGED <<proto, points, lost, isLoad, merge, devList, portList, half, queue>>
  BY DEF LoadPorts, Ready, Loading, Topics, listVars, busVars
<1>2. infoMap' = [p \in Ports |-> IF portList[p] # None THEN portList[p] ELSE infoMap[p]]
  BY DEF LoadPorts
<1>3. dangling' = dangling \cup Orphans(Listed(infoMap) \cap Listed(portList))
  BY DEF LoadPorts
<1>4. /\ unheeded'["dev"] = unheeded["dev"] \cup Missed("dev")
      /\ unheeded'["port"] = (unheeded["port"] \ Listed(portList)) \cup Missed("port")
  BY DEF LoadPorts, TypeOK, Topics
<1>5. DevComing' = DevComing /\ PortComing' = PortComing
  BY <1>1 DEF DevComing, PortComing
<1>6. DOMAIN infoMap = Ports /\ DOMAIN portList = Ports
  BY DEF TypeOK, PortTables
<1>7. \A p \in Ports \ Missed("port") : PortComing[p] = portList[p]
  <2>1. CASE half["port"] = 0
    BY <2>1 DEF PortComing
  <2>2. CASE half["port"] # 0
    <3>1. InHalf("port") \in PortTables
      BY <2>2, QueueForm DEF TypeOK, QueueOK, InHand, InHalf, Topics, Tables
    <3>2. Missed("port") = Changed(portList, InHalf("port")) /\ PortComing = InHalf("port")
      BY <2>2 DEF Missed, List, PortComing, InHalf
    <3>3. QED
      BY <3>1, <3>2 DEF Changed, PortTables
  <2>3. QED
    BY <2>1, <2>2
<1>8. Fresh'
  BY <1>1 DEF MapsInv, Fresh
<1>9. DevAgree'
  BY <1>1, <1>4, <1>5 DEF MapsInv, DevAgree
<1>10. PortAgree'
  <2> SUFFICES ASSUME NEW p \in Ports \ unheeded'["port"]
               PROVE  infoMap'[p] = PortComing[p]
    BY <1>5 DEF PortAgree
  <2>1. PortComing[p] = portList[p]
    BY <1>4, <1>7
  <2>2. CASE portList[p] # None
    BY <1>2, <2>1, <2>2
  <2>3. CASE portList[p] = None
    <3>1. p \notin unheeded["port"]
      BY <1>4, <2>3 DEF Listed
    <3>2. infoMap[p] = PortComing[p] \/ infoMap[p] = None
      BY <3>1 DEF MapsInv, PortAgree
    <3>3. QED
      BY <1>2, <2>1, <2>3, <3>2
  <2>4. QED
    BY <2>2, <2>3
<1>11. Listed(infoMap') = Listed(infoMap) \cup Listed(portList)
  BY <1>2, <1>6 DEF Listed
<1>12. PortKept'
  BY <1>1, <1>5, <1>11 DEF MapsInv, PortKept
<1>13. Orphaned'
  BY <1>1, <1>3, <1>4, <1>11 DEF MapsInv, Orphaned, Orphans
<1>14. QED
  BY <1>8, <1>9, <1>10, <1>12, <1>13 DEF MapsInv

LEMMA LoadDevsMaps == TypeOK /\ Ready /\ MapsInv /\ LoadDevs => MapsInv'
<1> SUFFICES ASSUME TypeOK, Ready, MapsInv, LoadDevs PROVE MapsInv'
  OBVIOUS
<1>1. /\ serial = "loadDevs" /\ serial' = "top" /\ ~isLoad["dev"]
      /\ UNCHANGED <<infoMap, lost, isLoad, devList, portList, half, queue>>
  BY DEF LoadDevs, Ready, Loading, Topics, busVars
<1>2. proto' = [d \in Devs |-> IF d \in Renewed THEN devList[d] ELSE proto[d]]
  BY DEF LoadDevs
<1>3. dangling' = dangling \ Renewed
  BY DEF LoadDevs
<1>4. /\ unheeded'["dev"] = (unheeded["dev"] \ Listed(devList)) \cup Portless \cup Missed("dev")
      /\ unheeded'["port"] = unheeded["port"]
  BY DEF LoadDevs, TypeOK, Topics
<1>5. DevComing' = DevComing /\ PortComing' = PortComing
  BY <1>1 DEF DevComing, PortComing
<1>6. DOMAIN proto = Devs /\ DOMAIN devList = Devs /\ dangling \subseteq Devs
  BY DEF TypeOK, DevTables, Listed
<1>7. \A d \in Devs \ Missed("dev") : DevComing[d] = devList[d]
  <2>1. CASE half["dev"] = 0
    BY <2>1 DEF DevComing
  <2>2. CASE half["dev"] # 0
    <3>1. InHalf("dev") \in DevTables
      BY <2>2, QueueForm DEF TypeOK, QueueOK, InHand, InHalf, Topics, Tables
    <3>2. Missed("dev") = Changed(devList, InHalf("dev")) /\ DevComing = InHalf("dev")
      BY <2>2 DEF Missed, List, DevComing, InHalf
    <3>3. QED
      BY <3>1, <3>2 DEF Changed, DevTables
  <2>3. QED
    BY <2>1, <2>2
<1>8. \A d \in Devs : d \in Listed(devList) <=> devList[d] # None
  BY <1>6 DEF Listed
<1>9. \A d \in Listed(devList) : d \in Renewed \/ d \in Portless
  BY DEF Renewed, Portless
<1>10. Fresh'
  BY <1>1 DEF MapsInv, Fresh
<1>11. PortAgree' /\ PortKept'
  BY <1>1, <1>4, <1>5 DEF MapsInv, PortAgree, PortKept
<1>12. DevAgree'
  <2> SUFFICES ASSUME NEW d \in Devs \ unheeded'["dev"]
               PROVE  proto'[d] = DevComing[d]
    BY <1>5 DEF DevAgree
  <2>1. DevComing[d] = devList[d] /\ d \notin Portless
    BY <1>4, <1>7
  <2>2. CASE d \in Listed(devList)
    BY <1>2, <1>9, <2>1, <2>2
  <2>3. CASE d \notin Listed(devList)
    <3>1. d \notin unheeded["dev"] /\ d \notin Renewed /\ devList[d] = None
      BY <1>4, <1>8, <2>3 DEF Renewed
    <3>2. proto[d] = DevComing[d] \/ proto[d] = None
      BY <3>1 DEF MapsInv, DevAgree
    <3>3. QED
      BY <1>2, <2>1, <3>1, <3>2
  <2>4. QED
    BY <2>2, <2>3
<1>13. Orphaned'
  <2> SUFFICES ASSUME NEW d \in dangling'
               PROVE  d \in unheeded'["dev"] \/ proto'[d] \in lost
    BY <1>1 DEF Orphaned
  <2>1. d \in dangling /\ d \in Devs /\ d \notin Renewed /\ proto'[d] = proto[d]
    BY <1>2, <1>3, <1>6
  <2>2. d \in unheeded["dev"] \/ proto[d] \in lost \/ proto[d] \in Listed(infoMap)
    BY <2>1 DEF MapsInv, Orphaned
  <2>3. CASE d \in unheeded["dev"]
    BY <1>4, <1>9, <2>1, <2>3
  <2>4. CASE proto[d] \in lost
    BY <2>1, <2>4
  <2>5. CASE d \notin unheeded["dev"] /\ proto[d] \in Listed(infoMap)
    <3>1. proto[d] # None /\ proto[d] = DevComing[d]
      BY <2>1, <2>5 DEF MapsInv, DevAgree, TypeOK, Listed
    <3>2. CASE d \in Missed("dev")
      BY <1>4, <3>2
    <3>3. CASE d \notin Missed("dev")
      <4>1. devList[d] = proto[d]
        BY <1>7, <2>1, <3>1, <3>3
      <4>2. d \in Renewed
        BY <1>8, <2>1, <2>5, <3>1, <4>1 DEF Renewed
      <4>3. QED
        BY <2>1, <4>2
    <3>4. QED
      BY <3>2, <3>3
  <2>6. QED
    BY <2>2, <2>3, <2>4, <2>5
<1>14. QED
  BY <1>10, <1>11, <1>12, <1>13 DEF MapsInv

LEMMA MapsStep == TypeOK /\ Ready /\ MapsInv /\ [Next]_vars => MapsInv'
<1> SUFFICES ASSUME TypeOK, Ready, MapsInv, [Next]_vars PROVE MapsInv'
  OBVIOUS
<1>1. CASE DevCallback
  BY <1>1, DevCallbackMaps
<1>2. CASE PortCallback
  BY <1>2, PortCallbackMaps
<1>3. CASE \E t \in Topics : TakeOver(t)
  BY <1>3, TakeOverMaps
<1>4. CASE LoadPorts
  BY <1>4, LoadPortsMaps
<1>5. CASE LoadDevs
  BY <1>5, LoadDevsMaps
<1>6. CASE Respond
  <2>1. UNCHANGED <<mapVars, listVars, historyVars, half, serial>>
    BY <1>6 DEF Respond
  <2>2. \A t \in Topics : \A i \in DOMAIN queue[t] : queue'[t][i] = queue[t][i]
    BY <1>6, ChangeStep DEF Respond
  <2>3. \A t \in Topics : half[t] # 0 => queue'[t][half[t]] = queue[t][half[t]]
    BY <2>2 DEF TypeOK, InHand
  <2>4. DevComing' = DevComing /\ PortComing' = PortComing
    BY <2>1, <2>3 DEF DevComing, PortComing, Topics, listVars
  <2>5. QED
    BY <2>1, <2>4, Elsewhere
<1>7. CASE ServicePublish \/ PointsArrive \/ TestFlags \/ PollBegin \/ PollEnd \/ UNCHANGED vars
  <2>1. UNCHANGED <<infoMap, proto, dangling, listVars, historyVars, half, queue>>
    BY <1>7 DEF ServicePublish, PointsArrive, TestFlags, PollBegin, PollEnd, vars, mapVars, busVars
  <2>2. serial' = serial \/ {serial, serial'} \subseteq {"top", "loading", "toLock", "poll"}
    BY <1>7 DEF ServicePublish, PointsArrive, TestFlags, PollBegin, PollEnd, vars
  <2>3. DevComing' = DevComing /\ PortComing' = PortComing
    BY <2>1 DEF DevComing, PortComing, listVars
  <2>4. QED
    BY <2>1, <2>2, <2>3
       DEF MapsInv, Fresh, DevAgree, PortAgree, PortKept, Orphaned, listVars, historyVars
<1>8. QED
  BY <1>1, <1>2, <1>3, <1>4, <1>5, <1>6, <1>7 DEF Next

(***************************************************************************)
(* However the tables are changed, messages overtake one another and the   *)
(* lists are loaded beside them, no device is polled over a destroyed port *)
(* but the ones the property names (TaskSerial.cpp 97-104, 126-144,        *)
(* 293-328).                                                               *)
(***************************************************************************)
THEOREM PortsCorrect == Spec => []PortsOutliveUse
<1>1. MapsInv => PortsOutliveUse
  BY DEF MapsInv, Orphaned, PortsOutliveUse
<1>2. QED
  BY <1>1, TypeInit, TypeStep, ReadyInit, ReadyStep, InvInit, MapsStep, PTL DEF Spec

(***************************************************************************)
(* Between callbacks the protocols and ports are those of the lists, but   *)
(* for those that the property names (TaskSerial.cpp 22-166, 289-331).     *)
(***************************************************************************)
THEOREM PolledCorrect == Spec => []PolledAsListed
<1>1. TypeOK /\ MapsInv => PolledAsListed
  BY DEF MapsInv, DevAgree, PortAgree, DevComing, PortComing, PolledAsListed, Topics
<1>2. QED
  BY <1>1, TypeInit, TypeStep, ReadyInit, ReadyStep, InvInit, MapsStep, PTL DEF Spec

-----------------------------------------------------------------------------
LEMMA CallbackFollow ==
  ASSUME TypeOK, FollowInv, DevCallback \/ PortCallback
  PROVE  FollowInv'
<1> SUFFICES ASSUME NEW t \in Topics, NEW i \in InHand(t), Enter(t, i),
                    \A o \in Topics \ {t} : List(o)' = List(o)
             PROVE  FollowInv'
  BY DEF DevCallback, PortCallback, FirstMessage, DevAdded, DevDeleted, DevEdited, PortAdded,
         PortDeleted, PortEdited, listVars, Topics, List
<1>1. UNCHANGED <<queue, ahead>> /\ \A o \in Topics : Table(o)' = Table(o)
  BY DEF Enter, settingVars, Table
<1>2. queue[t] # <<>>
  BY Entered
<1>3. QED
  BY <1>1, <1>2 DEF FollowInv

LEMMA TakeOverFollow ==
  ASSUME TypeOK, FollowInv, NEW t \in Topics, TakeOver(t)
  PROVE  FollowInv'
<1>1. Dequeue(t)
  BY DEF TakeOver
<1>2. /\ half[t] \in DOMAIN queue[t] /\ queue'[t] = RemoveAt(queue[t], half[t]) /\ QueueOK
      /\ \A o \in Topics \ {t} : queue'[o] = queue[o] /\ ahead'[o] = ahead[o]
  BY <1>1, Dequeued, QueueForm DEF TypeOK
<1>3. /\ \A o \in Topics : Table(o)' = Table(o)
      /\ \A o \in Topics \ {t} : List(o)' = List(o)
      /\ List(t)' = InHalf(t)
  BY DEF TakeOver, Assign, List, Table, Topics, settingVars
<1>4. \A o \in Topics \ {t} : ~ahead'[o] => IF queue'[o] = <<>> THEN List(o)' = Table(o)'
                                            ELSE queue'[o][Len(queue'[o])] = Table(o)'
  BY <1>2, <1>3 DEF FollowInv
<1>5. ASSUME ~ahead'[t]
      PROVE  IF queue'[t] = <<>> THEN List(t)' = Table(t)' ELSE queue'[t][Len(queue'[t])] = Table(t)'
  <2>1. ahead'[t] = (ahead[t] \/ (1 < half[t] /\ half[t] = Len(queue[t])))
    BY <1>1 DEF Dequeue, TypeOK
  <2>2. ~ahead[t] /\ ~(1 < half[t] /\ half[t] = Len(queue[t]))
    BY <1>5, <2>1
  <2>3. queue[t] \in Seq(Tables(t))
    BY <1>2 DEF QueueOK
  <2>4. queue[t] # <<>> /\ queue[t][Len(queue[t])] = Table(t)
    BY <1>2, <2>2, <2>3 DEF FollowInv
  <2>5. /\ queue'[t] \in Seq(Tables(t)) /\ Len(queue'[t]) = Len(queue[t]) - 1
        /\ half[t] # Len(queue[t]) => queue'[t][Len(queue[t]) - 1] = queue[t][Len(queue[t])]
    BY <1>2, <2>3, Removed
  <2>6. half[t] \in 1 .. Len(queue[t])
    BY <1>2, <2>3
  <2>7. CASE half[t] = Len(queue[t])
    <3>a. \A n, l \in Int : n \in 1 .. l /\ n = l /\ ~(1 < n) => n = 1 /\ l - 1 = 0
      OBVIOUS
    <3>b. half[t] \in Int /\ Len(queue[t]) \in Int
      BY <2>3, <2>6
    <3>1. half[t] = 1 /\ Len(queue'[t]) = 0
      BY <2>2, <2>5, <2>6, <2>7, <3>a, <3>b, Zenon
    <3>2. queue'[t] = <<>> /\ List(t)' = Table(t)
      BY <1>3, <2>4, <2>5, <2>7, <3>1 DEF InHalf
    <3>3. QED
      BY <1>3, <3>2
  <2>8. CASE half[t] # Len(queue[t])
    <3>1. Len(queue'[t]) # 0
      BY <2>5, <2>6, <2>8
    <3>a. Len(<<>>) = 0
      OBVIOUS
    <3>2. queue'[t] # <<>>
      BY <3>1, <3>a, Zenon
    <3>3. queue'[t][Len(queue'[t])] = Table(t)'
      BY <1>3, <2>4, <2>5, <2>8, Zenon
    <3>4. QED
      BY <3>2, <3>3
  <2>9. QED
    BY <2>7, <2>8
<1>6. QED
  BY <1>4, <1>5 DEF FollowInv

LEMMA FollowStep == TypeOK /\ FollowInv /\ [Next]_vars => FollowInv'
<1> SUFFICES ASSUME TypeOK, FollowInv, [Next]_vars PROVE FollowInv'
  OBVIOUS
<1>1. CASE DevCallback \/ PortCallback
  BY <1>1, CallbackFollow
<1>2. CASE \E t \in Topics : TakeOver(t)
  BY <1>2, TakeOverFollow
<1>3. CASE Respond
  <2>1. \A t \in Topics : List(t)' = List(t)
    BY <1>3 DEF Respond, listVars, List
  <2>2. CASE UNCHANGED <<devTable, portTable, queue, ahead>>
    BY <2>1, <2>2 DEF FollowInv, Table
  <2>3. ASSUME NEW t \in Topics,
               \A o \in Topics \ {t} : /\ queue'[o] = queue[o] /\ ahead'[o] = ahead[o]
                                       /\ Table(o)' = Table(o),
               queue'[t] # <<>>, queue'[t][Len(queue'[t])] = Table(t)'
        PROVE  FollowInv'
    BY <2>1, <2>3 DEF FollowInv
  <2>4. QED
    BY <1>3, <2>2, <2>3, ChangeStep DEF Respond
<1>4. CASE \/ ServicePublish \/ PointsArrive \/ TestFlags \/ LoadPorts \/ LoadDevs
           \/ PollBegin \/ PollEnd \/ UNCHANGED vars
  <2>1. UNCHANGED <<queue, ahead, devTable, portTable, devList, portList>>
    BY <1>4 DEF ServicePublish, PointsArrive, TestFlags, LoadPorts, LoadDevs, PollBegin, PollEnd,
                vars, settingVars, busVars, listVars
  <2>2. QED
    BY <2>1 DEF FollowInv, List, Table
<1>5. QED
  BY <1>1, <1>2, <1>3, <1>4 DEF Next

(***************************************************************************)
(* When every message has been handled the list is Setting's table, unless *)
(* the newest one overtook another (MessageQueue.hpp 12, 54; TaskSerial.cpp*)
(* 86, 165).                                                               *)
(***************************************************************************)
THEOREM ListsFollowCorrect == Spec => []ListsFollow
<1>1. FollowInv => ListsFollow
  BY DEF FollowInv, ListsFollow
<1>2. QED
  BY <1>1, TypeInit, TypeStep, ReadyInit, ReadyStep, InvInit, FollowStep, PTL DEF Spec
=============================================================================
