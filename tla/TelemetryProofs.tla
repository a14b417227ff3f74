-------------------------- MODULE TelemetryProofs ---------------------------
(***************************************************************************)
(* Theorems about Telemetry for any devices, browsers and readings.        *)
(***************************************************************************)
EXTENDS Telemetry, SequenceTheorems, TLAPS

Readings == Reading \cup {NoReading}

LEMMA NoReadingFacts ==
  /\ NoReading \in Readings /\ NoReading.dev = None /\ NoReading.n = 0
  /\ \A r \in Readings : r.dev \in Devs \cup {None} /\ r.n \in Nat
  /\ \A r \in Readings : r # NoReading => r \in Reading /\ r.dev \in Devs
  BY DEF Readings, Reading, NoReading

\* Where the k-th element of a sequence was before the i-th was taken out.
Skip(k, i) == IF k < i THEN k ELSE k + 1

\* A message leaves the queue from any place.
LEMMA FeedRemoved ==
  ASSUME TypeOK, NEW i \in DOMAIN feed
  PROVE  /\ feed[i] \in Reading /\ RemoveAt(feed, i) \in Seq(Reading)
         /\ Len(feed) \in Nat /\ i \in 1 .. Len(feed)
         /\ Len(RemoveAt(feed, i)) = Len(feed) - 1
         /\ \A k \in 1 .. Len(feed) - 1 : /\ Skip(k, i) \in 1 .. Len(feed) /\ Skip(k, i) # i
                                          /\ RemoveAt(feed, i)[k] = feed[Skip(k, i)]
<1> DEFINE n == Len(feed)
           a == SubSeq(feed, 1, i - 1)
           b == SubSeq(feed, i + 1, n)
<1>1. feed \in Seq(Reading) /\ n \in Nat /\ i \in 1 .. n /\ feed[i] \in Reading
  BY DEF TypeOK
<1>2. a \in Seq(Reading) /\ Len(a) = i - 1 /\ \A k \in 1 .. i - 1 : a[k] = feed[k]
  BY <1>1
<1>3. b \in Seq(Reading) /\ Len(b) = n - i /\ \A k \in 1 .. n - i : b[k] = feed[i + k]
  BY <1>1
<1>4. RemoveAt(feed, i) = a \o b
  BY DEF RemoveAt
<1> HIDE DEF a, b, n
<1>5. /\ a \o b \in Seq(Reading) /\ Len(a \o b) = Len(a) + Len(b)
      /\ \A k \in 1 .. Len(a) + Len(b) : (a \o b)[k] = IF k <= Len(a) THEN a[k] ELSE b[k - Len(a)]
  BY <1>2, <1>3, ConcatProperties
<1>6. Len(a) + Len(b) = n - 1
  BY <1>1, <1>2, <1>3
<1>7. ASSUME NEW k \in 1 .. n - 1
      PROVE  Skip(k, i) \in 1 .. n /\ Skip(k, i) # i /\ (a \o b)[k] = feed[Skip(k, i)]
  <2>1. Skip(k, i) \in 1 .. n /\ Skip(k, i) # i
    BY <1>1, <1>7 DEF Skip
  <2>2. (a \o b)[k] = IF k <= Len(a) THEN a[k] ELSE b[k - Len(a)]
    BY <1>5, <1>6
  <2>3. CASE k < i
    <3>1. k <= Len(a) /\ k \in 1 .. i - 1 /\ Skip(k, i) = k
      BY <1>1, <1>2, <2>3 DEF Skip
    <3>2. QED
      BY <1>2, <2>1, <2>2, <3>1
  <2>4. CASE ~(k < i)
    <3>1. /\ ~(k <= Len(a)) /\ k - Len(a) \in 1 .. n - i
          /\ i + (k - Len(a)) = k + 1 /\ Skip(k, i) = k + 1
      BY <1>1, <1>2, <2>4 DEF Skip
    <3>2. b[k - Len(a)] = feed[i + (k - Len(a))]
      BY <1>3, <3>1
    <3>3. QED
      BY <2>1, <2>2, <3>1, <3>2
  <2>5. QED
    BY <2>3, <2>4
<1>8. QED
  BY <1>1, <1>4, <1>5, <1>6, <1>7 DEF n

\* A callback stores the values of the i-th message.
Storing(i) == /\ i \in DOMAIN feed
              /\ feed' = RemoveAt(feed, i)
              /\ v_RTSrcInfo' = feed[i]
              /\ storing' = storing \cup {feed[i]}
              /\ Overtake(i)

LEMMA StoringOne == StoreValues => \E i \in DOMAIN feed : Storing(i)
  BY DEF StoreValues, InHand, Storing

LEMMA OvertakenGrows ==
  ASSUME TypeOK, NEW i \in DOMAIN feed, Overtake(i)
  PROVE  /\ overtaken \subseteq overtaken' /\ overtaken' \subseteq Devs /\ beside' \in BOOLEAN
         /\ \A j \in 1 .. i - 1 : feed[j].dev = feed[i].dev => feed[i].dev \in overtaken'
<1>1. feed[i].dev \in Devs
  BY FeedRemoved DEF Reading
<1>2. QED
  BY <1>1 DEF Overtake, TypeOK

-----------------------------------------------------------------------------
(***************************************************************************)
(* Types *)
(***************************************************************************)

\* What TypeOK says of the bus and the source, of ws_thread, and of the network.
BusOK == /\ published \in [Devs -> Nat]
         /\ feed \in Seq(Reading)
         /\ storing \subseteq Reading /\ v_RTSrcInfo \in Readings
         /\ beside \in BOOLEAN /\ overtaken \subseteq Devs
         /\ sn \in Devs \cup {None}

OpOK == /\ shown \in [Devs -> Nat]
        /\ v_PreRTSrcInfo \in Readings
        /\ {preSn, rttask, task} \subseteq Devs \cup {None}
        /\ payload \in [for : Devs \cup {None}, val : Readings]
        /\ ws \in {"idle", "compare", "compose", "keep", "send"}
        /\ raced \in BOOLEAN

NetOK == /\ state \in [Clients -> {"out", "open", "closing"}]
         /\ connections = {c \in Clients : state[c] # "out"}
         /\ todo \subseteq connections
         /\ down \in {"no", "terminated", "torn"}

LEMMA TypeParts == TypeOK <=> BusOK /\ OpOK /\ NetOK
  BY DEF TypeOK, BusOK, OpOK, NetOK, Readings

LEMMA TypeInit == Init => TypeOK
<1> SUFFICES ASSUME Init PROVE TypeOK
  OBVIOUS
<1>1. BusOK
  <2>1. published \in [Devs -> Nat] /\ feed \in Seq(Reading)
    BY DEF Init
  <2>2. QED
    BY <2>1, NoReadingFacts DEF Init, BusOK
<1>2. OpOK
  BY NoReadingFacts DEF Init, OpOK
<1>3. NetOK
  BY DEF Init, NetOK
<1>4. QED
  BY <1>1, <1>2, <1>3, TypeParts

LEMMA BusStep == TypeOK /\ [Next]_vars => BusOK'
<1> SUFFICES ASSUME TypeOK, [Next]_vars PROVE BusOK'
  OBVIOUS
<1> USE TypeParts DEF BusOK
<1>1. ASSUME NEW d \in Devs, PublishValues(d) PROVE BusOK'
  <2>1. published' \in [Devs -> Nat] /\ published'[d] \in Nat \ {0}
    BY <1>1 DEF PublishValues
  <2>2. [dev |-> d, n |-> published'[d]] \in Reading
    BY <2>1 DEF Reading
  <2>3. feed' \in Seq(Reading)
    BY <1>1, <2>2 DEF PublishValues
  <2>4. QED
    BY <1>1, <2>1, <2>3 DEF PublishValues, srcVars
<1>2. CASE StoreValues
  <2>1. PICK i \in DOMAIN feed : Storing(i)
    BY <1>2, StoringOne
  <2>2. feed[i] \in Reading /\ RemoveAt(feed, i) \in Seq(Reading)
    BY FeedRemoved
  <2>3. overtaken' \subseteq Devs /\ beside' \in BOOLEAN
    BY <2>1, OvertakenGrows DEF Storing
  <2>4. published' = published /\ sn' = sn
    BY <1>2 DEF StoreValues
  <2>5. QED
    BY <2>1, <2>2, <2>3, <2>4 DEF Storing, Readings
<1>3. CASE StoreSn
  BY <1>3 DEF StoreSn, Reading
<1>4. CASE UNCHANGED <<busVars, srcVars>>
  BY <1>4 DEF busVars, srcVars
<1>5. QED
  BY <1>1, <1>2, <1>3, <1>4
     DEF Next, Operation, GetRTData, OpBegin, OpMatch, OpCompose, OpKeep, OpOther, SendOne,
         SendDone, Open, Closing, Closed, dataVars, vars

LEMMA ComposeType ==
  ASSUME TypeOK, NEW val \in Readings, Compose(val)
  PROVE  /\ shown' \in [Devs -> Nat]
         /\ payload' \in [for : Devs \cup {None}, val : Readings]
         /\ payload'.for = task /\ payload'.val = val
         /\ \A d \in Devs : shown'[d] = IF d = task /\ val.dev = d THEN val.n ELSE shown[d]
  BY TypeParts, NoReadingFacts, TelemetryAssumption DEF Compose, OpOK

LEMMA OpTypeStep == TypeOK /\ [Next]_vars => OpOK'
<1> SUFFICES ASSUME TypeOK, [Next]_vars PROVE OpOK'
  OBVIOUS
<1> USE TypeParts DEF OpOK
<1>1. ASSUME NEW d \in Devs \cup {None}, GetRTData(d) PROVE OpOK'
  BY <1>1 DEF GetRTData, preVars, opVars
<1>2. CASE OpBegin
  BY <1>2 DEF OpBegin, preVars
<1>3. CASE OpMatch
  BY <1>3 DEF OpMatch, preVars
<1>4. CASE OpCompose
  BY <1>4, ComposeType DEF OpCompose, preVars, BusOK
<1>5. CASE OpKeep
  BY <1>5 DEF OpKeep, Broadcast, BusOK
<1>6. CASE OpOther
  <2>1. (IF preSn = task THEN v_PreRTSrcInfo ELSE NoReading) \in Readings
    BY NoReadingFacts
  <2>2. QED
    BY <1>6, <2>1, ComposeType DEF OpOther, Broadcast
<1>7. CASE StoreValues
  BY <1>7 DEF StoreValues, preVars, opVars
<1>8. CASE SendDone
  BY <1>8 DEF SendDone, dataVars, preVars
<1>9. CASE UNCHANGED <<preVars, rttask, opVars, raced>>
  BY <1>9 DEF preVars, opVars
<1>10. QED
  BY <1>1, <1>2, <1>3, <1>4, <1>5, <1>6, <1>7, <1>8, <1>9
     DEF Next, Operation, PublishValues, StoreSn, SendOne, Open, Closing, Closed, dataVars,
         opVars, vars

LEMMA NetStep == TypeOK /\ [Next]_vars => NetOK'
<1> SUFFICES ASSUME TypeOK, [Next]_vars PROVE NetOK'
  OBVIOUS
<1> USE TypeParts DEF NetOK
<1>1. CASE OpKeep \/ OpOther
  BY <1>1 DEF OpKeep, OpOther, Broadcast
<1>2. ASSUME NEW c \in Clients, SendOne(c) PROVE NetOK'
  BY <1>2 DEF SendOne
<1>3. ASSUME NEW c \in Clients, Open(c) PROVE NetOK'
  BY <1>3 DEF Open, TornIf
<1>4. ASSUME NEW c \in Clients, Closing(c) PROVE NetOK'
  BY <1>4 DEF Closing
<1>5. ASSUME NEW c \in Clients, Closed(c) PROVE NetOK'
  <2>1. state' \in [Clients -> {"out", "open", "closing"}]
    BY <1>5 DEF Closed
  <2>2. /\ state'[c] = "out" /\ state[c] = "closing"
        /\ \A x \in Clients : x # c => state'[x] = state[x]
    BY <1>5 DEF Closed
  <2>3. connections' = {x \in Clients : state'[x] # "out"}
    BY <1>5, <2>2 DEF Closed
  <2>4. todo' \subseteq connections'
    BY <1>5 DEF Closed
  <2>6. down' \in {"no", "terminated", "torn"}
    BY <1>5 DEF Closed, TornIf
  <2>7. QED
    BY <2>1, <2>3, <2>4, <2>6
<1>6. CASE UNCHANGED clientVars /\ down' \in {"no", "torn"}
  BY <1>6 DEF clientVars
<1>7. CASE UNCHANGED netVars
  BY <1>7 DEF netVars, clientVars
<1>8. QED
  BY <1>1, <1>2, <1>3, <1>4, <1>5, <1>6, <1>7
     DEF Next, Operation, PublishValues, StoreValues, StoreSn, GetRTData, TornIf, OpBegin,
         OpMatch, OpCompose, SendDone, vars

(***************************************************************************)
(* The types hold; in particular WebSocketService keeps exactly the        *)
(* connections whose close handler has not run (WebSocketService.cpp 11-19)*)
(***************************************************************************)
THEOREM TypeCorrect == Spec => []TypeOK
<1>1. TypeOK /\ [Next]_vars => TypeOK'
  BY BusStep, OpTypeStep, NetStep, TypeParts DEF TypeOK, BusOK, OpOK, NetOK, Readings
<1>2. QED
  BY <1>1, TypeInit, PTL DEF Spec

-----------------------------------------------------------------------------
\* ws_thread only works for a device.
Waiting == ws # "idle" => task \in Devs

LEMMA WaitingStep == TypeOK /\ Waiting /\ [Next]_vars => Waiting'
<1> SUFFICES ASSUME TypeOK, Waiting, [Next]_vars PROVE Waiting'
  OBVIOUS
<1>1. CASE OpBegin
  BY <1>1, TypeParts DEF OpBegin, Waiting, OpOK
<1>2. CASE OpMatch \/ OpCompose \/ OpKeep \/ OpOther \/ SendDone
  BY <1>2 DEF OpMatch, OpCompose, OpKeep, OpOther, SendDone, dataVars, Waiting
<1>3. CASE UNCHANGED <<ws, task>>
  BY <1>3 DEF Waiting
<1>4. QED
  BY <1>1, <1>2, <1>3
     DEF Next, Operation, PublishValues, StoreValues, StoreSn, GetRTData, SendOne, Open,
         Closing, Closed, dataVars, opVars, vars

-----------------------------------------------------------------------------
(***************************************************************************)
(* Ages: along v_PreRTSrcInfo, v_RTSrcInfo and the messages on the bus the *)
(* readings of a device that has not been overtaken only get newer, and    *)
(* none is older than what has been shown of it. What is kept may be,      *)
(* between composing an answer and keeping it.                             *)
(***************************************************************************)
NotOlder(x, y, over) == x.dev = y.dev /\ x.dev \notin over => x.n <= y.n

Taken(r, p) == \A d \in Devs : r.dev = d => r.n <= p[d]

Aged == /\ NotOlder(v_PreRTSrcInfo, v_RTSrcInfo, overtaken)
        /\ Taken(v_PreRTSrcInfo, published) /\ Taken(v_RTSrcInfo, published)
        /\ \A i \in 1 .. Len(feed) : /\ NotOlder(v_PreRTSrcInfo, feed[i], overtaken)
                                     /\ NotOlder(v_RTSrcInfo, feed[i], overtaken)
                                     /\ Taken(feed[i], published)
        /\ \A i, j \in 1 .. Len(feed) : i < j => NotOlder(feed[i], feed[j], overtaken)

Past(r, d) == r.dev = d /\ d \notin overtaken => shown[d] <= r.n

Shown == \A d \in Devs :
            /\ shown[d] <= published[d]
            /\ Past(v_RTSrcInfo, d)
            /\ \A i \in 1 .. Len(feed) : Past(feed[i], d)
            /\ Past(v_PreRTSrcInfo, d) \/ (ws = "keep" /\ task = d)

Ages == Aged /\ Shown

LEMMA FeedIndex ==
  ASSUME TypeOK
  PROVE  /\ Len(feed) \in Nat
         /\ \A i \in 1 .. Len(feed) : feed[i] \in Reading /\ feed[i] \in Readings
  BY TypeParts DEF BusOK, Readings

\* What a publication puts on the bus.
LEMMA Published ==
  ASSUME TypeOK, NEW d \in Devs, PublishValues(d)
  PROVE  /\ Len(feed') = Len(feed) + 1
         /\ \A i \in 1 .. Len(feed) : feed'[i] = feed[i]
         /\ feed'[Len(feed) + 1] = [dev |-> d, n |-> published[d] + 1]
         /\ \A x \in Devs : /\ published[x] \in Nat /\ published'[x] \in Nat
                            /\ published'[x] = IF x = d THEN published[d] + 1 ELSE published[x]
<1>1. published \in [Devs -> Nat] /\ feed \in Seq(Reading)
  BY TypeParts DEF BusOK
<1>2. published'[d] = published[d] + 1 /\ published[d] \in Nat
  BY <1>1 DEF PublishValues
<1>3. [dev |-> d, n |-> published'[d]] \in Reading
  BY <1>2 DEF Reading
<1>4. /\ Len(feed') = Len(feed) + 1
      /\ \A i \in 1 .. Len(feed) : feed'[i] = feed[i]
      /\ feed'[Len(feed) + 1] = [dev |-> d, n |-> published'[d]]
  BY <1>1, <1>3, AppendProperties DEF PublishValues
<1>5. QED
  BY <1>1, <1>2, <1>4 DEF PublishValues

LEMMA AgedStep == TypeOK /\ Aged /\ [Next]_vars => Aged'
<1> SUFFICES ASSUME TypeOK, Aged, [Next]_vars PROVE Aged'
  OBVIOUS
<1>t. /\ v_RTSrcInfo \in Readings /\ v_PreRTSrcInfo \in Readings
      /\ published \in [Devs -> Nat]
  BY TypeParts DEF BusOK, OpOK
<1>1. ASSUME NEW d \in Devs, PublishValues(d) PROVE Aged'
  <2>1. v_RTSrcInfo' = v_RTSrcInfo /\ v_PreRTSrcInfo' = v_PreRTSrcInfo /\ overtaken' = overtaken
    BY <1>1 DEF PublishValues, srcVars, preVars
  <2>p. /\ Len(feed') = Len(feed) + 1 /\ Len(feed) \in Nat
        /\ \A i \in 1 .. Len(feed) : feed'[i] = feed[i]
        /\ feed'[Len(feed) + 1] = [dev |-> d, n |-> published[d] + 1]
    BY <1>1, Published, FeedIndex
  <2>q. \A x \in Devs : /\ published[x] \in Nat /\ published'[x] \in Nat
                        /\ published'[x] = IF x = d THEN published[d] + 1 ELSE published[x]
    BY <1>1, Published
  <2>2. DEFINE e == [dev |-> d, n |-> published[d] + 1]
  <2>3. e = feed'[Len(feed) + 1] /\ e.dev = d /\ e.n = published[d] + 1
    BY <2>p
  <2>4. ASSUME NEW r \in Readings, Taken(r, published)
        PROVE  Taken(r, published') /\ NotOlder(r, e, overtaken)
    <3>1. r.n \in Nat
      BY NoReadingFacts
    <3>2. \A x \in Devs : r.dev = x => r.n <= published[x]
      BY <2>4 DEF Taken
    <3>3. Taken(r, published')
      BY <2>q, <3>1, <3>2 DEF Taken
    <3>4. r.dev = d => r.n <= published[d] + 1
      BY <2>q, <3>1, <3>2
    <3>5. NotOlder(r, e, overtaken)
      BY <3>4 DEF NotOlder
    <3>6. QED
      BY <3>3, <3>5
  <2>5. Taken(e, published')
    BY <2>q DEF Taken
  <2>6. \A i \in 1 .. Len(feed') : i \in 1 .. Len(feed) \/ i = Len(feed) + 1
    BY <2>p
  <2>7. \A i \in 1 .. Len(feed) : /\ feed'[i] = feed[i]
                                  /\ Taken(feed[i], published') /\ NotOlder(feed[i], e, overtaken)
    BY <2>p, <2>4, FeedIndex DEF Aged
  <2> HIDE DEF e
  <2>8. \A i \in 1 .. Len(feed') : /\ NotOlder(v_PreRTSrcInfo, feed'[i], overtaken)
                                   /\ NotOlder(v_RTSrcInfo, feed'[i], overtaken)
                                   /\ Taken(feed'[i], published')
    BY <1>t, <2>3, <2>4, <2>5, <2>6, <2>7 DEF Aged
  <2>9. \A i, j \in 1 .. Len(feed') : i < j => NotOlder(feed'[i], feed'[j], overtaken)
    <3> SUFFICES ASSUME NEW i \in 1 .. Len(feed'), NEW j \in 1 .. Len(feed'), i < j
                 PROVE  NotOlder(feed'[i], feed'[j], overtaken)
      OBVIOUS
    <3>1. i \in 1 .. Len(feed)
      BY <2>p
    <3>2. CASE j \in 1 .. Len(feed)
      BY <3>1, <3>2, <2>7 DEF Aged
    <3>3. CASE j = Len(feed) + 1
      BY <3>1, <3>3, <2>3, <2>7
    <3>4. QED
      BY <2>6, <3>2, <3>3
  <2>10. QED
    BY <1>t, <2>1, <2>4, <2>8, <2>9 DEF Aged
<1>2. CASE StoreValues
  <2>1. PICK i \in DOMAIN feed : Storing(i)
    BY <1>2, StoringOne
  <2>2. UNCHANGED <<v_PreRTSrcInfo, published>>
    BY <1>2 DEF StoreValues, preVars
  <2>3. /\ v_RTSrcInfo' = feed[i] /\ Len(feed) \in Nat /\ i \in 1 .. Len(feed)
        /\ Len(feed') = Len(feed) - 1
        /\ \A k \in 1 .. Len(feed') : /\ Skip(k, i) \in 1 .. Len(feed) /\ Skip(k, i) # i
                                      /\ feed'[k] = feed[Skip(k, i)]
    BY <2>1, FeedRemoved DEF Storing
  <2>4. /\ overtaken \subseteq overtaken'
        /\ \A j \in 1 .. i - 1 : feed[j].dev = feed[i].dev => feed[i].dev \in overtaken'
    BY <2>1, OvertakenGrows DEF Storing
  <2>5. \A k \in 1 .. Len(feed') : /\ NotOlder(v_PreRTSrcInfo, feed[Skip(k, i)], overtaken')
                                   /\ Taken(feed[Skip(k, i)], published)
    BY <2>2, <2>3, <2>4 DEF Aged, NotOlder
  <2>6. ASSUME NEW k \in 1 .. Len(feed') PROVE NotOlder(v_RTSrcInfo', feed'[k], overtaken')
    <3>1. /\ Skip(k, i) \in 1 .. Len(feed) /\ Skip(k, i) # i /\ feed'[k] = feed[Skip(k, i)]
      BY <2>3
    <3>2. CASE i < Skip(k, i)
      BY <2>3, <2>4, <3>1, <3>2 DEF Aged, NotOlder
    <3>3. CASE Skip(k, i) < i
      <4>1. Skip(k, i) \in 1 .. i - 1
        BY <2>3, <3>1, <3>3
      <4>2. QED
        BY <2>3, <2>4, <3>1, <4>1 DEF NotOlder
    <3>4. QED
      BY <2>3, <3>1, <3>2, <3>3
  <2>7. ASSUME NEW k \in 1 .. Len(feed'), NEW l \in 1 .. Len(feed'), k < l
        PROVE  NotOlder(feed'[k], feed'[l], overtaken')
    <3>1. Skip(k, i) < Skip(l, i)
      BY <2>3, <2>7 DEF Skip
    <3>2. QED
      BY <2>3, <2>4, <3>1 DEF Aged, NotOlder
  <2>8. NotOlder(v_PreRTSrcInfo, v_RTSrcInfo', overtaken') /\ Taken(v_RTSrcInfo', published)
    BY <2>2, <2>3, <2>4 DEF Aged, NotOlder, Taken
  <2>9. QED
    BY <2>2, <2>3, <2>5, <2>6, <2>7, <2>8 DEF Aged
<1>3. CASE OpKeep
  BY <1>3, <1>t, NoReadingFacts DEF OpKeep, Aged, Taken, NotOlder, busVars, srcVars
<1>4. CASE UNCHANGED <<published, feed, v_RTSrcInfo, v_PreRTSrcInfo, overtaken>>
  BY <1>4 DEF Aged, Taken, NotOlder
<1>5. QED
  BY <1>1, <1>2, <1>3, <1>4
     DEF Next, Operation, StoreSn, GetRTData, OpBegin, OpMatch, OpCompose, OpOther, SendOne,
         SendDone, Open, Closing, Closed, dataVars, busVars, srcVars, preVars, vars

\* An answer whose values are at least as new as those shown of its device, and
\* not newer than anything younger, leaves what is shown in order.
LEMMA ShownCompose ==
  ASSUME TypeOK, Ages, NEW val \in {v_RTSrcInfo, v_PreRTSrcInfo, NoReading}, Compose(val),
         UNCHANGED <<busVars, srcVars, v_PreRTSrcInfo, task>>,
         task \in Devs,
         ws' = "keep" \/ val \in {v_PreRTSrcInfo, NoReading},
         ws # "keep"
  PROVE  Shown'
<1>1. /\ v_RTSrcInfo \in Readings /\ v_PreRTSrcInfo \in Readings /\ val \in Readings
      /\ shown \in [Devs -> Nat] /\ published \in [Devs -> Nat]
  BY TypeParts, NoReadingFacts DEF BusOK, OpOK
<1>2. \A d \in Devs : shown'[d] = IF d = task /\ val.dev = d THEN val.n ELSE shown[d]
  BY <1>1, ComposeType
<1>3. SUFFICES ASSUME NEW d \in Devs
               PROVE  /\ shown'[d] <= published[d]
                      /\ d \notin overtaken =>
                           /\ v_RTSrcInfo.dev = d => shown'[d] <= v_RTSrcInfo.n
                           /\ \A i \in 1 .. Len(feed) : feed[i].dev = d => shown'[d] <= feed[i].n
                           /\ (v_PreRTSrcInfo.dev = d => shown'[d] <= v_PreRTSrcInfo.n)
                                 \/ (ws' = "keep" /\ task = d)
  BY DEF Shown, Past, busVars, srcVars
<1>4. CASE d = task /\ val.dev = d
  <2>1. val # NoReading /\ shown'[d] = val.n
    BY <1>2, <1>4, NoReadingFacts, TelemetryAssumption
  <2>2. val = v_RTSrcInfo \/ val = v_PreRTSrcInfo
    BY <2>1
  <2>3. val.n \in Nat
    BY <1>1, NoReadingFacts
  <2>4. QED
    BY <1>4, <2>1, <2>2, <2>3 DEF Ages, Aged, Taken, NotOlder
<1>5. CASE ~(d = task /\ val.dev = d)
  BY <1>2, <1>5 DEF Ages, Shown, Past
<1>6. QED
  BY <1>4, <1>5

LEMMA ShownStep == TypeOK /\ Waiting /\ Ages /\ [Next]_vars => Shown'
<1> SUFFICES ASSUME TypeOK, Waiting, Ages, [Next]_vars PROVE Shown'
  OBVIOUS
<1>t. /\ shown \in [Devs -> Nat] /\ published \in [Devs -> Nat]
  BY TypeParts DEF BusOK, OpOK
<1>1. ASSUME NEW d \in Devs, PublishValues(d) PROVE Shown'
  <2>1. UNCHANGED <<v_RTSrcInfo, v_PreRTSrcInfo, shown, ws, task, overtaken>>
    BY <1>1 DEF PublishValues, srcVars, preVars, opVars
  <2>2. /\ Len(feed') = Len(feed) + 1 /\ Len(feed) \in Nat
        /\ \A i \in 1 .. Len(feed) : feed'[i] = feed[i]
        /\ feed'[Len(feed) + 1] = [dev |-> d, n |-> published[d] + 1]
    BY <1>1, Published, FeedIndex
  <2>3. \A x \in Devs : /\ published[x] \in Nat /\ shown[x] \in Nat
                        /\ published'[x] = IF x = d THEN published[d] + 1 ELSE published[x]
    BY <1>1, <1>t, Published
  <2>4. \A x \in Devs : shown[x] <= published[x] /\ shown[x] <= published'[x]
    BY <2>3 DEF Ages, Shown
  <2>5. \A x \in Devs \ overtaken :
           \A i \in 1 .. Len(feed') : feed'[i].dev = x => shown[x] <= feed'[i].n
    <3> SUFFICES ASSUME NEW x \in Devs \ overtaken, NEW i \in 1 .. Len(feed'), feed'[i].dev = x
                 PROVE  shown[x] <= feed'[i].n
      OBVIOUS
    <3>1. CASE i \in 1 .. Len(feed)
      BY <2>2, <3>1 DEF Ages, Shown, Past
    <3>2. CASE i = Len(feed) + 1
      <4>1. feed'[i].dev = d /\ feed'[i].n = published[d] + 1
        BY <2>2, <3>2
      <4>2. QED
        BY <4>1, <2>3, <2>4
    <3>3. QED
      BY <2>2, <3>1, <3>2
  <2>6. QED
    BY <2>1, <2>4, <2>5 DEF Ages, Shown, Past
<1>2. CASE StoreValues
  <2>1. PICK i \in DOMAIN feed : Storing(i)
    BY <1>2, StoringOne
  <2>2. /\ v_RTSrcInfo' = feed[i] /\ i \in 1 .. Len(feed)
        /\ \A k \in 1 .. Len(feed') : Skip(k, i) \in 1 .. Len(feed) /\ feed'[k] = feed[Skip(k, i)]
    BY <2>1, FeedRemoved DEF Storing
  <2>3. overtaken \subseteq overtaken'
    BY <2>1, OvertakenGrows DEF Storing
  <2>4. UNCHANGED <<v_PreRTSrcInfo, published, shown, ws, task>>
    BY <1>2 DEF StoreValues, preVars, opVars
  <2>5. QED
    BY <2>2, <2>3, <2>4 DEF Ages, Shown, Past
<1>3. CASE OpBegin
  <2>1. UNCHANGED <<published, feed, v_RTSrcInfo, v_PreRTSrcInfo, shown, overtaken>> /\ ws = "idle"
    BY <1>3 DEF OpBegin, busVars, srcVars, preVars
  <2>2. \A d \in Devs : Past(v_PreRTSrcInfo, d)
    BY <2>1 DEF Ages, Shown
  <2>3. QED
    BY <2>1, <2>2 DEF Ages, Shown, Past
<1>4. CASE OpMatch
  BY <1>4 DEF OpMatch, busVars, srcVars, preVars, Ages, Shown, Past
<1>5. CASE OpCompose
  <2>1. UNCHANGED <<busVars, srcVars, v_PreRTSrcInfo, task>>
    BY <1>5 DEF OpCompose, preVars
  <2>2. QED
    BY <1>5, <2>1, ShownCompose DEF OpCompose, Waiting
<1>6. CASE OpKeep
  BY <1>6 DEF OpKeep, Broadcast, busVars, srcVars, Ages, Shown, Past
<1>7. CASE OpOther
  <2>1. PICK val \in {v_PreRTSrcInfo, NoReading} :
            Compose(val) /\ val = IF preSn = task THEN v_PreRTSrcInfo ELSE NoReading
    BY <1>7 DEF OpOther
  <2>2. ws' = "send" /\ UNCHANGED <<busVars, srcVars, v_PreRTSrcInfo, task>> /\ ws = "compare"
    BY <1>7 DEF OpOther, Broadcast
  <2>3. QED
    BY <2>1, <2>2, ShownCompose DEF Waiting
<1>8. CASE SendDone
  BY <1>8 DEF SendDone, dataVars, busVars, srcVars, preVars, Ages, Shown, Past
<1>9. CASE UNCHANGED <<published, feed, v_RTSrcInfo, v_PreRTSrcInfo, shown, ws, task, overtaken>>
  BY <1>9 DEF Ages, Shown, Past
<1>10. QED
  BY <1>1, <1>2, <1>3, <1>4, <1>5, <1>6, <1>7, <1>8, <1>9
     DEF Next, Operation, StoreSn, GetRTData, SendOne, Open, Closing, Closed, dataVars,
         busVars, srcVars, preVars, opVars, vars

LEMMA AgesInit == Init => Waiting /\ Ages
<1> SUFFICES ASSUME Init PROVE Waiting /\ Ages
  OBVIOUS
<1>1. /\ Len(feed) = 0 /\ v_RTSrcInfo.dev = None /\ v_PreRTSrcInfo.dev = None
      /\ v_RTSrcInfo.n = 0 /\ v_PreRTSrcInfo.n = 0
      /\ \A d \in Devs : d # None /\ shown[d] = 0 /\ published[d] = 0
      /\ ws = "idle"
  BY TelemetryAssumption, NoReadingFacts DEF Init
<1>2. Aged
  BY <1>1 DEF Aged, Taken, NotOlder
<1>3. ASSUME NEW d \in Devs
      PROVE  /\ shown[d] <= published[d]
             /\ Past(v_RTSrcInfo, d) /\ Past(v_PreRTSrcInfo, d)
             /\ \A i \in 1 .. Len(feed) : Past(feed[i], d)
  BY <1>1 DEF Past
<1>4. QED
  BY <1>1, <1>2, <1>3 DEF Waiting, Ages, Shown

\* The answer composed in a step has values that are not older than those shown.
LEMMA ComposedNotOlder ==
  ASSUME TypeOK, Waiting, Ages, OpCompose \/ OpOther
  PROVE  payload'.for \notin overtaken /\ payload'.val.dev = payload'.for =>
            payload'.val.n >= shown[payload'.for]
<1>1. task \in Devs /\ ws # "keep"
  BY DEF OpCompose, OpOther, Waiting
<1>2. PICK val \in {v_RTSrcInfo, v_PreRTSrcInfo, NoReading} : Compose(val)
  BY DEF OpCompose, OpOther
<1>3. val \in Readings
  BY <1>2, TypeParts, NoReadingFacts DEF BusOK, OpOK
<1>4. payload'.for = task /\ payload'.val = val
  BY <1>2, <1>3, ComposeType
<1>5. task \notin overtaken /\ val.dev = task => shown[task] <= val.n
  <2>1. CASE val = NoReading
    BY <1>1, <2>1, NoReadingFacts, TelemetryAssumption
  <2>2. CASE val = v_RTSrcInfo \/ val = v_PreRTSrcInfo
    BY <1>1, <2>2 DEF Ages, Shown, Past
  <2>3. QED
    BY <1>2, <2>1, <2>2
<1>6. shown[task] \in Nat /\ val.n \in Nat
  BY <1>1, <1>3, TypeParts, NoReadingFacts DEF OpOK
<1>7. QED
  BY <1>4, <1>5, <1>6

\* Answers are composed nowhere else.
LEMMA PayloadChanges == [Next]_vars => OpCompose \/ OpOther \/ UNCHANGED payload
  BY DEF Next, Operation, PublishValues, StoreValues, StoreSn, GetRTData, OpBegin, OpMatch,
         OpKeep, SendOne, SendDone, Open, Closing, Closed, dataVars, opVars, vars

(***************************************************************************)
(* What is shown of a device gets older only if the bus has stored two of  *)
(* its readings in the wrong order: sendDataToWeb and its cache            *)
(* v_PreRTSrcInfo never make it so (NetWorkLayerImp.cpp 9-15, 368-423).    *)
(***************************************************************************)
THEOREM OlderCorrect == Spec => OlderOnlyIfOvertaken
<1> DEFINE Goal == payload'.for \in Devs \ overtaken /\ payload'.val.dev = payload'.for =>
                      payload'.val.n >= shown[payload'.for]
<1>1. TypeOK /\ Waiting /\ Ages /\ [Next]_vars => (Waiting /\ Ages)'
  BY WaitingStep, AgedStep, ShownStep DEF Ages
<1>2. TypeOK /\ Waiting /\ Ages /\ [Next]_vars => [Goal]_payload
  BY PayloadChanges, ComposedNotOlder
<1>3. QED
  BY <1>1, <1>2, AgesInit, TypeCorrect, PTL DEF Spec, OlderOnlyIfOvertaken

-----------------------------------------------------------------------------
(***************************************************************************)
(* Whose values: unless callbacks overlapped, what is stored is of the     *)
(* device in sn once both are stored, what is read of it is of the device  *)
(* asked for unless the read is raced, and what is kept is of preSn, or    *)
(* follows a raced read, or an answer without values of the device.        *)
(***************************************************************************)
Stored == ~beside => IF storing = {} THEN v_RTSrcInfo.dev = sn ELSE storing = {v_RTSrcInfo}

Read == MidRead /\ ~raced => v_RTSrcInfo.dev = task

Kept == /\ ws = "keep" => payload.for = task
        /\ ~MidRead /\ preSn # None =>
             /\ payload.for = preSn
             /\ raced \/ v_PreRTSrcInfo.dev \in {preSn, None} \/ payload.val.dev # preSn

Whose == Stored /\ Read /\ Kept

LEMMA WhoseInit == Init => Whose
  BY NoReadingFacts DEF Init, Whose, Stored, Read, Kept, MidRead

LEMMA WhoseStep == TypeOK /\ Waiting /\ Whose /\ [Next]_vars => Whose'
<1> SUFFICES ASSUME TypeOK, Waiting, Whose, [Next]_vars PROVE Whose'
  OBVIOUS
<1> USE DEF Whose, Stored, Read, Kept, MidRead
<1>1. ASSUME NEW d \in Devs, PublishValues(d) PROVE Whose'
  BY <1>1 DEF PublishValues, srcVars, preVars, opVars
<1>2. CASE StoreValues
  <2>1. PICK i \in DOMAIN feed : Storing(i)
    BY <1>2, StoringOne
  <2>2. Stored'
    BY <2>1 DEF Storing, Overtake
  <2>3. UNCHANGED <<preVars, opVars>> /\ raced' = (raced \/ MidRead)
    BY <1>2 DEF StoreValues
  <2>4. Read' /\ Kept'
    BY <2>3 DEF preVars, opVars
  <2>5. QED
    BY <2>2, <2>4
<1>3. CASE StoreSn
  <2>1. Stored'
    BY <1>3 DEF StoreSn
  <2>2. QED
    BY <1>3, <2>1 DEF StoreSn, preVars, opVars
<1>4. ASSUME NEW d \in Devs \cup {None}, GetRTData(d) PROVE Whose'
  BY <1>4 DEF GetRTData, busVars, srcVars, preVars, opVars
<1>5. CASE OpBegin
  BY <1>5 DEF OpBegin, busVars, srcVars, preVars
<1>6. CASE OpMatch
  BY <1>6 DEF OpMatch, busVars, srcVars, preVars
<1>7. CASE OpCompose
  <2>1. payload'.for = task
    BY <1>7, ComposeType, TypeParts DEF OpCompose, BusOK
  <2>2. QED
    BY <1>7, <2>1 DEF OpCompose, busVars, srcVars, preVars
<1>8. CASE OpKeep
  BY <1>8 DEF OpKeep, Broadcast, busVars, srcVars
<1>9. CASE OpOther
  <2>1. PICK val \in Readings :
            Compose(val) /\ val = IF preSn = task THEN v_PreRTSrcInfo ELSE NoReading
    BY <1>9, TypeParts, NoReadingFacts DEF OpOther, OpOK
  <2>2. payload'.for = task /\ payload'.val = val /\ task \in Devs
    BY <1>9, <2>1, ComposeType DEF OpOther, Waiting
  <2>3. v_PreRTSrcInfo.dev \in {task, None} \/ val.dev # task
    BY <2>1, <2>2, NoReadingFacts, TelemetryAssumption
  <2>4. QED
    BY <1>9, <2>2, <2>3 DEF OpOther, Broadcast, busVars, srcVars
<1>10. CASE SendDone
  BY <1>10 DEF SendDone, dataVars, busVars, srcVars, preVars
<1>11. CASE UNCHANGED <<dataVars, ws>> \/ UNCHANGED vars
  BY <1>11 DEF dataVars, vars, busVars, srcVars, preVars, opVars
<1>12. QED
  BY <1>1, <1>2, <1>3, <1>4, <1>5, <1>6, <1>7, <1>8, <1>9, <1>10, <1>11
     DEF Next, Operation, SendOne, Open, Closing, Closed

\* An answer composed in a step has another device's values only as stated.
LEMMA ComposedWhose ==
  ASSUME TypeOK, Waiting, Whose, OpCompose \/ OpOther
  PROVE  \/ raced'
         \/ payload'.val.dev \in {payload'.for, None}
         \/ payload.for = payload'.for /\ payload.val.dev # payload.for
<1>1. CASE OpCompose
  <2>1. payload'.for = task /\ payload'.val = v_RTSrcInfo
    BY <1>1, ComposeType, TypeParts DEF OpCompose, BusOK
  <2>2. QED
    BY <1>1, <2>1 DEF OpCompose, Whose, Read, MidRead
<1>2. CASE OpOther
  <2>1. PICK val \in Readings :
            Compose(val) /\ val = IF preSn = task THEN v_PreRTSrcInfo ELSE NoReading
    BY <1>2, TypeParts, NoReadingFacts DEF OpOther, OpOK
  <2>2. payload'.for = task /\ payload'.val = val /\ task \in Devs
    BY <1>2, <2>1, ComposeType DEF OpOther, Waiting
  <2>3. CASE preSn = task
    <3>1. preSn # None /\ ~MidRead /\ raced' = raced
      BY <1>2, <2>2, <2>3, TelemetryAssumption DEF OpOther, MidRead
    <3>2. QED
      BY <2>1, <2>2, <2>3, <3>1 DEF Whose, Kept
  <2>4. CASE preSn # task
    BY <2>1, <2>2, <2>4, NoReadingFacts
  <2>5. QED
    BY <2>3, <2>4
<1>3. QED
  BY <1>1, <1>2

(***************************************************************************)
(* Values are shown under another device's name only directly after an     *)
(* answer without values of the device, or after a raced read (operation   *)
(* and sendDataToWeb, NetWorkLayerImp.cpp 352-423).                        *)
(***************************************************************************)
THEOREM WrongCorrect == Spec => WrongOnlyAfterEmpty
<1> DEFINE Goal == \/ raced'
                   \/ payload'.val.dev \in {payload'.for, None}
                   \/ payload.for = payload'.for /\ payload.val.dev # payload.for
<1>1. TypeOK /\ Waiting /\ Whose /\ [Next]_vars => (Waiting /\ Whose)'
  BY WaitingStep, WhoseStep
<1>2. TypeOK /\ Waiting /\ Whose /\ [Next]_vars => [Goal]_payload
  BY PayloadChanges, ComposedWhose
<1>3. QED
  BY <1>1, <1>2, WhoseInit, AgesInit, TypeCorrect, PTL DEF Spec, WrongOnlyAfterEmpty

-----------------------------------------------------------------------------
(***************************************************************************)
(* The newest reading of a device that has not been overtaken is in        *)
(* v_RTSrcInfo, if any of the device is there and none is on the bus;      *)
(* otherwise it is on the bus.                                             *)
(***************************************************************************)
Coming(d) == \E k \in 1 .. Len(feed) : feed[k].dev = d /\ feed[k].n = published[d]

LastIsNewest == \A d \in Devs \ overtaken :
                   /\ v_RTSrcInfo.dev = d => v_RTSrcInfo.n = published[d] \/ Coming(d)
                   /\ (\E i \in 1 .. Len(feed) : feed[i].dev = d) => Coming(d)

LEMMA NewestInit == Init => LastIsNewest
<1> SUFFICES ASSUME Init PROVE LastIsNewest
  OBVIOUS
<1>1. Len(feed) = 0 /\ v_RTSrcInfo.dev = None /\ None \notin Devs
  BY NoReadingFacts, TelemetryAssumption DEF Init
<1>2. QED
  BY <1>1 DEF LastIsNewest

LEMMA NewestStep == TypeOK /\ Aged /\ LastIsNewest /\ [Next]_vars => LastIsNewest'
<1> SUFFICES ASSUME TypeOK, Aged, LastIsNewest, [Next]_vars PROVE LastIsNewest'
  OBVIOUS
<1>1. ASSUME NEW d \in Devs, PublishValues(d) PROVE LastIsNewest'
  <2>1. /\ Len(feed') = Len(feed) + 1 /\ Len(feed) \in Nat
        /\ \A i \in 1 .. Len(feed) : feed'[i] = feed[i]
        /\ feed'[Len(feed) + 1] = [dev |-> d, n |-> published[d] + 1]
        /\ \A x \in Devs : published'[x] = IF x = d THEN published[d] + 1 ELSE published[x]
    BY <1>1, Published, FeedIndex
  <2>2. v_RTSrcInfo' = v_RTSrcInfo /\ overtaken' = overtaken
    BY <1>1 DEF PublishValues, srcVars
  <2>3. Coming(d)'
    <3>1. Len(feed) + 1 \in 1 .. Len(feed')
      BY <2>1
    <3>2. feed'[Len(feed) + 1].dev = d /\ feed'[Len(feed) + 1].n = published'[d]
      BY <2>1
    <3>3. QED
      BY <3>1, <3>2 DEF Coming
  <2>4. ASSUME NEW x \in Devs, x # d
        PROVE  /\ published'[x] = published[x]
               /\ Coming(x) => Coming(x)'
               /\ (\E i \in 1 .. Len(feed') : feed'[i].dev = x) =>
                     \E i \in 1 .. Len(feed) : feed[i].dev = x
    <3>1. \A i \in 1 .. Len(feed') : i \in 1 .. Len(feed) \/ i = Len(feed) + 1
      BY <2>1
    <3>2. \A i \in 1 .. Len(feed) : i \in 1 .. Len(feed')
      BY <2>1
    <3>3. feed'[Len(feed) + 1].dev = d
      BY <2>1
    <3>4. QED
      BY <2>1, <2>4, <3>1, <3>2, <3>3 DEF Coming
  <2>5. QED
    BY <2>2, <2>3, <2>4 DEF LastIsNewest
<1>2. CASE StoreValues
  <2>1. PICK i \in DOMAIN feed : Storing(i)
    BY <1>2, StoringOne
  <2>2. published' = published
    BY <1>2 DEF StoreValues
  <2>3. /\ v_RTSrcInfo' = feed[i] /\ Len(feed) \in Nat /\ i \in 1 .. Len(feed)
        /\ Len(feed') = Len(feed) - 1
        /\ \A k \in 1 .. Len(feed') : /\ Skip(k, i) \in 1 .. Len(feed) /\ Skip(k, i) # i
                                      /\ feed'[k] = feed[Skip(k, i)]
    BY <2>1, FeedRemoved DEF Storing
  <2>4. /\ overtaken \subseteq overtaken'
        /\ \A j \in 1 .. i - 1 : feed[j].dev = feed[i].dev => feed[i].dev \in overtaken'
    BY <2>1, OvertakenGrows DEF Storing
  <2>5. ASSUME NEW j \in 1 .. Len(feed), j # i
        PROVE  \E k \in 1 .. Len(feed') : feed'[k] = feed[j]
    <3> DEFINE k == IF j < i THEN j ELSE j - 1
    <3>1. k \in 1 .. Len(feed') /\ Skip(k, i) = j
      BY <2>3, <2>5 DEF Skip
    <3>2. QED
      BY <2>3, <3>1
  <2>6. ASSUME NEW d \in Devs \ overtaken'
        PROVE  /\ v_RTSrcInfo'.dev = d => v_RTSrcInfo'.n = published'[d] \/ Coming(d)'
               /\ (\E k \in 1 .. Len(feed') : feed'[k].dev = d) => Coming(d)'
    <3>1. d \notin overtaken
      BY <2>4
    <3>2. ASSUME NEW j \in 1 .. Len(feed), j # i, feed[j].dev = d, feed[j].n = published[d]
          PROVE  Coming(d)'
      BY <2>2, <2>5, <3>2 DEF Coming
    <3>3. CASE feed[i].dev = d /\ feed[i].n = published[d]
      <4>1. ASSUME NEW k \in 1 .. Len(feed'), feed'[k].dev = d PROVE Coming(d)'
        <5>1. /\ Skip(k, i) \in 1 .. Len(feed) /\ Skip(k, i) # i /\ feed'[k] = feed[Skip(k, i)]
          BY <2>3
        <5>2. ~(Skip(k, i) < i)
          <6>1. Skip(k, i) < i => Skip(k, i) \in 1 .. i - 1
            BY <2>3, <5>1
          <6>2. QED
            BY <2>4, <3>3, <4>1, <5>1, <6>1
        <5>3. i < Skip(k, i)
          BY <2>3, <5>1, <5>2
        <5>4. feed[i].n <= feed[Skip(k, i)].n
          BY <2>3, <3>1, <3>3, <4>1, <5>1, <5>3 DEF Aged, NotOlder
        <5>5. feed[Skip(k, i)].n <= published[d]
          BY <4>1, <5>1 DEF Aged, Taken
        <5>6. feed[Skip(k, i)].n \in Nat /\ published[d] \in Nat
          BY <5>1, FeedIndex, NoReadingFacts, TypeParts DEF BusOK
        <5>7. feed[Skip(k, i)].n = published[d]
          BY <3>3, <5>4, <5>5, <5>6
        <5>8. QED
          BY <3>2, <4>1, <5>1, <5>7
      <4>2. QED
        BY <2>2, <2>3, <3>3, <4>1
    <3>4. CASE ~(feed[i].dev = d /\ feed[i].n = published[d])
      <4>1. Coming(d) => Coming(d)'
        BY <3>2, <3>4 DEF Coming
      <4>2. (\E k \in 1 .. Len(feed') : feed'[k].dev = d) => Coming(d)
        BY <2>3, <3>1 DEF LastIsNewest
      <4>3. v_RTSrcInfo'.dev = d => Coming(d)
        BY <2>3, <3>1 DEF LastIsNewest
      <4>4. QED
        BY <4>1, <4>2, <4>3
    <3>5. QED
      BY <3>3, <3>4
  <2>7. QED
    BY <2>6 DEF LastIsNewest
<1>3. CASE UNCHANGED <<published, feed, v_RTSrcInfo, overtaken>>
  BY <1>3 DEF LastIsNewest, Coming
<1>4. QED
  BY <1>1, <1>2, <1>3
     DEF Next, Operation, StoreSn, GetRTData, OpBegin, OpMatch, OpCompose, OpKeep, OpOther,
         SendOne, SendDone, Open, Closing, Closed, dataVars, busVars, srcVars, vars

(***************************************************************************)
(* When the bus is empty, its callbacks have not overlapped and nobody     *)
(* stores while ws_thread reads, what it composes from v_RTSrcInfo is the  *)
(* newest reading there is of the device asked for, unless its readings    *)
(* were stored in the wrong order (sendDataToWeb, NetWorkLayerImp.cpp      *)
(* 370-390).                                                               *)
(***************************************************************************)
ShownIsNewest ==
    [][OpCompose /\ ~raced /\ feed = <<>> /\ task \notin overtaken =>
         payload' = [for |-> task, val |-> [dev |-> task, n |-> published[task]]]]_vars

LEMMA ComposedNewest ==
  ASSUME TypeOK, Waiting, Whose, LastIsNewest, OpCompose, ~raced, feed = <<>>,
         task \notin overtaken
  PROVE  payload' = [for |-> task, val |-> [dev |-> task, n |-> published[task]]]
<1>1. payload' = [for |-> task, val |-> v_RTSrcInfo] /\ ws = "compose"
  BY DEF OpCompose, Compose
<1>2. v_RTSrcInfo.dev = task /\ task \in Devs
  BY <1>1 DEF Whose, Read, MidRead, Waiting
<1>3. v_RTSrcInfo.n = published[task]
  <2>1. ~Coming(task)
    BY DEF Coming
  <2>2. QED
    BY <1>2, <2>1 DEF LastIsNewest
<1>4. v_RTSrcInfo \in Reading
  BY <1>2, TypeParts, NoReadingFacts, TelemetryAssumption DEF BusOK
<1>5. v_RTSrcInfo = [dev |-> task, n |-> published[task]]
  BY <1>2, <1>3, <1>4 DEF Reading
<1>6. QED
  BY <1>1, <1>5

(***************************************************************************)
(* The safety half of LatestIsShown.                                       *)
(***************************************************************************)
THEOREM ShownIsNewestCorrect == Spec => ShownIsNewest
<1> DEFINE Goal == OpCompose /\ ~raced /\ feed = <<>> /\ task \notin overtaken =>
                     payload' = [for |-> task,
                                 val |-> [dev |-> task, n |-> published[task]]]
<1>1. TypeOK /\ Waiting /\ Aged /\ Whose /\ LastIsNewest /\ [Next]_vars
        => (Waiting /\ Aged /\ Whose /\ LastIsNewest)'
  BY WaitingStep, AgedStep, WhoseStep, NewestStep
<1>2. TypeOK /\ Waiting /\ Whose /\ LastIsNewest => Goal
  BY ComposedNewest
<1>3. Init => Aged
  BY AgesInit DEF Ages
<1>4. QED
  BY <1>1, <1>2, <1>3, WhoseInit, AgesInit, NewestInit, TypeCorrect, PTL DEF Spec, ShownIsNewest
=============================================================================
