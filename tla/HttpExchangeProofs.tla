------------------------- MODULE HttpExchangeProofs -------------------------
(***************************************************************************)
(* Theorems about HttpExchange for any finite set of requests, whatever    *)
(* their bodies, however many are open and whether or not waits wake       *)
(* spuriously, except where a theorem names its hypotheses.                *)
(***************************************************************************)
EXTENDS HttpExchange, FiniteSetTheorems, TLAPS

LEMMA TypeInit == Init => TypeOK
<1> SUFFICES ASSUME Init PROVE TypeOK
  OBVIOUS
<1>1. doubled \in BOOLEAN
  BY DEF Init
<1>2. QED
  BY <1>1 DEF Init, TypeOK, HandlerState, OpState, Texts

\* notify_all only moves handlers from "waiting" to "woken".
LEMMA NotifyHandler ==
  ASSUME TypeOK, OpNotify
  PROVE  /\ handler' \in [Requests -> HandlerState]
         /\ \A r \in Requests : handler'[r] = IF handler[r] = "waiting"
                                              THEN "woken" ELSE handler[r]
  BY DEF OpNotify, TypeOK, HandlerState

LEMMA TypeStep == TypeOK /\ [Next]_vars => TypeOK'
<1> SUFFICES ASSUME TypeOK, [Next]_vars PROVE TypeOK'
  OBVIOUS
<1> USE DEF TypeOK, handlerVars, opVars, Goto, HandlerState, OpState, Texts
<1>1. ASSUME NEW r \in Requests, Push(r) PROVE TypeOK'
  BY <1>1 DEF Push
<1>2. ASSUME NEW r \in Requests, SpuriousWake(r) \/ Wait(r) \/ Check(r) PROVE TypeOK'
  BY <1>2 DEF SpuriousWake, Wait, Check
<1>3. ASSUME NEW r \in Requests, ReadCode(r) PROVE TypeOK'
  BY <1>3 DEF ReadCode
<1>4. ASSUME NEW r \in Requests, SetContent(r) \/ Clear(r) PROVE TypeOK'
  BY <1>4 DEF SetContent, Clear
<1>5. ASSUME NEW r \in Requests, Pop(r) PROVE TypeOK'
  <2>1. recv_queue' \in Seq(Requests)
    BY <1>5 DEF Pop
  <2>2. QED
    BY <1>5, <2>1 DEF Pop
<1>6. CASE OpEmpty \/ OpReset \/ OpSize \/ OpCompare
  BY <1>6 DEF OpEmpty, OpReset, OpSize, OpCompare
<1>7. CASE OpFront
  <2>1. data' \in Requests \cup {Empty, Garbage}
    <3>1. CASE recv_queue # <<>>
      BY <1>7, <3>1 DEF OpFront
    <3>2. CASE recv_queue = <<>>
      BY <1>7, <3>2 DEF OpFront
    <3>3. QED
      BY <3>1, <3>2
  <2>2. QED
    BY <1>7, <2>1 DEF OpFront
<1>8. CASE OpDispatch
  <2>1. executed' \in [Requests -> Nat]
    BY <1>8 DEF OpDispatch
  <2>2. QED
    BY <1>8, <2>1 DEF OpDispatch
<1>9. CASE OpSend
  BY <1>9 DEF OpSend
<1>10. CASE OpNotify
  BY <1>10, NotifyHandler DEF OpNotify
<1>11. CASE UNCHANGED vars
  BY <1>11 DEF vars
<1>12. QED
  BY <1>1, <1>2, <1>3, <1>4, <1>5, <1>6, <1>7, <1>8, <1>9, <1>10, <1>11
     DEF Next, HandlerStep, OpStep

(***************************************************************************)
(* The state keeps its types; in particular what clients are sent is       *)
(* always a response, the initial "ok", an empty or a garbage one.         *)
(***************************************************************************)
THEOREM TypeCorrect == Spec => []TypeOK
  BY TypeInit, TypeStep, PTL DEF Spec

-----------------------------------------------------------------------------
(* One element per handler *)

LEMMA QueueInit == Init => OneEntryPerHandler
<1> SUFFICES ASSUME Init PROVE OneEntryPerHandler
  OBVIOUS
<1>1. InFlight = {}
  BY DEF Init, InFlight
<1>2. QED
  BY <1>1, FS_EmptySet DEF Init, OneEntryPerHandler

LEMMA SameFlight ==
  ASSUME OneEntryPerHandler, InFlight' = InFlight, UNCHANGED recv_queue
  PROVE  OneEntryPerHandler'
  BY DEF OneEntryPerHandler

LEMMA QueueStep == TypeOK /\ OneEntryPerHandler /\ [Next]_vars => OneEntryPerHandler'
<1> SUFFICES ASSUME TypeOK, OneEntryPerHandler, [Next]_vars
             PROVE  OneEntryPerHandler'
  OBVIOUS
<1> USE DEF handlerVars, opVars, Goto
<1>1. IsFiniteSet(InFlight)
  BY HttpAssumption, FS_Subset DEF InFlight
<1>2. ASSUME NEW r \in Requests, Push(r) PROVE OneEntryPerHandler'
  <2>1. InFlight' = InFlight \cup {r} /\ r \notin InFlight
    BY <1>2 DEF Push, InFlight, TypeOK
  <2>2. Cardinality(InFlight') = Cardinality(InFlight) + 1
    BY <1>1, <2>1, FS_AddElement
  <2>3. Len(recv_queue') = Len(recv_queue) + 1
    BY <1>2 DEF Push, TypeOK
  <2>4. QED
    BY <2>2, <2>3 DEF OneEntryPerHandler
<1>3. ASSUME NEW r \in Requests, Pop(r) PROVE OneEntryPerHandler'
  <2>1. InFlight' = InFlight \ {r} /\ r \in InFlight
    BY <1>3 DEF Pop, InFlight, TypeOK
  <2>2. Cardinality(InFlight') = Cardinality(InFlight) - 1
    BY <1>1, <2>1, FS_RemoveElement
  <2>3. Len(recv_queue') = Len(recv_queue) - 1
    BY <1>3 DEF Pop, TypeOK
  <2>4. QED
    BY <2>2, <2>3 DEF OneEntryPerHandler
<1>4. ASSUME NEW r \in Requests,
             \/ SpuriousWake(r) \/ Wait(r) \/ Check(r)
             \/ ReadCode(r) \/ SetContent(r) \/ Clear(r)
      PROVE  OneEntryPerHandler'
  BY <1>4, SameFlight
     DEF SpuriousWake, Wait, Check, ReadCode, SetContent, Clear, InFlight, TypeOK
<1>5. CASE OpNotify
  BY <1>5, NotifyHandler, SameFlight DEF OpNotify, InFlight
<1>6. CASE OpEmpty \/ OpReset \/ OpSize \/ OpCompare \/ OpFront \/ OpDispatch \/ OpSend
  BY <1>6, SameFlight
     DEF OpEmpty, OpReset, OpSize, OpCompare, OpFront, OpDispatch, OpSend, InFlight
<1>7. CASE UNCHANGED vars
  BY <1>7, SameFlight DEF vars, InFlight
<1>8. QED
  BY <1>2, <1>3, <1>4, <1>5, <1>6, <1>7 DEF Next, HandlerStep, OpStep

(***************************************************************************)
(* The queue holds one element per handler that has not popped yet ...     *)
(***************************************************************************)
THEOREM QueueCorrect == Spec => []OneEntryPerHandler
  BY TypeInit, TypeStep, QueueInit, QueueStep, PTL DEF Spec

\* What front() and pop() in handle_request rely on without asking.
HandlersFindElement ==
    \A r \in Requests : handler[r] \in {"woken", "pop"} => recv_queue # <<>>

(***************************************************************************)
(* ... so a handler that looks at the front or pops finds an element, even *)
(* when bodies repeat and handlers pop each other's elements.  (A poll may *)
(* find the queue emptied since it asked: OpFront.)                        *)
(***************************************************************************)
THEOREM HandlersFindElementCorrect == Spec => []HandlersFindElement
<1>1. TypeOK /\ OneEntryPerHandler => HandlersFindElement
  <2> SUFFICES ASSUME TypeOK, OneEntryPerHandler,
                      NEW r \in Requests, handler[r] \in {"woken", "pop"}
               PROVE  recv_queue # <<>>
    BY DEF HandlersFindElement
  <2>1. r \in InFlight /\ IsFiniteSet(InFlight)
    BY HttpAssumption, FS_Subset DEF InFlight
  <2>2. Cardinality(InFlight) # 0
    BY <2>1, FS_EmptySet
  <2>3. QED
    BY <2>2 DEF OneEntryPerHandler, TypeOK
<1>2. QED
  BY <1>1, QueueCorrect, TypeCorrect, PTL

-----------------------------------------------------------------------------
(* The front as a lock *)

LEMMA FrontStep == TypeOK /\ FrontOwnsReply /\ [Next]_vars => FrontOwnsReply'
<1> SUFFICES ASSUME TypeOK, FrontOwnsReply, [Next]_vars, DistinctBodies,
                    NEW r \in Requests, Replying(r)'
             PROVE  recv_queue' # <<>> /\ Head(recv_queue') = r
  BY DEF FrontOwnsReply, DistinctBodies
<1> USE DEF handlerVars, opVars, Goto
<1>1. ASSUME Replying(r) PROVE recv_queue # <<>> /\ Head(recv_queue) = r
  BY <1>1 DEF FrontOwnsReply
<1>2. ASSUME NEW s \in Requests, Push(s)
      PROVE  recv_queue' # <<>> /\ Head(recv_queue') = r
  <2>1. Replying(r)
    BY <1>2 DEF Push, Replying, TypeOK
  <2>2. QED
    BY <1>1, <1>2, <2>1 DEF Push, TypeOK
<1>3. ASSUME NEW s \in Requests, Pop(s) PROVE FALSE
  <2>1. Replying(r) /\ r # s
    BY <1>3 DEF Pop, Replying, TypeOK
  <2>2. Replying(s)
    BY <1>3 DEF Pop, Replying
  <2>3. QED
    BY <1>1, <2>1, <2>2 DEF FrontOwnsReply
<1>4. ASSUME NEW s \in Requests, Check(s)
      PROVE  recv_queue' # <<>> /\ Head(recv_queue') = r
  <2>1. CASE s = r
    <3>1. AtFront(r) /\ UNCHANGED recv_queue
      BY <1>4, <2>1 DEF Check, Replying, TypeOK
    <3>2. Head(recv_queue) \in Requests
      BY <3>1 DEF AtFront, TypeOK
    <3>3. QED
      BY <3>1, <3>2 DEF AtFront, DistinctBodies
  <2>2. CASE s # r
    BY <1>1, <1>4, <2>2 DEF Check, Replying, TypeOK
  <2>3. QED
    BY <2>1, <2>2
<1>5. ASSUME NEW s \in Requests,
             \/ SpuriousWake(s) \/ Wait(s)
             \/ ReadCode(s) \/ SetContent(s) \/ Clear(s)
      PROVE  Replying(r) /\ UNCHANGED recv_queue
  BY <1>5 DEF SpuriousWake, Wait, ReadCode, SetContent, Clear, Replying, TypeOK
<1>6. CASE OpNotify
  BY <1>1, <1>6, NotifyHandler DEF OpNotify, Replying
<1>7. CASE OpEmpty \/ OpReset \/ OpSize \/ OpCompare \/ OpFront \/ OpDispatch \/ OpSend
  BY <1>1, <1>7
     DEF OpEmpty, OpReset, OpSize, OpCompare, OpFront, OpDispatch, OpSend, Replying
<1>8. CASE UNCHANGED vars
  BY <1>1, <1>8 DEF vars, Replying
<1>9. QED
  BY <1>1, <1>2, <1>3, <1>4, <1>5, <1>6, <1>7, <1>8 DEF Next, HandlerStep, OpStep

(***************************************************************************)
(* If no two requests have the same body, whoever answers owns the front   *)
(* of the queue from its check to its pop.                                 *)
(***************************************************************************)
THEOREM FrontCorrect == Spec => []FrontOwnsReply
<1>1. Init => FrontOwnsReply
  BY DEF Init, FrontOwnsReply, Replying
<1>2. QED
  BY <1>1, TypeInit, TypeStep, FrontStep, PTL DEF Spec

-----------------------------------------------------------------------------
(* A request that is found while its handler waits *)

\* A reported request stays at the front until its handler has popped it.
ReportedAtFront ==
    DistinctBodies /\ op \in {"dispatch", "send", "notify"} /\ data \in Requests =>
        handler[data] = "answered" \/ (recv_queue # <<>> /\ Head(recv_queue) = data)

LEMMA ReportedStep ==
  ASSUME TypeOK, FrontOwnsReply, ReportedAtFront, [Next]_vars
  PROVE  ReportedAtFront'
<1> SUFFICES ASSUME DistinctBodies, op' \in {"dispatch", "send", "notify"}, data' \in Requests
             PROVE  \/ handler'[data'] = "answered"
                    \/ recv_queue' # <<>> /\ Head(recv_queue') = data'
  BY DEF ReportedAtFront, DistinctBodies
<1> USE DEF handlerVars, opVars, Goto
<1>1. ASSUME op \in {"dispatch", "send", "notify"}, data' = data
      PROVE  handler[data] = "answered" \/ (recv_queue # <<>> /\ Head(recv_queue) = data)
  BY <1>1 DEF ReportedAtFront
<1>2. ASSUME NEW s \in Requests, Push(s)
      PROVE  \/ handler'[data'] = "answered"
             \/ recv_queue' # <<>> /\ Head(recv_queue') = data'
  BY <1>1, <1>2 DEF Push, TypeOK
<1>3. ASSUME NEW s \in Requests, Pop(s)
      PROVE  handler'[data'] = "answered"
  <2>1. Head(recv_queue) = s
    BY <1>3 DEF Pop, FrontOwnsReply, Replying
  <2>2. QED
    BY <1>1, <1>3, <2>1 DEF Pop, TypeOK
<1>4. ASSUME NEW s \in Requests,
             \/ SpuriousWake(s) \/ Wait(s) \/ Check(s)
             \/ ReadCode(s) \/ SetContent(s) \/ Clear(s)
      PROVE  /\ UNCHANGED <<recv_queue, op, data>>
             /\ handler[data] = "answered" => handler'[data] = "answered"
  BY <1>4 DEF SpuriousWake, Wait, Check, ReadCode, SetContent, Clear, TypeOK
<1>5. CASE OpFront
  <2>1. recv_queue # <<>>
    BY <1>5, HttpAssumption DEF OpFront
  <2>2. QED
    BY <1>5, <2>1 DEF OpFront
<1>6. CASE OpDispatch \/ OpSend
  BY <1>1, <1>6 DEF OpDispatch, OpSend
<1>7. CASE OpEmpty \/ OpReset \/ OpSize \/ OpCompare \/ OpNotify
  BY <1>7 DEF OpEmpty, OpReset, OpSize, OpCompare, OpNotify
<1>8. CASE UNCHANGED vars
  BY <1>1, <1>8 DEF vars
<1>9. QED
  BY <1>1, <1>2, <1>3, <1>4, <1>5, <1>6, <1>7, <1>8 DEF Next, HandlerStep, OpStep

(***************************************************************************)
(* The way of a request from there to its answer: its operation is about   *)
(* to be executed, or its response is there and nobody else may touch it,  *)
(* or it has been copied.                                                  *)
(***************************************************************************)
Found(r) == /\ op \in {"dispatch", "send", "notify"} /\ data = r /\ handler[r] = "waiting"
            /\ op = "dispatch" => Served
            /\ op = "notify" => response_data = r

Held(r) == /\ handler[r] \in {"woken", "reply", "content"}
           /\ response_data = r
           /\ recv_queue # <<>> /\ Head(recv_queue) = r
           /\ op \in {"dispatch", "send", "notify"} => data = r
           /\ handler[r] = "content" => status[r] = r

Copied(r) == handler[r] \in {"clear", "pop", "answered"} /\ status[r] = r /\ answer[r] = r

OnTheWay(r) == Found(r) \/ Held(r) \/ Copied(r)

\* Nobody else answers while r owns the front.
LEMMA OthersKeepOff ==
  ASSUME FrontOwnsReply, DistinctBodies, NEW r \in Requests, NEW s \in Requests, s # r,
         Head(recv_queue) = r
  PROVE  ~Replying(s)
  BY DEF FrontOwnsReply

LEMMA WayStep ==
  ASSUME TypeOK, FrontOwnsReply, ReportedAtFront, [Next]_vars, DistinctBodies, ~SpuriousWakes,
         NEW r \in Requests, OnTheWay(r)
  PROVE  OnTheWay(r)'
<1> USE DEF handlerVars, opVars, Goto
<1>1. Found(r) \/ Held(r) => recv_queue # <<>> /\ Head(recv_queue) = r
  BY DEF Found, Held, ReportedAtFront
<1>2. ASSUME NEW s \in Requests, s # r, Push(s) \/ HandlerStep(s)
      PROVE  OnTheWay(r)'
  <2>1. /\ handler'[r] = handler[r] /\ status'[r] = status[r] /\ answer'[r] = answer[r]
        /\ UNCHANGED opVars
    BY <1>2 DEF Push, HandlerStep, Wait, Check, ReadCode, SetContent, Clear, Pop, TypeOK
  <2>2. CASE Copied(r)
    BY <2>1, <2>2 DEF OnTheWay, Copied
  <2>3. CASE Found(r) \/ Held(r)
    <3>1. ~Replying(s) /\ recv_queue # <<>> /\ Head(recv_queue) = r
      BY <1>1, <1>2, <2>3, OthersKeepOff
    <3>2. response_data' = response_data
      BY <1>2, <3>1
         DEF Push, HandlerStep, Wait, Check, ReadCode, SetContent, Clear, Pop, Replying
    <3>3. recv_queue' # <<>> /\ Head(recv_queue') = r
      <4>1. CASE Push(s)
        BY <3>1, <4>1 DEF Push, TypeOK
      <4>2. CASE HandlerStep(s)
        <5>1. UNCHANGED recv_queue
          BY <3>1, <4>2
             DEF HandlerStep, Wait, Check, ReadCode, SetContent, Clear, Pop, Replying
        <5>2. QED
          BY <3>1, <5>1
      <4>3. QED
        BY <1>2, <4>1, <4>2
    <3>4. QED
      BY <2>1, <2>3, <3>2, <3>3 DEF OnTheWay, Found, Held, Served
  <2>4. QED
    BY <2>2, <2>3 DEF OnTheWay
<1>3. ASSUME Push(r) \/ HandlerStep(r)
      PROVE  OnTheWay(r)'
  <2>1. CASE Found(r)
    BY <1>3, <2>1
       DEF Found, Push, HandlerStep, Wait, Check, ReadCode, SetContent, Clear, Pop
  <2>2. CASE Held(r)
    <3>1. CASE Check(r)
      BY <2>2, <3>1 DEF Held, Check, AtFront, OnTheWay, TypeOK
    <3>2. CASE ReadCode(r)
      BY <2>2, <3>2, HttpAssumption DEF Held, ReadCode, OnTheWay, TypeOK
    <3>3. CASE SetContent(r)
      BY <2>2, <3>3 DEF Held, SetContent, OnTheWay, Copied, TypeOK
    <3>4. QED
      BY <1>3, <2>2, <3>1, <3>2, <3>3 DEF Held, Push, HandlerStep, Wait, Clear, Pop
  <2>3. CASE Copied(r)
    BY <1>3, <2>3
       DEF Copied, OnTheWay, Push, HandlerStep, Wait, Check, ReadCode, SetContent, Clear, Pop,
           TypeOK
  <2>4. QED
    BY <2>1, <2>2, <2>3 DEF OnTheWay
<1>4. CASE OpFront
  <2>1. ~Found(r)
    BY <1>4 DEF OpFront, Found
  <2>2. CASE Held(r)
    BY <1>4, <2>2 DEF OpFront, Held, OnTheWay
  <2>3. CASE Copied(r)
    BY <1>4, <2>3 DEF OpFront, Copied, OnTheWay
  <2>4. QED
    BY <2>1, <2>2, <2>3 DEF OnTheWay
<1>5. CASE OpDispatch \/ OpSend
  <2>1. CASE Found(r)
    BY <1>5, <2>1 DEF OpDispatch, OpSend, Found, Served, OnTheWay
  <2>2. CASE Held(r)
    BY <1>5, <2>2 DEF OpDispatch, OpSend, Held, OnTheWay
  <2>3. CASE Copied(r)
    BY <1>5, <2>3 DEF OpDispatch, OpSend, Copied, OnTheWay
  <2>4. QED
    BY <2>1, <2>2, <2>3 DEF OnTheWay
<1>6. CASE OpNotify
  <2>1. /\ handler'[r] = IF handler[r] = "waiting" THEN "woken" ELSE handler[r]
        /\ op = "notify" /\ op' = "empty"
        /\ UNCHANGED <<recv_queue, response_data, status, answer>>
    BY <1>6, NotifyHandler DEF OpNotify
  <2>2. CASE Found(r)
    BY <1>1, <2>1, <2>2 DEF Found, Held, OnTheWay
  <2>3. CASE Held(r) \/ Copied(r)
    BY <2>1, <2>3 DEF Held, Copied, OnTheWay
  <2>4. QED
    BY <2>2, <2>3 DEF OnTheWay
<1>7. CASE OpEmpty \/ OpReset \/ OpSize \/ OpCompare
  BY <1>7 DEF OpEmpty, OpReset, OpSize, OpCompare, OnTheWay, Found, Held, Copied
<1>8. CASE UNCHANGED vars
  BY <1>8 DEF vars, OnTheWay, Found, Held, Copied, Served
<1>9. ASSUME NEW s \in Requests PROVE ~SpuriousWake(s)
  BY DEF SpuriousWake
<1>10. QED
  BY <1>2, <1>3, <1>4, <1>5, <1>6, <1>7, <1>8, <1>9 DEF Next, OpStep

(***************************************************************************)
(* The safety half of FoundIsAnswered, for any number of requests in       *)
(* flight and of any arrival: a request that the task thread found while   *)
(* its handler was waiting is never answered with another's response, nor  *)
(* with an old one, nor with the cleared one.                              *)
(***************************************************************************)
FoundNeverWrong ==
    \A r \in Requests :
        [](FoundWaiting(r) => [](handler[r] = "answered" => status[r] = r /\ answer[r] = r))

THEOREM FoundNeverWrongCorrect ==
  ASSUME DistinctBodies, ~SpuriousWakes
  PROVE  Spec => FoundNeverWrong
<1> DEFINE Inv == TypeOK /\ FrontOwnsReply /\ ReportedAtFront
<1>1. Init => Inv
  BY TypeInit DEF Init, FrontOwnsReply, Replying, ReportedAtFront
<1>2. Inv /\ [Next]_vars => Inv'
  BY TypeStep, FrontStep, ReportedStep
<1>3. ASSUME NEW r \in Requests
      PROVE  Spec => [](FoundWaiting(r)
                          => [](handler[r] = "answered" => status[r] = r /\ answer[r] = r))
  <2>1. Inv /\ OnTheWay(r) /\ [Next]_vars => OnTheWay(r)'
    BY WayStep
  <2>2. FoundWaiting(r) => OnTheWay(r)
    BY DEF FoundWaiting, OnTheWay, Found
  <2>3. OnTheWay(r) => (handler[r] = "answered" => status[r] = r /\ answer[r] = r)
    BY DEF OnTheWay, Found, Held, Copied
  <2>4. QED
    BY <1>1, <1>2, <2>1, <2>2, <2>3, PTL DEF Spec
<1>4. QED
  BY <1>3 DEF FoundNeverWrong

-----------------------------------------------------------------------------
(* The elements of the queue *)

\* A request is pushed once.
PushedOnce ==
    /\ \A i, j \in DOMAIN recv_queue : recv_queue[i] = recv_queue[j] => i = j
    /\ \A r \in Requests : handler[r] = "idle" =>
          \A i \in DOMAIN recv_queue : recv_queue[i] # r

\* While nobody has doubled there is one reply at a time, to the body at the front.
OneReplies ==
    ~doubled =>
       /\ \A r \in Requests : Replying(r) =>
             recv_queue # <<>> /\ body[Head(recv_queue)] = body[r]
       /\ \A r, s \in Requests : Replying(r) /\ Replying(s) => r = s

EntriesInv == TypeOK /\ PushedOnce /\ OneReplies /\ EntriesMatchBodies

LEMMA PushedOnceStep == TypeOK /\ PushedOnce /\ [Next]_vars => PushedOnce'
<1> SUFFICES ASSUME TypeOK, PushedOnce, [Next]_vars PROVE PushedOnce'
  OBVIOUS
<1> USE DEF handlerVars, opVars, Goto
<1>1. ASSUME NEW r \in Requests, Push(r) PROVE PushedOnce'
  <2>1. /\ DOMAIN recv_queue' = DOMAIN recv_queue \cup {Len(recv_queue) + 1}
        /\ recv_queue'[Len(recv_queue) + 1] = r
        /\ \A i \in DOMAIN recv_queue : recv_queue'[i] = recv_queue[i]
    BY <1>1 DEF Push, TypeOK
  <2>2. \A i \in DOMAIN recv_queue : recv_queue[i] # r
    BY <1>1 DEF Push, PushedOnce
  <2>3. \A i, j \in DOMAIN recv_queue' : recv_queue'[i] = recv_queue'[j] => i = j
    BY <2>1, <2>2 DEF PushedOnce
  <2>4. \A s \in Requests : handler'[s] = "idle" =>
           \A i \in DOMAIN recv_queue' : recv_queue'[i] # s
    BY <1>1, <2>1 DEF Push, PushedOnce, TypeOK
  <2>5. QED
    BY <2>3, <2>4 DEF PushedOnce
<1>2. ASSUME NEW r \in Requests, Pop(r) PROVE PushedOnce'
  <2>1. \A i \in DOMAIN recv_queue' :
           i \in Nat /\ i + 1 \in DOMAIN recv_queue /\ recv_queue'[i] = recv_queue[i + 1]
    BY <1>2 DEF Pop, TypeOK
  <2>2. \A i, j \in DOMAIN recv_queue' : recv_queue'[i] = recv_queue'[j] => i = j
    BY <2>1 DEF PushedOnce
  <2>3. \A s \in Requests : handler'[s] = "idle" =>
           \A i \in DOMAIN recv_queue' : recv_queue'[i] # s
    BY <1>2, <2>1 DEF Pop, PushedOnce, TypeOK
  <2>4. QED
    BY <2>2, <2>3 DEF PushedOnce
<1>3. ASSUME UNCHANGED recv_queue, \A s \in Requests : handler'[s] = "idle" => handler[s] = "idle"
      PROVE  PushedOnce'
  BY <1>3 DEF PushedOnce
<1>4. ASSUME NEW r \in Requests,
             \/ SpuriousWake(r) \/ Wait(r) \/ Check(r)
             \/ ReadCode(r) \/ SetContent(r) \/ Clear(r)
      PROVE  PushedOnce'
  BY <1>3, <1>4 DEF SpuriousWake, Wait, Check, ReadCode, SetContent, Clear, TypeOK
<1>5. CASE OpNotify
  BY <1>3, <1>5, NotifyHandler DEF OpNotify
<1>6. CASE OpEmpty \/ OpReset \/ OpSize \/ OpCompare \/ OpFront \/ OpDispatch \/ OpSend
  BY <1>3, <1>6 DEF OpEmpty, OpReset, OpSize, OpCompare, OpFront, OpDispatch, OpSend
<1>7. CASE UNCHANGED vars
  BY <1>3, <1>7 DEF vars
<1>8. QED
  BY <1>1, <1>2, <1>4, <1>5, <1>6, <1>7 DEF Next, HandlerStep, OpStep

LEMMA OneRepliesStep == TypeOK /\ OneReplies /\ [Next]_vars => OneReplies'
<1> SUFFICES ASSUME TypeOK, OneReplies, [Next]_vars, ~doubled' PROVE OneReplies'
  BY DEF OneReplies
<1> USE DEF handlerVars, opVars, Goto
<1>1. ~doubled
  BY DEF Next, HandlerStep, OpStep, Push, SpuriousWake, Wait, Check, ReadCode, SetContent,
         Clear, Pop, OpEmpty, OpReset, OpSize, OpCompare, OpFront, OpDispatch, OpSend,
         OpNotify, vars
<1>2. /\ \A r \in Requests : Replying(r) => recv_queue # <<>> /\ body[Head(recv_queue)] = body[r]
      /\ \A r, s \in Requests : Replying(r) /\ Replying(s) => r = s
  BY <1>1 DEF OneReplies
<1>3. ASSUME recv_queue # <<>> => recv_queue' # <<>> /\ Head(recv_queue') = Head(recv_queue),
             \A r \in Requests : Replying(r)' => Replying(r)
      PROVE  OneReplies'
  BY <1>2, <1>3 DEF OneReplies
<1>4. ASSUME NEW r \in Requests, Push(r) PROVE OneReplies'
  <2>1. recv_queue # <<>> => recv_queue' # <<>> /\ Head(recv_queue') = Head(recv_queue)
    BY <1>4 DEF Push, TypeOK
  <2>2. \A s \in Requests : Replying(s)' => Replying(s)
    BY <1>4 DEF Push, Replying, TypeOK
  <2>3. QED
    BY <1>3, <2>1, <2>2
<1>5. ASSUME NEW r \in Requests, Pop(r) PROVE OneReplies'
  <2>1. Replying(r)
    BY <1>5 DEF Pop, Replying
  <2>2. \A s \in Requests : Replying(s)' => Replying(s) /\ s # r
    BY <1>5 DEF Pop, Replying, TypeOK
  <2>3. QED
    BY <1>2, <2>1, <2>2 DEF OneReplies
<1>6. ASSUME NEW r \in Requests, Check(r) PROVE OneReplies'
  <2>1. CASE AtFront(r)
    <3>1. \A s \in Requests : ~(body[s] = body[r] /\ Replying(s))
      BY <1>1, <1>6, <2>1 DEF Check
    <3>2. \A s \in Requests : ~Replying(s)
      BY <1>2, <2>1, <3>1 DEF AtFront
    <3>3. \A s \in Requests : Replying(s)' => s = r
      BY <1>6, <3>2 DEF Check, Replying, TypeOK
    <3>4. UNCHANGED recv_queue
      BY <1>6 DEF Check
    <3>5. QED
      BY <2>1, <3>3, <3>4 DEF OneReplies, AtFront
  <2>2. CASE ~AtFront(r)
    BY <1>3, <1>6, <2>2 DEF Check, Replying, TypeOK
  <2>3. QED
    BY <2>1, <2>2
<1>7. ASSUME NEW r \in Requests,
             SpuriousWake(r) \/ Wait(r) \/ ReadCode(r) \/ SetContent(r) \/ Clear(r)
      PROVE  OneReplies'
  BY <1>3, <1>7 DEF SpuriousWake, Wait, ReadCode, SetContent, Clear, Replying, TypeOK
<1>8. CASE OpNotify
  BY <1>3, <1>8, NotifyHandler DEF OpNotify, Replying
<1>9. CASE OpEmpty \/ OpReset \/ OpSize \/ OpCompare \/ OpFront \/ OpDispatch \/ OpSend
  BY <1>3, <1>9 DEF OpEmpty, OpReset, OpSize, OpCompare, OpFront, OpDispatch, OpSend, Replying
<1>10. CASE UNCHANGED vars
  BY <1>3, <1>10 DEF vars, Replying
<1>11. QED
  BY <1>4, <1>5, <1>6, <1>7, <1>8, <1>9, <1>10 DEF Next, HandlerStep, OpStep

\* The requests of one body in the queue, and those in flight.
QueuedAs(r) == {s \in Queued : body[s] = body[r]}
OpenAs(r) == {s \in InFlight : body[s] = body[r]}

LEMMA BodySets ==
  ASSUME TypeOK, NEW r \in Requests
  PROVE  IsFiniteSet(QueuedAs(r)) /\ IsFiniteSet(OpenAs(r))
<1>1. QueuedAs(r) \subseteq Requests /\ OpenAs(r) \subseteq Requests
  BY DEF QueuedAs, OpenAs, Queued, InFlight, TypeOK
<1>2. QED
  BY <1>1, HttpAssumption, FS_Subset

LEMMA EntriesPush ==
  ASSUME TypeOK, PushedOnce, NEW p \in Requests, Push(p), NEW r \in Requests,
         Cardinality(QueuedAs(r)) = Cardinality(OpenAs(r))
  PROVE  Cardinality(QueuedAs(r)') = Cardinality(OpenAs(r)')
<1> USE DEF Push, Goto, opVars
<1>1. Queued' = Queued \cup {p} /\ p \notin Queued
  <2>1. /\ DOMAIN recv_queue' = DOMAIN recv_queue \cup {Len(recv_queue) + 1}
        /\ recv_queue'[Len(recv_queue) + 1] = p
        /\ \A i \in DOMAIN recv_queue : recv_queue'[i] = recv_queue[i]
    BY DEF TypeOK
  <2>2. QED
    BY <2>1 DEF PushedOnce, Queued
<1>2. InFlight' = InFlight \cup {p} /\ p \notin InFlight
  BY DEF InFlight, TypeOK
<1>3. CASE body[p] = body[r]
  <2>1. /\ QueuedAs(r)' = QueuedAs(r) \cup {p} /\ p \notin QueuedAs(r)
        /\ OpenAs(r)' = OpenAs(r) \cup {p} /\ p \notin OpenAs(r)
    BY <1>1, <1>2, <1>3 DEF QueuedAs, OpenAs
  <2>2. /\ Cardinality(QueuedAs(r) \cup {p}) = Cardinality(QueuedAs(r)) + 1
        /\ Cardinality(OpenAs(r) \cup {p}) = Cardinality(OpenAs(r)) + 1
    BY <2>1, BodySets, FS_AddElement
  <2>3. QED
    BY <2>1, <2>2
<1>4. CASE body[p] # body[r]
  <2>1. QueuedAs(r)' = QueuedAs(r) /\ OpenAs(r)' = OpenAs(r)
    BY <1>1, <1>2, <1>4 DEF QueuedAs, OpenAs
  <2>2. QED
    BY <2>1
<1>5. QED
  BY <1>3, <1>4

LEMMA EntriesPop ==
  ASSUME TypeOK, PushedOnce, NEW p \in Requests, Pop(p), body[Head(recv_queue)] = body[p],
         NEW r \in Requests, Cardinality(QueuedAs(r)) = Cardinality(OpenAs(r))
  PROVE  Cardinality(QueuedAs(r)') = Cardinality(OpenAs(r)')
<1> USE DEF Pop, Goto, opVars
<1> DEFINE h == Head(recv_queue)
<1>1. Queued' = Queued \ {h} /\ h \in Queued
  <2>1. \A i \in DOMAIN recv_queue' :
           i \in Nat \ {0} /\ i + 1 \in DOMAIN recv_queue /\ recv_queue'[i] = recv_queue[i + 1]
    BY DEF TypeOK
  <2>2. 1 \in DOMAIN recv_queue /\ h = recv_queue[1]
    BY DEF TypeOK
  <2>3. ASSUME NEW i \in DOMAIN recv_queue, i # 1
        PROVE  i - 1 \in DOMAIN recv_queue' /\ recv_queue[i] = recv_queue'[i - 1]
    BY <2>3 DEF TypeOK
  <2>4. ASSUME NEW i \in DOMAIN recv_queue' PROVE recv_queue'[i] # h
    <3>1. i + 1 \in DOMAIN recv_queue /\ i + 1 # 1 /\ recv_queue'[i] = recv_queue[i + 1]
      BY <2>1
    <3>2. QED
      BY <3>1, <2>2 DEF PushedOnce
  <2>5. ASSUME NEW x \in Queued' PROVE x \in Queued \ {h}
    BY <2>1, <2>4 DEF Queued
  <2>6. ASSUME NEW x \in Queued \ {h} PROVE x \in Queued'
    <3>1. PICK i \in DOMAIN recv_queue : recv_queue[i] = x
      BY DEF Queued
    <3>2. i # 1
      BY <2>2, <3>1
    <3>3. QED
      BY <2>3, <3>1, <3>2 DEF Queued
  <2>7. QED
    BY <2>2, <2>5, <2>6 DEF Queued
<1>2. InFlight' = InFlight \ {p} /\ p \in InFlight
  BY DEF InFlight, TypeOK
<1>3. CASE body[p] = body[r]
  <2>1. /\ QueuedAs(r)' = QueuedAs(r) \ {h} /\ h \in QueuedAs(r)
        /\ OpenAs(r)' = OpenAs(r) \ {p} /\ p \in OpenAs(r)
    BY <1>1, <1>2, <1>3 DEF QueuedAs, OpenAs
  <2>2. /\ Cardinality(QueuedAs(r) \ {h}) = Cardinality(QueuedAs(r)) - 1
        /\ Cardinality(OpenAs(r) \ {p}) = Cardinality(OpenAs(r)) - 1
    BY <2>1, BodySets, FS_RemoveElement
  <2>3. QED
    BY <2>1, <2>2
<1>4. CASE body[p] # body[r]
  <2>1. QueuedAs(r)' = QueuedAs(r) /\ OpenAs(r)' = OpenAs(r)
    BY <1>1, <1>2, <1>4 DEF QueuedAs, OpenAs
  <2>2. QED
    BY <2>1
<1>5. QED
  BY <1>3, <1>4

LEMMA EntriesStep == EntriesInv /\ [Next]_vars => EntriesMatchBodies'
<1> SUFFICES ASSUME EntriesInv, [Next]_vars, ~doubled', NEW r \in Requests
             PROVE  Cardinality(QueuedAs(r)') = Cardinality(OpenAs(r)')
  BY DEF EntriesMatchBodies, QueuedAs, OpenAs
<1> USE DEF EntriesInv, handlerVars, opVars, Goto
<1>1. ~doubled
  BY DEF Next, HandlerStep, OpStep, Push, SpuriousWake, Wait, Check, ReadCode, SetContent,
         Clear, Pop, OpEmpty, OpReset, OpSize, OpCompare, OpFront, OpDispatch, OpSend,
         OpNotify, vars
<1>2. Cardinality(QueuedAs(r)) = Cardinality(OpenAs(r))
  BY <1>1 DEF EntriesMatchBodies, QueuedAs, OpenAs
<1>3. ASSUME NEW p \in Requests, Push(p)
      PROVE  Cardinality(QueuedAs(r)') = Cardinality(OpenAs(r)')
  BY <1>2, <1>3, EntriesPush
<1>4. ASSUME NEW p \in Requests, Pop(p)
      PROVE  Cardinality(QueuedAs(r)') = Cardinality(OpenAs(r)')
  <2>1. body[Head(recv_queue)] = body[p]
    BY <1>1, <1>4 DEF OneReplies, Replying, Pop
  <2>2. QED
    BY <1>2, <1>4, <2>1, EntriesPop
<1>5. ASSUME UNCHANGED recv_queue, InFlight' = InFlight
      PROVE  Cardinality(QueuedAs(r)') = Cardinality(OpenAs(r)')
  <2>1. QueuedAs(r)' = QueuedAs(r) /\ OpenAs(r)' = OpenAs(r)
    BY <1>5 DEF QueuedAs, OpenAs, Queued
  <2>2. QED
    BY <1>2, <2>1
<1>6. ASSUME NEW p \in Requests,
             \/ SpuriousWake(p) \/ Wait(p) \/ Check(p)
             \/ ReadCode(p) \/ SetContent(p) \/ Clear(p)
      PROVE  UNCHANGED recv_queue /\ InFlight' = InFlight
  BY <1>6 DEF SpuriousWake, Wait, Check, ReadCode, SetContent, Clear, InFlight, TypeOK
<1>7. CASE OpNotify
  BY <1>5, <1>7, NotifyHandler DEF OpNotify, InFlight
<1>8. CASE OpEmpty \/ OpReset \/ OpSize \/ OpCompare \/ OpFront \/ OpDispatch \/ OpSend
  BY <1>5, <1>8
     DEF OpEmpty, OpReset, OpSize, OpCompare, OpFront, OpDispatch, OpSend, InFlight
<1>9. CASE UNCHANGED vars
  BY <1>5, <1>9 DEF vars, InFlight
<1>10. QED
  BY <1>3, <1>4, <1>5, <1>6, <1>7, <1>8, <1>9 DEF Next, HandlerStep, OpStep

LEMMA EntriesInit == Init => EntriesInv
<1> SUFFICES ASSUME Init PROVE EntriesInv
  OBVIOUS
<1>1. PushedOnce /\ OneReplies
  BY DEF Init, PushedOnce, OneReplies, Replying
<1>2. Queued = {} /\ InFlight = {}
  BY DEF Init, Queued, InFlight
<1>3. ASSUME NEW r \in Requests
      PROVE  {s \in Queued : body[s] = body[r]} = {s \in InFlight : body[s] = body[r]}
  BY <1>2
<1>4. EntriesMatchBodies
  BY <1>3 DEF EntriesMatchBodies
<1>5. QED
  BY <1>1, <1>4, TypeInit DEF EntriesInv

(***************************************************************************)
(* For each body there are as many elements in the queue as handlers that  *)
(* have yet to pop, so whoever waits for the front will find its body      *)
(* there, unless two handlers of one body have replied at once.            *)
(***************************************************************************)
THEOREM EntriesCorrect == Spec => []EntriesMatchBodies
<1>1. EntriesInv /\ [Next]_vars => EntriesInv'
  <2>1. EntriesInv /\ [Next]_vars => TypeOK' /\ PushedOnce' /\ OneReplies'
    BY TypeStep, PushedOnceStep, OneRepliesStep DEF EntriesInv
  <2>2. QED
    BY <2>1, EntriesStep DEF EntriesInv
<1>2. EntriesInv => EntriesMatchBodies
  BY DEF EntriesInv
<1>3. QED
  BY <1>1, <1>2, EntriesInit, PTL DEF Spec

-----------------------------------------------------------------------------
(* How often a request is executed *)

\* The reports of r, executed or about to be.
Reports(r) == executed[r] + (IF op = "dispatch" /\ data = r THEN 1 ELSE 0)

SomeAnswered == \E r \in Requests : handler[r] = "answered"

FrontCount == Reports(Head(recv_queue))

Behind(r) == \E i \in DOMAIN recv_queue : i > 1 /\ recv_queue[i] = r

\* Only the front has been reported, or was when it was popped.
Unreported ==
    /\ \A r \in Requests : handler[r] = "idle" \/ Behind(r) => Reports(r) = 0
    /\ op = "reset" /\ recv_queue # <<>> => FrontCount = 0

\* n reports by sizes up to the one that was reported last, one more if a size
\* was that of a queue with an earlier front.
BySize(n) == \/ n = 1 /\ SomeAnswered
             \/ n <= lastQueueSize
             \/ n <= lastQueueSize + 1 /\ SomeAnswered

FrontReports ==
    recv_queue # <<>> /\ FrontCount # 0 =>
       /\ BySize(FrontCount)
       /\ lastQueueSize <= Len(recv_queue) \/ (FrontCount = 1 /\ SomeAnswered)

\* What receive() knows of the size it has read.
SizeRead ==
    /\ lastQueueSize # 0 \/ curQueueSize # 0 => Arrived # {}
    /\ op = "front" => curQueueSize # lastQueueSize
    /\ op \in {"compare", "front"} =>
          /\ curQueueSize = 0 => lastQueueSize = 0 \/ SomeAnswered
          /\ curQueueSize > Len(recv_queue) => SomeAnswered
          /\ recv_queue # <<>> /\ FrontCount # 0 =>
                /\ 1 <= curQueueSize /\ curQueueSize <= Len(recv_queue)
                /\ lastQueueSize <= curQueueSize \/ (FrontCount = 1 /\ SomeAnswered)

ReportsBounded == \A r \in Requests : Reports(r) <= Cardinality(Arrived)

ReportInv == /\ TypeOK /\ OneEntryPerHandler /\ PushedOnce /\ Unreported
             /\ FrontReports /\ SizeRead /\ ReportsBounded

LEMMA ReportsType ==
  ASSUME TypeOK, NEW r \in Requests
  PROVE  Reports(r) \in Nat /\ executed[r] <= Reports(r)
  BY DEF Reports, TypeOK

LEMMA ArrivedFinite ==
  ASSUME TypeOK
  PROVE  /\ IsFiniteSet(Arrived) /\ Cardinality(Arrived) \in Nat
         /\ Arrived # {} => Cardinality(Arrived) >= 1
<1>1. IsFiniteSet(Arrived)
  BY HttpAssumption, FS_Subset DEF Arrived
<1>2. Cardinality(Arrived) \in Nat /\ (Arrived # {} => Cardinality(Arrived) # 0)
  BY <1>1, FS_CardinalityType, FS_EmptySet
<1>3. QED
  BY <1>1, <1>2

\* As many have arrived as there are elements, and one more if one was answered.
LEMMA ArrivedCount ==
  ASSUME TypeOK, OneEntryPerHandler
  PROVE  /\ Len(recv_queue) <= Cardinality(Arrived)
         /\ SomeAnswered => Len(recv_queue) + 1 <= Cardinality(Arrived)
         /\ recv_queue = <<>> /\ Arrived # {} => SomeAnswered
<1>1. /\ IsFiniteSet(InFlight) /\ InFlight \subseteq Arrived
      /\ IsFiniteSet(Arrived) /\ Len(recv_queue) \in Nat
  <2>1. InFlight \subseteq Arrived /\ Len(recv_queue) \in Nat
    BY DEF InFlight, Arrived, TypeOK
  <2>2. QED
    BY <2>1, ArrivedFinite, FS_Subset
<1>2. Len(recv_queue) <= Cardinality(Arrived)
  BY <1>1, FS_Subset DEF OneEntryPerHandler
<1>3. ASSUME SomeAnswered PROVE Len(recv_queue) + 1 <= Cardinality(Arrived)
  <2>1. PICK r \in Requests : handler[r] = "answered"
    BY <1>3 DEF SomeAnswered
  <2>2. r \notin InFlight /\ InFlight \cup {r} \subseteq Arrived
    BY <1>1, <2>1 DEF InFlight, Arrived
  <2>3. Cardinality(InFlight \cup {r}) = Cardinality(InFlight) + 1
    BY <1>1, <2>2, FS_AddElement
  <2>4. Cardinality(InFlight \cup {r}) <= Cardinality(Arrived)
    BY <1>1, <2>2, FS_Subset
  <2>5. QED
    BY <2>3, <2>4 DEF OneEntryPerHandler
<1>4. ASSUME recv_queue = <<>>, Arrived # {} PROVE SomeAnswered
  <2>1. Cardinality(InFlight) = 0
    BY <1>4 DEF OneEntryPerHandler
  <2>2. InFlight = {}
    BY <1>1, <2>1, FS_EmptySet
  <2>3. QED
    BY <1>4, <2>2 DEF Arrived, InFlight, SomeAnswered
<1>5. QED
  BY <1>2, <1>3, <1>4

\* The parts of the invariant about reports.
ReportParts == Unreported /\ FrontReports /\ SizeRead /\ ReportsBounded

\* Nobody who has arrived leaves, and who was answered stays so.
LEMMA ArrivedGrows ==
  ASSUME TypeOK, [Next]_vars
  PROVE  /\ Arrived \subseteq Arrived'
         /\ SomeAnswered => SomeAnswered'
         /\ Cardinality(Arrived) <= Cardinality(Arrived')
<1>1. \A r \in Requests : /\ handler'[r] = "idle" => handler[r] = "idle"
                          /\ handler[r] = "answered" => handler'[r] = "answered"
  <2> USE DEF handlerVars, opVars, Goto
  <2>1. ASSUME NEW s \in Requests, Push(s) \/ SpuriousWake(s) \/ HandlerStep(s),
               NEW r \in Requests
        PROVE  /\ handler'[r] = "idle" => handler[r] = "idle"
               /\ handler[r] = "answered" => handler'[r] = "answered"
    BY <2>1 DEF Push, SpuriousWake, HandlerStep, Wait, Check, ReadCode, SetContent, Clear,
                Pop, TypeOK
  <2>2. CASE OpNotify
    BY <2>2, NotifyHandler
  <2>3. CASE OpEmpty \/ OpReset \/ OpSize \/ OpCompare \/ OpFront \/ OpDispatch \/ OpSend
    BY <2>3 DEF OpEmpty, OpReset, OpSize, OpCompare, OpFront, OpDispatch, OpSend
  <2>4. CASE UNCHANGED vars
    BY <2>4 DEF vars
  <2>5. QED
    BY <2>1, <2>2, <2>3, <2>4 DEF Next, OpStep
<1>2. Arrived \subseteq Arrived' /\ (SomeAnswered => SomeAnswered')
  BY <1>1 DEF Arrived, SomeAnswered
<1>3. TypeOK'
  BY TypeStep
<1>4. IsFiniteSet(Arrived')
  <2>1. Arrived' \subseteq Requests
    BY DEF Arrived
  <2>2. QED
    BY <2>1, HttpAssumption, FS_Subset
<1>5. QED
  BY <1>2, <1>4, FS_Subset

LEMMA FrontRequest ==
  ASSUME TypeOK, recv_queue # <<>>
  PROVE  /\ Head(recv_queue) \in Requests /\ FrontCount \in Nat
         /\ 1 \in DOMAIN recv_queue /\ recv_queue[1] = Head(recv_queue)
         /\ Len(recv_queue) \in Nat \ {0}
<1>1. Head(recv_queue) \in Requests
  BY DEF TypeOK
<1>2. FrontCount \in Nat
  BY <1>1, ReportsType DEF FrontCount
<1>3. QED
  BY <1>1, <1>2 DEF TypeOK

\* The reports are bounded as long as they are not more than before.
LEMMA StillBounded ==
  ASSUME ReportInv, [Next]_vars, NEW s \in Requests, Reports(s)' <= Reports(s)
  PROVE  Reports(s)' <= Cardinality(Arrived')
<1>1. Reports(s) <= Cardinality(Arrived) /\ Reports(s) \in Nat /\ Reports(s)' \in Nat
  BY ReportsType, TypeStep DEF ReportInv, ReportsBounded, Reports, TypeOK
<1>2. Cardinality(Arrived) \in Nat /\ Cardinality(Arrived) <= Cardinality(Arrived')
  BY ArrivedFinite, ArrivedGrows DEF ReportInv
<1>3. Cardinality(Arrived') \in Nat
  <2>1. Arrived' \subseteq Requests
    BY DEF Arrived
  <2>2. QED
    BY <2>1, HttpAssumption, FS_Subset, FS_CardinalityType
<1>4. QED
  BY <1>1, <1>2, <1>3

LEMMA ReportPush ==
  ASSUME ReportInv, NEW r \in Requests, Push(r)
  PROVE  ReportParts'
<1> USE DEF ReportInv
<1>1. /\ recv_queue \in Seq(Requests)
      /\ DOMAIN recv_queue' = DOMAIN recv_queue \cup {Len(recv_queue) + 1}
      /\ recv_queue'[Len(recv_queue) + 1] = r
      /\ \A i \in DOMAIN recv_queue : recv_queue'[i] = recv_queue[i]
      /\ Len(recv_queue') = Len(recv_queue) + 1
      /\ Len(recv_queue) \in Nat /\ recv_queue' # <<>>
  BY DEF Push, TypeOK
<1>2. UNCHANGED <<op, data, executed, lastQueueSize, curQueueSize>>
  BY DEF Push, opVars
<1>3. \A s \in Requests : Reports(s)' = Reports(s)
  BY <1>2 DEF Reports
<1>4. Reports(r) = 0
  BY DEF Unreported, Push
<1>5. /\ recv_queue # <<>> => FrontCount' = FrontCount
      /\ recv_queue = <<>> => FrontCount' = 0
  <2>1. CASE recv_queue # <<>>
    <3>1. Head(recv_queue') = Head(recv_queue)
      BY <2>1 DEF Push, TypeOK
    <3>2. QED
      BY <1>2, <2>1, <3>1 DEF FrontCount, Reports
  <2>2. CASE recv_queue = <<>>
    <3>1. Head(recv_queue') = r
      BY <2>2 DEF Push
    <3>2. QED
      BY <1>2, <1>4, <2>2, <3>1 DEF FrontCount, Reports
  <2>3. QED
    BY <2>1, <2>2
<1>6. SomeAnswered => SomeAnswered'
  BY ArrivedGrows DEF Next
<1>7. Arrived' # {}
  BY DEF Push, Goto, Arrived, TypeOK
<1>8. Unreported'
  <2>1. \A s \in Requests : handler'[s] = "idle" => handler[s] = "idle"
    BY DEF Push, Goto, TypeOK
  <2>2. \A s \in Requests : Behind(s)' => Behind(s) \/ s = r
    BY <1>1 DEF Behind
  <2>3. QED
    BY <1>2, <1>3, <1>4, <1>5, <2>1, <2>2 DEF Unreported
<1>9. FrontReports'
  <2>1. lastQueueSize <= Len(recv_queue) => lastQueueSize' <= Len(recv_queue')
    BY <1>1, <1>2 DEF TypeOK
  <2>2. ASSUME FrontCount' # 0
        PROVE  FrontCount' = FrontCount /\ FrontCount # 0 /\ recv_queue # <<>>
    BY <1>5, <2>2
  <2>3. QED
    BY <1>2, <1>6, <2>1, <2>2 DEF FrontReports, BySize
<1>10. SizeRead'
  <2>1. curQueueSize > Len(recv_queue') => curQueueSize > Len(recv_queue)
    BY <1>1 DEF TypeOK
  <2>2. curQueueSize <= Len(recv_queue) => curQueueSize <= Len(recv_queue')
    BY <1>1 DEF TypeOK
  <2>3. FrontCount' # 0 => FrontCount' = FrontCount /\ FrontCount # 0 /\ recv_queue # <<>>
    BY <1>5
  <2>4. QED
    BY <1>2, <1>6, <1>7, <2>1, <2>2, <2>3 DEF SizeRead
<1>11. ReportsBounded'
  <2>1. ASSUME NEW s \in Requests PROVE Reports(s)' <= Reports(s)
    BY <1>3, ReportsType
  <2>2. QED
    BY <2>1, StillBounded DEF ReportsBounded, Next
<1>12. QED
  BY <1>8, <1>9, <1>10, <1>11 DEF ReportParts

LEMMA ReportPop ==
  ASSUME ReportInv, NEW r \in Requests, Pop(r)
  PROVE  ReportParts'
<1> USE DEF ReportInv
<1>1. UNCHANGED <<op, data, executed, lastQueueSize, curQueueSize>>
  BY DEF Pop, opVars
<1>2. SomeAnswered' /\ Arrived' # {}
  BY DEF Pop, Goto, SomeAnswered, Arrived, TypeOK
<1>3. \A s \in Requests : Reports(s)' = Reports(s)
  BY <1>1 DEF Reports
<1>4. \A i \in DOMAIN recv_queue' :
         i \in Nat \ {0} /\ i + 1 \in DOMAIN recv_queue /\ recv_queue'[i] = recv_queue[i + 1]
  BY DEF Pop, TypeOK
<1>5. recv_queue' # <<>> => FrontCount' = 0
  <2>1. SUFFICES ASSUME recv_queue' # <<>> PROVE FrontCount' = 0
    OBVIOUS
  <2>2. TypeOK'
    BY TypeStep DEF Next, HandlerStep
  <2>3. Head(recv_queue') \in Requests /\ 1 \in DOMAIN recv_queue' /\ recv_queue'[1] = Head(recv_queue')
    BY <2>1, <2>2 DEF TypeOK
  <2>4. Behind(Head(recv_queue'))
    BY <1>4, <2>3 DEF Behind
  <2>5. Reports(Head(recv_queue')) = 0
    BY <2>3, <2>4 DEF Unreported
  <2>6. QED
    BY <1>1, <2>5 DEF FrontCount, Reports
<1>6. Unreported'
  <2>1. \A s \in Requests : handler'[s] = "idle" => handler[s] = "idle"
    BY DEF Pop, Goto, TypeOK
  <2>2. \A s \in Requests : Behind(s)' => Behind(s)
    BY <1>4 DEF Behind
  <2>3. QED
    BY <1>3, <1>5, <2>1, <2>2 DEF Unreported
<1>7. FrontReports'
  BY <1>5 DEF FrontReports
<1>8. SizeRead'
  BY <1>1, <1>2, <1>5 DEF SizeRead
<1>9. ReportsBounded'
  <2>1. ASSUME NEW s \in Requests PROVE Reports(s)' <= Reports(s)
    BY <1>3, ReportsType
  <2>2. QED
    BY <2>1, StillBounded DEF ReportsBounded, Next, HandlerStep
<1>10. QED
  BY <1>6, <1>7, <1>8, <1>9 DEF ReportParts

\* Steps of the handlers that leave the queue alone.
LEMMA ReportInPlace ==
  ASSUME ReportInv, [Next]_vars,
         UNCHANGED <<recv_queue, executed, data, lastQueueSize, curQueueSize>>,
         \/ op' = op
         \/ op = "empty" /\ op' \in {"reset", "size"} /\ (op' = "reset" => recv_queue = <<>>)
         \/ op \in {"send", "notify"} /\ op' \in {"notify", "empty"}
         \/ op = "compare" /\ (op' = "empty" \/ (op' = "front" /\ curQueueSize # lastQueueSize))
  PROVE  ReportParts'
<1> USE DEF ReportInv
<1>1. \A s \in Requests : Reports(s)' = Reports(s)
  BY DEF Reports
<1>2. FrontCount' = FrontCount
  BY DEF FrontCount, Reports
<1>3. /\ SomeAnswered => SomeAnswered'
      /\ Arrived # {} => Arrived' # {}
      /\ \A s \in Requests : handler'[s] = "idle" => handler[s] = "idle"
  BY ArrivedGrows DEF Arrived
<1>4. Unreported'
  <2>1. \A s \in Requests : Behind(s)' => Behind(s)
    BY DEF Behind
  <2>2. QED
    BY <1>1, <1>2, <1>3, <2>1 DEF Unreported
<1>5. FrontReports'
  BY <1>2, <1>3 DEF FrontReports, BySize
<1>6. SizeRead'
  BY <1>2, <1>3 DEF SizeRead
<1>7. ReportsBounded'
  <2>1. ASSUME NEW s \in Requests PROVE Reports(s)' <= Reports(s)
    BY <1>1, ReportsType
  <2>2. QED
    BY <2>1, StillBounded DEF ReportsBounded
<1>8. QED
  BY <1>4, <1>5, <1>6, <1>7 DEF ReportParts

\* receive() takes the size, after an empty queue also for the last one.
LEMMA ReportSize ==
  ASSUME ReportInv, OpReset \/ OpSize
  PROVE  ReportParts'
<1> USE DEF ReportInv, handlerVars
<1>1. UNCHANGED <<recv_queue, handler, executed, data>>
  BY DEF OpReset, OpSize
<1>2. \A s \in Requests : Reports(s)' = Reports(s)
  BY DEF OpReset, OpSize, Reports
<1>3. FrontCount' = FrontCount
  BY DEF OpReset, OpSize, FrontCount, Reports
<1>4. SomeAnswered' = SomeAnswered /\ Arrived' = Arrived
  BY <1>1 DEF SomeAnswered, Arrived
<1>5. Unreported'
  <2>1. \A s \in Requests : Behind(s)' => Behind(s)
    BY <1>1 DEF Behind
  <2>2. op' # "reset"
    BY DEF OpReset, OpSize
  <2>3. QED
    BY <1>1, <1>2, <2>1, <2>2 DEF Unreported
<1>6. ReportsBounded'
  BY <1>2, <1>4 DEF ReportsBounded
<1>7. Len(recv_queue) # 0 => recv_queue # <<>> /\ Arrived # {}
  <2>1. Len(recv_queue) <= Cardinality(Arrived) /\ Len(recv_queue) \in Nat
    BY ArrivedCount DEF TypeOK
  <2>2. Cardinality({}) = 0
    BY FS_EmptySet
  <2>3. QED
    BY <2>1, <2>2
<1>8. CASE OpReset
  <2>1. recv_queue # <<>> => FrontCount = 0
    BY <1>8 DEF OpReset, Unreported
  <2>2. lastQueueSize' = Len(recv_queue) /\ curQueueSize' = curQueueSize /\ op' = "size"
    BY <1>8 DEF OpReset
  <2>3. FrontReports'
    BY <1>1, <1>3, <2>1 DEF FrontReports
  <2>4. SizeRead'
    BY <1>4, <1>7, <2>2 DEF SizeRead
  <2>5. QED
    BY <1>5, <1>6, <2>3, <2>4 DEF ReportParts
<1>9. CASE OpSize
  <2>1. curQueueSize' = Len(recv_queue) /\ lastQueueSize' = lastQueueSize /\ op' = "compare"
    BY <1>9 DEF OpSize
  <2>2. FrontReports'
    BY <1>1, <1>3, <1>4, <2>1 DEF FrontReports, BySize
  <2>3. Len(recv_queue) = 0 => lastQueueSize = 0 \/ SomeAnswered
    BY ArrivedCount DEF SizeRead, TypeOK
  <2>4. ~(Len(recv_queue) > Len(recv_queue))
    BY DEF TypeOK
  <2>5. recv_queue # <<>> => 1 <= Len(recv_queue) /\ Len(recv_queue) <= Len(recv_queue)
    BY DEF TypeOK
  <2>6. SizeRead'
    BY <1>1, <1>3, <1>4, <1>7, <2>1, <2>3, <2>4, <2>5 DEF SizeRead, FrontReports
  <2>7. QED
    BY <1>5, <1>6, <2>2, <2>6 DEF ReportParts
<1>10. QED
  BY <1>8, <1>9

LEMMA ReportFront ==
  ASSUME ReportInv, OpFront
  PROVE  ReportParts'
<1> USE DEF ReportInv, handlerVars
<1>1. /\ UNCHANGED <<recv_queue, handler, executed, curQueueSize>>
      /\ op = "front" /\ op' = "dispatch" /\ lastQueueSize' = curQueueSize
  BY DEF OpFront
<1>2. SomeAnswered' = SomeAnswered /\ Arrived' = Arrived
  BY <1>1 DEF SomeAnswered, Arrived
<1>3. /\ curQueueSize # lastQueueSize /\ curQueueSize \in Nat /\ lastQueueSize \in Nat
      /\ curQueueSize = 0 => SomeAnswered
      /\ curQueueSize # 0 => Arrived # {}
      /\ curQueueSize > Len(recv_queue) => SomeAnswered
  BY <1>1 DEF SizeRead, TypeOK
<1>4. CASE recv_queue = <<>>
  <2>1. data' \notin Requests
    BY <1>4, HttpAssumption DEF OpFront
  <2>2. \A s \in Requests : Reports(s)' = Reports(s)
    BY <1>1, <2>1 DEF Reports, TypeOK
  <2>3. Unreported'
    <3>1. \A s \in Requests : Behind(s)' => Behind(s)
      BY <1>1 DEF Behind
    <3>2. QED
      BY <1>1, <2>2, <3>1 DEF Unreported
  <2>4. FrontReports' /\ SizeRead' /\ ReportsBounded'
    BY <1>1, <1>2, <1>3, <1>4, <2>2 DEF FrontReports, SizeRead, ReportsBounded
  <2>5. QED
    BY <2>3, <2>4 DEF ReportParts
<1>5. CASE recv_queue # <<>>
  <2> DEFINE h == Head(recv_queue)
  <2>1. /\ h \in Requests /\ FrontCount \in Nat /\ data' = h
        /\ 1 \in DOMAIN recv_queue /\ recv_queue[1] = h /\ Len(recv_queue) \in Nat \ {0}
    BY <1>5, FrontRequest DEF OpFront
  <2>2. /\ \A s \in Requests : s # h => Reports(s)' = Reports(s)
        /\ \A s \in Requests : s = h => Reports(s)' = FrontCount + 1
        /\ FrontCount' = FrontCount + 1
    BY <1>1, <2>1 DEF Reports, FrontCount, TypeOK
  <2>3. Unreported'
    <3>1. \A s \in Requests : Behind(s)' => Behind(s) /\ s # h
      BY <1>1, <2>1 DEF Behind, PushedOnce
    <3>2. handler'[h] # "idle"
      BY <1>1, <2>1 DEF PushedOnce
    <3>3. QED
      BY <1>1, <2>2, <3>1, <3>2 DEF Unreported
  <2>4. /\ BySize(FrontCount)'
        /\ curQueueSize <= Len(recv_queue) \/ (FrontCount + 1 = 1 /\ SomeAnswered)
    <3>1. CASE FrontCount = 0
      BY <1>1, <1>2, <1>3, <2>1, <2>2, <3>1 DEF BySize
    <3>2. CASE FrontCount # 0
      <4>1. /\ 1 <= curQueueSize /\ curQueueSize <= Len(recv_queue)
            /\ lastQueueSize <= curQueueSize \/ (FrontCount = 1 /\ SomeAnswered)
            /\ BySize(FrontCount)
        BY <1>1, <1>5, <3>2 DEF SizeRead, FrontReports
      <4>2. FrontCount + 1 <= curQueueSize \/ (FrontCount + 1 <= curQueueSize + 1 /\ SomeAnswered)
        BY <1>3, <2>1, <4>1 DEF BySize
      <4>3. QED
        BY <1>1, <1>2, <2>2, <4>1, <4>2 DEF BySize
    <3>3. QED
      BY <3>1, <3>2
  <2>5. FrontReports'
    BY <1>1, <1>2, <2>2, <2>4 DEF FrontReports
  <2>6. SizeRead'
    BY <1>1, <1>2, <1>3 DEF SizeRead
  <2>7. FrontCount + 1 <= Cardinality(Arrived)
    <3>1. /\ Len(recv_queue) <= Cardinality(Arrived)
          /\ SomeAnswered => Len(recv_queue) + 1 <= Cardinality(Arrived)
          /\ Cardinality(Arrived) \in Nat
      BY ArrivedCount, ArrivedFinite
    <3>2. \/ FrontCount + 1 = 1
          \/ /\ curQueueSize <= Len(recv_queue)
             /\ \/ FrontCount + 1 <= curQueueSize
                \/ FrontCount + 1 <= curQueueSize + 1 /\ SomeAnswered
      BY <1>1, <1>2, <2>1, <2>2, <2>4 DEF BySize
    <3>3. QED
      BY <1>3, <2>1, <2>2, <3>1, <3>2
  <2>8. ReportsBounded'
    <3>1. ASSUME NEW s \in Requests PROVE Reports(s)' <= Cardinality(Arrived')
      <4>1. s # h => Reports(s) <= Cardinality(Arrived)
        BY DEF ReportsBounded
      <4>2. CASE s = h
        BY <1>2, <2>2, <2>7, <4>2
      <4>3. CASE s # h
        BY <1>2, <2>2, <4>1, <4>3
      <4>4. QED
        BY <4>2, <4>3
    <3>2. QED
      BY <3>1 DEF ReportsBounded
  <2>9. QED
    BY <2>3, <2>5, <2>6, <2>8 DEF ReportParts
<1>6. QED
  BY <1>4, <1>5

\* A report becomes an execution, or nothing if no operation serves it.
LEMMA ReportDispatch ==
  ASSUME ReportInv, OpDispatch
  PROVE  ReportParts'
<1> USE DEF ReportInv, handlerVars
<1>1. /\ UNCHANGED <<recv_queue, handler, data, lastQueueSize, curQueueSize>>
      /\ op = "dispatch" /\ op' \in {"send", "empty"}
  BY DEF OpDispatch
<1>2. SomeAnswered' = SomeAnswered /\ Arrived' = Arrived
  BY <1>1 DEF SomeAnswered, Arrived
<1>3. ASSUME NEW s \in Requests
      PROVE  /\ Reports(s)' \in Nat /\ Reports(s) \in Nat
             /\ Reports(s)' = Reports(s) \/ Reports(s)' + 1 = Reports(s)
  BY <1>1 DEF OpDispatch, Reports, TypeOK
<1>4. Unreported'
  <2>1. \A s \in Requests : Behind(s)' => Behind(s)
    BY <1>1 DEF Behind
  <2>2. QED
    BY <1>1, <1>3, <2>1 DEF Unreported
<1>5. FrontReports'
  <2>1. SUFFICES ASSUME recv_queue # <<>>, FrontCount' # 0
                 PROVE  /\ BySize(FrontCount)'
                        /\ lastQueueSize <= Len(recv_queue) \/ (FrontCount' = 1 /\ SomeAnswered)
    BY <1>1, <1>2 DEF FrontReports, BySize
  <2>2. /\ FrontCount' \in Nat /\ FrontCount \in Nat
        /\ FrontCount' = FrontCount \/ FrontCount' + 1 = FrontCount
    BY <1>1, <1>3, <2>1, FrontRequest DEF FrontCount, Reports
  <2>0. \A m, n, k \in Nat : m # 0 /\ (m = n \/ m + 1 = n) =>
           n # 0 /\ (n = 1 => m = 1) /\ (n <= k => m <= k)
    OBVIOUS
  <2>3. FrontCount # 0
    BY <2>1, <2>2, <2>0
  <2>4. /\ BySize(FrontCount)
        /\ lastQueueSize <= Len(recv_queue) \/ (FrontCount = 1 /\ SomeAnswered)
    BY <2>1, <2>3 DEF FrontReports
  <2>5. FrontCount = 1 => FrontCount' = 1
    BY <2>1, <2>2, <2>0
  <2>6. /\ lastQueueSize \in Nat /\ lastQueueSize + 1 \in Nat
        /\ lastQueueSize' = lastQueueSize /\ SomeAnswered' = SomeAnswered
    BY <1>1, <1>2 DEF TypeOK
  <2>7. BySize(FrontCount)'
    <3>1. FrontCount <= lastQueueSize => FrontCount' <= lastQueueSize
      BY <2>1, <2>2, <2>6, <2>0
    <3>2. FrontCount <= lastQueueSize + 1 => FrontCount' <= lastQueueSize + 1
      BY <2>1, <2>2, <2>6, <2>0
    <3>3. QED
      BY <2>4, <2>5, <2>6, <3>1, <3>2 DEF BySize
  <2>8. QED
    BY <2>4, <2>5, <2>7
<1>6. SizeRead'
  BY <1>1, <1>2 DEF SizeRead
<1>7. ReportsBounded'
  <2>1. ASSUME NEW s \in Requests PROVE Reports(s)' <= Reports(s)
    BY <1>3
  <2>2. QED
    BY <2>1, StillBounded DEF ReportsBounded, Next, OpStep
<1>8. QED
  BY <1>4, <1>5, <1>6, <1>7 DEF ReportParts

LEMMA ReportStep == ReportInv /\ [Next]_vars => ReportInv'
<1> SUFFICES ASSUME ReportInv, [Next]_vars PROVE ReportInv'
  OBVIOUS
<1> USE DEF handlerVars, opVars
<1>1. TypeOK' /\ OneEntryPerHandler' /\ PushedOnce'
  BY TypeStep, QueueStep, PushedOnceStep DEF ReportInv
<1>2. ASSUME NEW r \in Requests,
             \/ SpuriousWake(r) \/ Wait(r) \/ Check(r)
             \/ ReadCode(r) \/ SetContent(r) \/ Clear(r)
      PROVE  ReportParts'
  BY <1>2, ReportInPlace DEF SpuriousWake, Wait, Check, ReadCode, SetContent, Clear
<1>3. ASSUME OpEmpty \/ OpSend \/ OpCompare \/ OpNotify PROVE ReportParts'
  <2>1. UNCHANGED <<recv_queue, executed, data, lastQueueSize, curQueueSize>>
    BY <1>3 DEF OpEmpty, OpSend, OpCompare, OpNotify
  <2>2. \/ op = "empty" /\ op' \in {"reset", "size"} /\ (op' = "reset" => recv_queue = <<>>)
        \/ op \in {"send", "notify"} /\ op' \in {"notify", "empty"}
        \/ op = "compare" /\ (op' = "empty" \/ (op' = "front" /\ curQueueSize # lastQueueSize))
    BY <1>3 DEF OpEmpty, OpSend, OpCompare, OpNotify
  <2>3. QED
    BY <2>1, <2>2, ReportInPlace
<1>4. ASSUME UNCHANGED vars PROVE ReportParts'
  <2>1. UNCHANGED <<recv_queue, executed, data, lastQueueSize, curQueueSize, op>>
    BY <1>4 DEF vars
  <2>2. QED
    BY <2>1, ReportInPlace
<1>5. ASSUME OpReset \/ OpSize PROVE ReportParts'
  BY <1>5, ReportSize
<1>6. ASSUME OpFront PROVE ReportParts'
  BY <1>6, ReportFront
<1>7. ASSUME OpDispatch PROVE ReportParts'
  BY <1>7, ReportDispatch
<1>8. ASSUME NEW r \in Requests, Push(r) PROVE ReportParts'
  BY <1>8, ReportPush
<1>9. ASSUME NEW r \in Requests, Pop(r) PROVE ReportParts'
  BY <1>9, ReportPop
<1>10. ReportParts'
  BY <1>2, <1>3, <1>4, <1>5, <1>6, <1>7, <1>8, <1>9 DEF Next, HandlerStep, OpStep
<1>11. QED
  BY <1>1, <1>10 DEF ReportInv, ReportParts

LEMMA ReportInit == Init => ReportInv
<1> SUFFICES ASSUME Init PROVE ReportInv
  OBVIOUS
<1>1. TypeOK /\ OneEntryPerHandler
  BY TypeInit, QueueInit
<1>2. PushedOnce
  BY DEF Init, PushedOnce
<1>3. \A r \in Requests : Reports(r) = 0
  BY DEF Init, Reports
<1>4. Unreported /\ FrontReports /\ SizeRead
  BY <1>3 DEF Init, Unreported, FrontReports, SizeRead
<1>5. ReportsBounded
  BY <1>1, <1>3, ArrivedFinite DEF ReportsBounded
<1>6. QED
  BY <1>1, <1>2, <1>4, <1>5 DEF ReportInv

(***************************************************************************)
(* No request is executed more often than requests have arrived, however   *)
(* the polls fall among pushes and pops, whatever the bodies, those that   *)
(* no operation serves and the wake-ups: alone it is executed once.        *)
(***************************************************************************)
THEOREM ExecutionsCorrect == Spec => []ExecutionsBounded
<1>1. ReportInv => ExecutionsBounded
  <2> SUFFICES ASSUME ReportInv, NEW r \in Requests
               PROVE  executed[r] <= Cardinality(Arrived)
    BY DEF ExecutionsBounded
  <2>1. Reports(r) <= Cardinality(Arrived) /\ Reports(r) \in Nat /\ executed[r] <= Reports(r)
    BY ReportsType DEF ReportInv, ReportsBounded
  <2>2. executed[r] \in Nat /\ Cardinality(Arrived) \in Nat
    BY ArrivedFinite DEF ReportInv, TypeOK
  <2>3. QED
    BY <2>1, <2>2
<1>2. QED
  BY <1>1, ReportInit, ReportStep, PTL DEF Spec
=============================================================================
