---------------------------- MODULE HttpExchange ----------------------------
(***************************************************************************)
(* How an HTTP request is answered (src/code/webserver/HttpService.cpp     *)
(* with NetWorkLayerImp::operation and the loop of TaskHttp).              *)
(*                                                                         *)
(* httplib runs one handler thread per request in flight.  The handler     *)
(* pushes the body on recv_queue, waits on handle_cv until its body is at  *)
(* the front, answers with whatever response_data then holds, clears it    *)
(* and pops the front.  The task thread polls: receive() looks at the      *)
(* queue without its lock and reports the front if the size differs from   *)
(* the size it last reported, operation() executes it, send() overwrites   *)
(* response_data and notifies.                                             *)
(*                                                                         *)
(* A queue element is the request that pushed it, so that a property can   *)
(* speak of whose element it is; the code sees its body only.  A response  *)
(* is the request it was computed for.                                     *)
(***************************************************************************)
EXTENDS Integers, Sequences, FiniteSets

CONSTANTS Requests,
          body,           \* [Requests -> bodies]; two requests may be alike
          Unserved,       \* bodies the switch of operation() sends nothing for
          SpuriousWakes,  \* may condition_variable::wait return by itself?
          Ok,             \* the initial response_data
          Empty,          \* the empty string
          Garbage         \* what front() of an empty queue may yield

ASSUME HttpAssumption ==
    /\ IsFiniteSet(Requests)
    /\ body \in [Requests -> {body[r] : r \in Requests}]
    /\ SpuriousWakes \in BOOLEAN
    /\ {Ok, Empty, Garbage} \cap Requests = {}
    /\ Ok # Empty /\ Ok # Garbage /\ Empty # Garbage

HandlerState == {"idle", "pushed", "waiting", "woken",
                 "reply", "content", "clear", "pop", "answered"}

OpState == {"empty", "reset", "size", "compare", "front", "dispatch", "send", "notify"}

Texts == Requests \cup {Ok, Empty, Garbage}

VARIABLES recv_queue, lastQueueSize, response_data,
          handler,       \* [Requests -> HandlerState]
          status,        \* [Requests -> Texts]: the response read by getCodeError
          answer,        \* [Requests -> Texts]: the response sent as content
          op,            \* where the task thread is
          curQueueSize, data,   \* locals of receive() and operation()
          executed,      \* history: how often a request's operation was executed
          doubled        \* history: have two handlers of one body replied at once?

handlerVars == <<handler, status, answer, doubled>>
opVars == <<op, curQueueSize, data, lastQueueSize, executed>>
vars == <<recv_queue, response_data, handlerVars, opVars>>

InFlight == {r \in Requests : handler[r] \notin {"idle", "answered"}}

-----------------------------------------------------------------------------
Init == /\ recv_queue = <<>>
        /\ lastQueueSize = 0
        /\ response_data = Ok
        /\ handler = [r \in Requests |-> "idle"]
        /\ status = [r \in Requests |-> Empty]
        /\ answer = [r \in Requests |-> Empty]
        /\ op = "empty"
        /\ curQueueSize = 0
        /\ data = Empty
        /\ executed = [r \in Requests |-> 0]
        /\ doubled = FALSE

(***************************************************************************)
(* A handler thread: the lambda of server.Post and handle_request *)
(***************************************************************************)
Goto(r, pc) == handler' = [handler EXCEPT ![r] = pc]

\* Clients send what they like whenever they like, each request once.
Push(r) ==
    /\ handler[r] = "idle"
    /\ recv_queue' = Append(recv_queue, r)
    /\ Goto(r, "pushed")
    /\ UNCHANGED <<response_data, status, answer, doubled, opVars>>

\* handle_cv.wait with no predicate: what was sent before is not noticed.
Wait(r) ==
    /\ handler[r] = "pushed"
    /\ Goto(r, "waiting")
    /\ UNCHANGED <<recv_queue, response_data, status, answer, doubled, opVars>>

SpuriousWake(r) ==
    /\ SpuriousWakes
    /\ handler[r] = "waiting"
    /\ Goto(r, "woken")
    /\ UNCHANGED <<recv_queue, response_data, status, answer, doubled, opVars>>

\* Slip: any element will do.
AtFrontSlip(r) == recv_queue # <<>>

AtFront(r) == recv_queue # <<>> /\ body[Head(recv_queue)] = body[r]

Replying(r) == handler[r] \in {"reply", "content", "clear", "pop"}

Check(r) ==
    /\ handler[r] = "woken"
    /\ Goto(r, IF AtFront(r) THEN "reply" ELSE "pushed")
    /\ doubled' = (doubled \/ /\ AtFront(r)
                              /\ \E s \in Requests : body[s] = body[r] /\ Replying(s))
    /\ UNCHANGED <<recv_queue, response_data, status, answer, opVars>>

\* The error code, read from the response as it is now ...
ReadCode(r) ==
    /\ handler[r] = "reply"
    /\ status' = [status EXCEPT ![r] = response_data]
    /\ Goto(r, IF response_data = Empty THEN "clear" ELSE "content")
    /\ UNCHANGED <<recv_queue, response_data, answer, doubled, opVars>>

\* ... and the text, read from the response as it is by then.
SetContent(r) ==
    /\ handler[r] = "content"
    /\ answer' = [answer EXCEPT ![r] = response_data]
    /\ Goto(r, "clear")
    /\ UNCHANGED <<recv_queue, response_data, status, doubled, opVars>>

Clear(r) ==
    /\ handler[r] = "clear"
    /\ response_data' = Empty
    /\ Goto(r, "pop")
    /\ UNCHANGED <<recv_queue, status, answer, doubled, opVars>>

\* Slip: a handler pops its own element only.
PopOwnSlip(r) ==
    /\ handler[r] = "pop"
    /\ recv_queue' = IF AtFront(r) THEN Tail(recv_queue) ELSE recv_queue
    /\ Goto(r, "answered")
    /\ UNCHANGED <<response_data, status, answer, doubled, opVars>>

Pop(r) ==
    /\ handler[r] = "pop"
    /\ recv_queue # <<>>
    /\ recv_queue' = Tail(recv_queue)
    /\ Goto(r, "answered")
    /\ UNCHANGED <<response_data, status, answer, doubled, opVars>>

HandlerStep(r) == \/ Wait(r) \/ Check(r) \/ ReadCode(r) \/ SetContent(r)
                  \/ Clear(r) \/ Pop(r)

(***************************************************************************)
(* The task thread: receive(), one access of recv_queue a step, then       *)
(* operation() and send().                                                 *)
(***************************************************************************)
OpEmpty ==
    /\ op = "empty"
    /\ op' = IF recv_queue = <<>> THEN "reset" ELSE "size"
    /\ UNCHANGED <<recv_queue, response_data, handlerVars,
                   curQueueSize, data, lastQueueSize, executed>>

\* lastQueueSize = recv_queue.size(), which need not be zero any more.
OpReset ==
    /\ op = "reset"
    /\ lastQueueSize' = Len(recv_queue)
    /\ op' = "size"
    /\ UNCHANGED <<recv_queue, response_data, handlerVars, curQueueSize, data, executed>>

\* Slip: counts the elements behind the front.
OpSizeSlip ==
    /\ op = "size"
    /\ curQueueSize' = Len(recv_queue) - 1
    /\ op' = "compare"
    /\ UNCHANGED <<recv_queue, response_data, handlerVars, data, lastQueueSize, executed>>

OpSize ==
    /\ op = "size"
    /\ curQueueSize' = Len(recv_queue)
    /\ op' = "compare"
    /\ UNCHANGED <<recv_queue, response_data, handlerVars, data, lastQueueSize, executed>>

OpCompare ==
    /\ op = "compare"
    /\ op' = IF recv_queue # <<>> /\ curQueueSize # lastQueueSize THEN "front" ELSE "empty"
    /\ UNCHANGED <<recv_queue, response_data, handlerVars,
                   curQueueSize, data, lastQueueSize, executed>>

\* Slip: the reported size is not remembered.
OpFrontSlip ==
    /\ op = "front"
    /\ data' \in IF recv_queue # <<>> THEN {Head(recv_queue)} ELSE {Empty, Garbage}
    /\ op' = "dispatch"
    /\ UNCHANGED <<recv_queue, response_data, handlerVars, curQueueSize,
                   lastQueueSize, executed>>

\* front() of a queue that was emptied in the meantime is undefined; what is
\* read there is taken to be an empty or an unparsable string.
OpFront ==
    /\ op = "front"
    /\ data' \in IF recv_queue # <<>> THEN {Head(recv_queue)} ELSE {Empty, Garbage}
    /\ lastQueueSize' = curQueueSize
    /\ op' = "dispatch"
    /\ UNCHANGED <<recv_queue, response_data, handlerVars, curQueueSize, executed>>

\* A string that is no JSON is dispatched as taskID 0 and answered too.
Served == IF data \in Requests THEN body[data] \notin Unserved ELSE data = Garbage

OpDispatch ==
    /\ op = "dispatch"
    /\ op' = IF Served THEN "send" ELSE "empty"
    /\ executed' = IF Served /\ data \in Requests
                   THEN [executed EXCEPT ![data] = @ + 1] ELSE executed
    /\ UNCHANGED <<recv_queue, response_data, handlerVars, curQueueSize, data, lastQueueSize>>

\* Slip: send() keeps a response that was not cleared.
OpSendSlip ==
    /\ op = "send"
    /\ response_data' = IF response_data = Empty THEN data ELSE response_data
    /\ op' = "notify"
    /\ UNCHANGED <<recv_queue, handlerVars, curQueueSize, data, lastQueueSize, executed>>

OpSend ==
    /\ op = "send"
    /\ response_data' = data
    /\ op' = "notify"
    /\ UNCHANGED <<recv_queue, handlerVars, curQueueSize, data, lastQueueSize, executed>>

\* Slip: notify_one.
OpNotifyOneSlip ==
    /\ op = "notify"
    /\ \/ \E r \in Requests : handler[r] = "waiting" /\ Goto(r, "woken")
       \/ (\A r \in Requests : handler[r] # "waiting") /\ UNCHANGED handler
    /\ op' = "empty"
    /\ UNCHANGED <<recv_queue, response_data, status, answer, doubled,
                   curQueueSize, data, lastQueueSize, executed>>

OpNotify ==
    /\ op = "notify"
    /\ handler' = [r \in Requests |-> IF handler[r] = "waiting" THEN "woken" ELSE handler[r]]
    /\ op' = "empty"
    /\ UNCHANGED <<recv_queue, response_data, status, answer, doubled,
                   curQueueSize, data, lastQueueSize, executed>>

OpStep == \/ OpEmpty \/ OpReset \/ OpSize \/ OpCompare \/ OpFront \/ OpDispatch
          \/ OpSend \/ OpNotify

-----------------------------------------------------------------------------
Next == \/ \E r \in Requests : Push(r) \/ SpuriousWake(r) \/ HandlerStep(r)
        \/ OpStep

Spec == Init /\ [][Next]_vars

(***************************************************************************)
(* Both kinds of threads are scheduled; clients need not send anything.    *)
(***************************************************************************)
Fairness == /\ \A r \in Requests : WF_vars(HandlerStep(r))
            /\ WF_vars(OpStep)

FairSpec == Spec /\ Fairness

-----------------------------------------------------------------------------
(* Properties *)

TypeOK == /\ recv_queue \in Seq(Requests)
          /\ lastQueueSize \in Nat
          /\ curQueueSize \in Nat
          /\ response_data \in Texts
          /\ handler \in [Requests -> HandlerState]
          /\ status \in [Requests -> Texts]
          /\ answer \in [Requests -> Texts]
          /\ op \in OpState
          /\ data \in Requests \cup {Empty, Garbage}
          /\ executed \in [Requests -> Nat]
          /\ doubled \in BOOLEAN

(***************************************************************************)
(* There are as many elements as handlers that have not popped, whoever    *)
(* pushed them.  handle_request calls front() before it asks empty(), and  *)
(* pop() without asking: this is why neither meets an empty queue, even    *)
(* when handlers of equal bodies pop each other's elements.                *)
(***************************************************************************)
OneEntryPerHandler == Len(recv_queue) = Cardinality(InFlight)

(***************************************************************************)
(* A handler that has yet to pop finds an element of its body: there are   *)
(* as many of each body as handlers with that body, even when equal bodies *)
(* pop each other's.  Only two handlers of one body that reply at the same *)
(* time break it: the second to pop takes an element of another body, and  *)
(* the handler of that one waits for a front that never comes.             *)
(***************************************************************************)
Queued == {recv_queue[i] : i \in DOMAIN recv_queue}

EntriesMatchBodies ==
    ~doubled => \A r \in Requests :
        Cardinality({s \in Queued : body[s] = body[r]})
          = Cardinality({s \in InFlight : body[s] = body[r]})

(***************************************************************************)
(* The operation of a request (adding a device, say) is executed again     *)
(* only because the queue was resized: receive() compares its size with    *)
(* the one it reported last.  So a request is executed at most as often as *)
(* requests have arrived, itself included, and once if it is alone.        *)
(***************************************************************************)
Arrived == {r \in Requests : handler[r] # "idle"}

ExecutionsBounded == \A r \in Requests : executed[r] <= Cardinality(Arrived)

DistinctBodies == \A r, s \in Requests : body[r] = body[s] => r = s

(***************************************************************************)
(* With distinct bodies the front of the queue is a lock on response_data  *)
(* among handlers: whoever answers owns the front until it pops it, so two *)
(* handlers never read and clear the response at once and nobody pops      *)
(* another's request.                                                      *)
(***************************************************************************)
FrontOwnsReply ==
    DistinctBodies => \A r \in Requests : Replying(r) =>
                         recv_queue # <<>> /\ Head(recv_queue) = r

(***************************************************************************)
(* A request that was found by the task thread while its handler was       *)
(* already waiting is answered, and with its own response.  It holds for   *)
(* distinct bodies and without spurious wake-ups, however many requests    *)
(* are open.                                                               *)
(***************************************************************************)
FoundWaiting(r) == op = "dispatch" /\ data = r /\ Served /\ handler[r] = "waiting"

FoundIsAnswered ==
    \A r \in Requests : FoundWaiting(r) ~> (handler[r] = "answered" /\ answer[r] = r)

(***************************************************************************)
(* recv_queue is there "to process concurrent requests" (HttpService.h:28) *)
(* and handle_request "processes the received message and returns the      *)
(* response to H5" (HttpService.cpp:72): the response that a client gets   *)
(* is the one computed for its request, code and text alike.               *)
(***************************************************************************)
OwnResponse ==
    \A r \in Requests : handler[r] = "answered" =>
        status[r] = r /\ answer[r] = r

(***************************************************************************)
(* HttpService.cpp:72 again, read as the promise that there is a response: *)
(* whoever pushed its request gets one.                                    *)
(***************************************************************************)
EveryRequestAnswered ==
    \A r \in Requests : handler[r] = "pushed" ~> handler[r] = "answered"
=============================================================================
