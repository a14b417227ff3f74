------------------------------ MODULE Executor ------------------------------
(***************************************************************************)
(* What CommonLib::ThreadPool promises its callers, with no threads,       *)
(* counters or condition variables: tasks are started in the order they    *)
(* were submitted, at most Limit of them run at a time, once the executor  *)
(* is closed at most one operation that had begun before is still made,    *)
(* and an open executor eventually starts and finishes whatever it         *)
(* accepted.                                                               *)
(***************************************************************************)
EXTENDS Naturals, Sequences, FiniteSets

CONSTANTS Work,    \* the tasks callers may submit
          Limit    \* how many tasks may run at the same time

VARIABLES pending,    \* accepted and not yet started, oldest first
          running,    \* started and not yet finished
          finished,   \* finished
          open,       \* does the executor still accept and start tasks?
          late        \* has one submission or start to be made after it closed?

execVars == <<pending, running, finished, open, late>>

ExecInit == /\ pending = <<>>
            /\ running = {}
            /\ finished = {}
            /\ open = TRUE
            /\ late = FALSE

\* The executor is open, or closed in the middle of this operation.
InTime == /\ open \/ late
          /\ late' = FALSE
          /\ UNCHANGED open

Submit(t) == /\ InTime
             /\ t \notin running \cup finished
             /\ \A i \in DOMAIN pending : pending[i] # t
             /\ pending' = Append(pending, t)
             /\ UNCHANGED <<running, finished>>

Start == /\ InTime
         /\ pending # <<>>
         /\ Cardinality(running) < Limit
         /\ running' = running \cup {Head(pending)}
         /\ pending' = Tail(pending)
         /\ UNCHANGED finished

Finish(t) == /\ t \in running
             /\ running' = running \ {t}
             /\ finished' = finished \cup {t}
             /\ UNCHANGED <<pending, open, late>>

Close == /\ open
         /\ open' = FALSE
         /\ late' \in BOOLEAN
         /\ UNCHANGED <<pending, running, finished>>

ExecNext == \/ \E t \in Work : Submit(t) \/ Finish(t)
            \/ Start
            \/ Close

ExecSafety == ExecInit /\ [][ExecNext]_execVars

ExecFairness == /\ WF_execVars(Start)
                /\ \A t \in Work : WF_execVars(Finish(t))

ExecSpec == ExecSafety /\ ExecFairness
=============================================================================
