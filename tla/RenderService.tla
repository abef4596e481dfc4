---------------------------- MODULE RenderService ----------------------------
(***************************************************************************)
(* What the rendering pool promises its callers, without threads, locks,   *)
(* queues or containers: an accepted job is rendered once and its bitmap   *)
(* is handed to one caller, or is discarded when the service is closed;    *)
(* closing it never drops a job that has not been rendered.                *)
(***************************************************************************)
CONSTANT Jobs

VARIABLES
  open,     \* are jobs accepted?
  status    \* "none", "pending", "ready", "delivered" or "discarded"

vars == <<open, status>>

Init ==
  /\ open = FALSE
  /\ status = [j \in Jobs |-> "none"]

Open == ~open /\ open' = TRUE /\ UNCHANGED status

Stop == open /\ open' = FALSE /\ UNCHANGED status

Move(j, from, to) ==
  /\ status[j] = from
  /\ status' = [status EXCEPT ![j] = to]
  /\ UNCHANGED open

Accept(j) == open /\ Move(j, "none", "pending")

Complete(j) == Move(j, "pending", "ready")

Deliver(j) == open /\ Move(j, "ready", "delivered")

\* Closing releases every result nobody has fetched, once all jobs are rendered.
Discard ==
  /\ ~open
  /\ \A j \in Jobs : status[j] # "pending"
  /\ status' = [j \in Jobs |-> IF status[j] = "ready" THEN "discarded"
                                                      ELSE status[j]]
  /\ UNCHANGED open

Next ==
  \/ Open \/ Stop \/ Discard
  \/ \E j \in Jobs : Accept(j) \/ Complete(j) \/ Deliver(j)

\* The service completes what it accepted; it owes nothing else.
Spec == Init /\ [][Next]_vars /\ \A j \in Jobs : WF_vars(Complete(j))
=============================================================================
