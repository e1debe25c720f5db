---- MODULE AbstractMemory ----
(***************************************************************************)
(* What the memory hierarchy promises the pipeline: one memory, in which   *)
(* an instruction fetch and a data access are answered together, a load    *)
(* with what the last store left, and which nothing but a store changes.   *)
(***************************************************************************)
CONSTANTS
    Requests,       \* the pairs [fetch, data] the pipeline can present
    None,           \* no answer yet, or nothing loaded
    InitMemory

VARIABLES memory, request, reply

vars == <<memory, request, reply>>

\* The memory after the store of a request, if it has one.
Apply(m, q) ==
    IF ~q.data.write THEN m
    ELSE [m EXCEPT ![q.data.line] =
            [b \in DOMAIN @ |-> IF b \in q.data.mbe THEN q.data.wdata[b] ELSE @[b]]]

Answer(m, q) ==
    [inst |-> m[q.fetch.line],
     data |-> IF q.data.read THEN m[q.data.line] ELSE None]

Init ==
    /\ memory = InitMemory
    /\ request \in Requests
    /\ reply = None

\* The store of a request may take effect before its fetch is answered.
Work ==
    /\ reply = None
    /\ request' = request
    /\ \E after \in {memory, Apply(memory, request)} :
          /\ memory' = after
          /\ reply' \in {None, Answer(after, request)}

Complete ==
    /\ reply # None
    /\ request' \in Requests
    /\ \E after \in {Apply(memory, request)} :
          /\ memory' = after
          /\ reply' \in {None, Answer(after, request')}

Next == Work \/ Complete
Spec == Init /\ [][Next]_vars
====
