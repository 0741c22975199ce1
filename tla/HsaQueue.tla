------------------------------- MODULE HsaQueue -------------------------------
(***************************************************************************)
(* What an HSA application relies on when it submits AQL packets: each     *)
(* queue hands its packets to the hardware once each and in order, a       *)
(* kernel that was handed over may end at any time, and the completion     *)
(* signal of a dispatch is decremented exactly once, not before its        *)
(* kernel has ended. A queue that may fail (MayDrop) can give up on the    *)
(* rest of a submission, but even then neither reorders nor repeats        *)
(* anything. The tool's intercept queues have to be                        *)
(* indistinguishable from this (external: the HSA runtime is not part of   *)
(* the repository; hsa_queue_create and OnSubmitPackets stand in for it).  *)
(***************************************************************************)
EXTENDS Integers, Sequences

CONSTANTS Queues, Dispatches, Others, Signalled, Batches, MayDrop

VARIABLES
    queued,     \* queue |-> submitted packets the hardware has not been given
    hw,         \* queue |-> packets given to the hardware
    ended,      \* dispatches whose kernel has ended
    signals     \* dispatch |-> decrements of its completion signal

vars == <<queued, hw, ended, signals>>

OnHardware(p) == \E q \in Queues : \E i \in 1..Len(hw[q]) : hw[q][i] = p

Init ==
    /\ queued = [q \in Queues |-> << >>]
    /\ hw = [q \in Queues |-> << >>]
    /\ ended = {}
    /\ signals = [p \in Dispatches |-> 0]

Submit(q, b) ==
    /\ queued[q] = << >>
    /\ queued' = [queued EXCEPT ![q] = b]
    /\ UNCHANGED <<hw, ended, signals>>

Forward(q) ==
    /\ queued[q] # << >>
    /\ hw' = [hw EXCEPT ![q] = Append(@, Head(queued[q]))]
    /\ queued' = [queued EXCEPT ![q] = Tail(@)]
    /\ UNCHANGED <<ended, signals>>

\* The queue fails on the head of a submission: the rest of it is dropped.
Drop(q) ==
    /\ MayDrop
    /\ queued[q] # << >>
    /\ queued' = [queued EXCEPT ![q] = << >>]
    /\ UNCHANGED <<hw, ended, signals>>

SubmitDirect(q, b) ==
    /\ queued[q] = << >>
    /\ hw' = [hw EXCEPT ![q] = @ \o b]
    /\ UNCHANGED <<queued, ended, signals>>

\* The kernel ends; the hardware may decrement its signal in the same step.
End(p) ==
    /\ OnHardware(p)
    /\ p \notin ended
    /\ ended' = ended \cup {p}
    /\ \/ UNCHANGED signals
       \/ /\ p \in Signalled
          /\ signals' = [signals EXCEPT ![p] = @ + 1]
    /\ UNCHANGED <<queued, hw>>

Signal(p) ==
    /\ p \in ended
    /\ p \in Signalled
    /\ signals[p] = 0
    /\ signals' = [signals EXCEPT ![p] = 1]
    /\ UNCHANGED <<queued, hw, ended>>

Next ==
    \/ \E q \in Queues, b \in Batches : Submit(q, b) \/ SubmitDirect(q, b)
    \/ \E q \in Queues : Forward(q) \/ Drop(q)
    \/ \E p \in Dispatches : End(p) \/ Signal(p)

Spec == Init /\ [][Next]_vars
=============================================================================
