------------------------------ MODULE Approval ------------------------------
(***************************************************************************)
(* What the workflow promises a customer, with no requests, no graph and   *)
(* no database in sight: plans are posted, harmless actions run by         *)
(* themselves, the others are offered one at a time, oldest first; each is *)
(* answered once, and an approved one runs exactly once before the next is *)
(* offered.                                                                *)
(***************************************************************************)
EXTENDS Naturals, Sequences

CONSTANT PlanSizes   \* how many actions a plan may propose

VARIABLES
  phase,   \* the phase of every action posted so far
  runs,    \* how often each has run
  offer    \* the action the customer is asked about, or 0

avars == <<phase, runs, offer>>

Phases == {"auto", "open", "approved", "done", "declined"}

Init == phase = <<>> /\ runs = <<>> /\ offer = 0

OldestOpen(p, ph) ==
  LET open == {q \in DOMAIN ph : ph[q] = "open"}
  IN IF open = {} THEN p = 0 ELSE p \in open /\ \A q \in open : p <= q

Post ==
  \E n \in PlanSizes : \E new \in [1..n -> {"auto", "open"}] :
    /\ offer = 0
    /\ phase' = phase \o new
    /\ runs' = runs \o [i \in 1..n |-> 0]
    /\ UNCHANGED offer

Run(p) ==
  /\ phase[p] \in {"auto", "approved"}
  /\ phase' = [phase EXCEPT ![p] = "done"]
  /\ runs' = [runs EXCEPT ![p] = @ + 1]
  /\ UNCHANGED offer

Approve ==
  /\ offer # 0
  /\ phase[offer] = "open"
  /\ phase' = [phase EXCEPT ![offer] = "approved"]
  /\ UNCHANGED <<runs, offer>>

\* Declining is the end of the action; the next one is offered at once.
Decline ==
  /\ offer # 0
  /\ phase[offer] = "open"
  /\ phase' = [phase EXCEPT ![offer] = "declined"]
  /\ \E next \in 0..Len(phase) : OldestOpen(next, phase') /\ offer' = next
  /\ UNCHANGED runs

\* The oldest open action is offered once nothing is left to run.
MoveOn ==
  /\ \A p \in DOMAIN phase : phase[p] \notin {"auto", "approved"}
  /\ offer # 0 => phase[offer] # "open"
  /\ \E next \in 0..Len(phase) : OldestOpen(next, phase) /\ offer' = next
  /\ UNCHANGED <<phase, runs>>

RunSome == \E p \in DOMAIN phase : Run(p)

Next == Post \/ RunSome \/ Approve \/ Decline \/ MoveOn

Spec == Init /\ [][Next]_avars /\ WF_avars(RunSome) /\ WF_avars(MoveOn)

=============================================================================
