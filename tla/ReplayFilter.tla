---------------------------- MODULE ReplayFilter ----------------------------
(***************************************************************************)
(* What an anti-replay window promises: a packet is accepted exactly when  *)
(* it has not been accepted before and is less than a window's width older *)
(* than the newest accepted packet.                                        *)
(***************************************************************************)
EXTENDS Integers

CONSTANTS
    Window,   \* number of packet ids the filter distinguishes
    Seqs      \* packet ids

VARIABLES
    seen,     \* packets accepted since the last reset
    verdict   \* the latest decision: packet id and whether it was accepted

filterVars == <<seen, verdict>>

Fresh(seq) == seq \notin seen /\ \A s \in seen : seq > s - Window

FilterInit == seen = {} /\ verdict = [seq |-> 0, ok |-> FALSE]

Decide(seq) ==
    /\ verdict' = [seq |-> seq, ok |-> Fresh(seq)]
    /\ seen' = IF Fresh(seq) THEN seen \cup {seq} ELSE seen

Reset ==
    /\ seen' = {}
    /\ UNCHANGED verdict

FilterNext == Reset \/ \E seq \in Seqs : Decide(seq)

FilterSpec == FilterInit /\ [][FilterNext]_filterVars
=============================================================================
