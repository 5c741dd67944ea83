------------------------------- MODULE Ledger -------------------------------
(***************************************************************************)
(* What importing promises: a ledger of investment facts.  A fact belongs  *)
(* to a batch; facts of a batch are booked only after somebody approved    *)
(* it; a fact is booked once, and no two booked facts share a key.         *)
(***************************************************************************)
EXTENDS Naturals

CONSTANTS
    Batches,
    Facts,      \* pairs of a batch and a line
    Key,        \* the key of each fact
    NoKey,      \* the key of a fact that has none
    Foreign     \* keys counted in the ledger beforehand, by other sources

VARIABLES
    approved,   \* the batches somebody confirmed
    booked,     \* how often each fact is in the ledger
    foreign,    \* the keys of the other sources
    gone        \* the batches removed for good

vars == <<approved, booked, foreign, gone>>

BatchOf(f) == f[1]

Init ==
    /\ approved = {}
    /\ booked = [f \in Facts |-> 0]
    /\ foreign = Foreign
    /\ gone = {}

(* No booked fact and no other source has the key of f. *)
Free(f) ==
    Key[f] # NoKey =>
        /\ Key[f] \notin foreign
        /\ \A g \in Facts : booked[g] > 0 => Key[g] # Key[f]

Approve(b) ==
    /\ approved' = approved \cup {b}
    /\ UNCHANGED <<booked, foreign, gone>>

Book(f) ==
    /\ BatchOf(f) \in approved \ gone
    /\ booked[f] = 0
    /\ Free(f)
    /\ booked' = [booked EXCEPT ![f] = 1]
    /\ UNCHANGED <<approved, foreign, gone>>

(* The facts of some batches leave the ledger; with every batch, so may    *)
(* the other sources' facts.                                               *)
Unbook(ids) ==
    /\ booked' = [f \in Facts |-> IF BatchOf(f) \in ids THEN 0 ELSE booked[f]]
    /\ \/ UNCHANGED foreign
       \/ ids = Batches /\ foreign' = {}
    /\ UNCHANGED <<approved, gone>>

Remove(ids) ==
    /\ \A f \in Facts : BatchOf(f) \in ids => booked[f] = 0
    /\ gone' = gone \cup ids
    /\ UNCHANGED <<approved, booked, foreign>>

Next ==
    \/ \E b \in Batches : Approve(b)
    \/ \E f \in Facts : Book(f)
    \/ \E ids \in SUBSET Batches : Unbook(ids) \/ Remove(ids)

Spec == Init /\ [][Next]_vars
=============================================================================
