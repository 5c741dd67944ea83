----------------------------- MODULE MCUploads -----------------------------
(***************************************************************************)
(* Small instances of UploadPipeline for TLC.                              *)
(***************************************************************************)
EXTENDS UploadPipeline

Good(ref) == [ref |-> ref, failing |-> FALSE, stageable |-> TRUE, postable |-> TRUE]
Failing(ref) == [ref |-> ref, failing |-> TRUE, stageable |-> TRUE, postable |-> TRUE]
Unpostable(ref) == [ref |-> ref, failing |-> FALSE, stageable |-> TRUE, postable |-> FALSE]

NoMishap == [k \in MishapKinds |-> 0]
One(kind) == [NoMishap EXCEPT ![kind] = 1]
Two(kind) == [NoMishap EXCEPT ![kind] = 2]

AnyStatus == BatchStatus \cup {"deleted"}
Offered == {"validated", "importing", "partially_imported"}

MCRefs == {"r1", "R1", "r2", "r3"}
MCCollate == [r \in MCRefs |-> IF r = "R1" THEN "r1" ELSE r]

(* Races: every kind of request against one batch, whatever its status;    *)
(* two worker crashes, or one fault or API crash.                          *)
RaceFile == [b \in {"b1"} |-> <<Good("r1"), Failing("r2")>>]
RaceOps == [c \in Clients |-> CASE c = "u1" -> {"upload"}
                                [] c = "c1" -> {"confirm"}
                                [] c = "c2" -> {"confirm", "cancel", "delete", "deleteAll"}]
RaceActorOf == [c \in Clients |-> IF c = "u1" THEN "bob" ELSE "ann"]
RaceMishaps == {Two("crash"), One("fault"), One("apiFault"), One("apiCrash")}

(* Side by side: two pods import one batch for two confirmations.  Two     *)
(* of its lines have references that differ in case only, one is refused   *)
(* by a CHECK, and another source has posted the reference of the last.    *)
SideFile == [b \in {"b1"} |-> <<Good("r1"), Good("R1"), Unpostable("r2"), Good("r3")>>]
SideOps == [c \in Clients |-> IF c = "u1" THEN {"upload"} ELSE {"confirm"}]
SideActorOf == [c \in Clients |-> IF c = "c1" THEN "ann" ELSE "bob"]
SideMishaps == {NoMishap}

(* Retry: a line without a reference next to a line that a CHECK refuses,  *)
(* confirmed when the batch is validated and when it is partly imported.   *)
RetryFile == [b \in {"b1"} |-> <<Good(NoRef), Unpostable("r2")>>]
Retried == {"validated", "partially_imported"}

(* Recovery: a confirmed batch, and a pod that crashes once, at any point  *)
(* of either handler, while the other may take over.                       *)
RecoveryFile == [b \in {"b1"} |-> <<Good("r1"), Good("r2"), Good("r3")>>]
RecoveryMishaps == {One("crash")}
=============================================================================
