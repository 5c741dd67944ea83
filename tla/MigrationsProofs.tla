-------------------------- MODULE MigrationsProofs --------------------------
(***************************************************************************)
(* The order in which files are recorded, and what of the schema is there  *)
(* when they are, for any number of pods that start, fail, crash and       *)
(* overtake each other, beside the script.                                 *)
(***************************************************************************)
EXTENDS Migrations, TLAPS, WellFoundedInduction

LEMMA FilesCounted == Len(Files) \in Nat /\ FileNo \subseteq Nat
  BY DEF Files, FileNo

(* Files that are left have a first one. *)
LEMMA FirstLeft ==
    ASSUME NEW left \in SUBSET FileNo, left # {}
    PROVE  \E g \in left : \A h \in left : g <= h
<1>. DEFINE R == {xy \in Nat \X Nat : xy[1] < xy[2]}
<1>1. IsWellFoundedOn(R, Nat)
  <2>1. R = OpToRel(<, Nat)
    BY DEF OpToRel
  <2>. QED
    BY <2>1, NatLessThanWellFounded
<1>2. \A k, m \in Nat : <<k, m>> \notin R => m <= k
  OBVIOUS
<1>. HIDE DEF R
<1>3. left \subseteq Nat
  BY FilesCounted
<1>4. PICK g \in left : \A h \in left : <<h, g>> \notin R
  BY <1>1, <1>3, WFMin
<1>. QED
  BY <1>2, <1>3, <1>4

-----------------------------------------------------------------------------
(* Everything that sorts before the file a pod is at is recorded: a pod    *)
(* passes over a file only when it read its mark, and leaves one behind    *)
(* only when it recorded it.                                               *)
Before(f) == {g \in FileNo : g < f}
InOrder(p) ==
    /\ DOMAIN proc[p] = {"at", "file", "stmt", "knows"}
    /\ At(p) = "mark" => p # Script
    /\ At(p) \in {"run", "mark"} => proc[p].file \in FileNo
    /\ p \in Pods => /\ proc[p].knows \subseteq marked
                     /\ At(p) \in {"run", "mark"} => Before(proc[p].file) \subseteq marked
                     /\ At(p) = "done" => marked = FileNo
OrderInv ==
    /\ DOMAIN proc = Processes /\ marked \subseteq FileNo
    /\ \A f \in marked : Before(f) \subseteq marked
    /\ \A p \in Processes : InOrder(p)

(* Moving on from file f is in order when the files before f are recorded. *)
LEMMA MoveInOrder ==
    ASSUME OrderInv, marked' \subseteq FileNo, marked \subseteq marked',
           \A g \in marked' : Before(g) \subseteq marked',
           NEW p \in Processes, NEW f \in Nat, NEW known,
           p \in Pods => known \subseteq marked' /\ Before(f) \subseteq marked',
           MoveTo(p, f, known)
    PROVE  OrderInv'
<1>. DEFINE left == {g \in FileNo : g >= f /\ g \notin known}
            first == CHOOSE g \in left : \A h \in left : g <= h
<1>1. DOMAIN proc' = Processes /\ \A q \in Processes \ {p} : proc'[q] = proc[q]
  BY DEF MoveTo, OrderInv
<1>2. \A q \in Processes \ {p} : InOrder(q)'
  BY <1>1 DEF OrderInv, InOrder, At, Before, FileNo
<1>3. ASSUME p \in Pods, NEW g \in FileNo, g \notin left
      PROVE  g \in marked'
  <2>1. g \in Nat /\ (g \in known \/ ~(g >= f))
    BY <1>3, FilesCounted
  <2>2. g >= f \/ g \in Before(f)
    BY <2>1 DEF Before
  <2>. QED
    BY <1>3, <2>1, <2>2
<1>4. CASE left = {}
  <2>1. proc'[p] = [proc[p] EXCEPT !.at = "done"]
    BY <1>4 DEF MoveTo, OrderInv
  <2>. QED
    BY <1>1, <1>2, <1>3, <1>4, <2>1 DEF OrderInv, InOrder, At, Before, FileNo
<1>5. CASE left # {}
  <2>1. first \in left /\ \A h \in left : first <= h
    BY <1>5, FirstLeft
  <2>2. proc'[p] = [at |-> "run", stmt |-> 1, knows |-> known, file |-> first]
    BY <1>5 DEF MoveTo, OrderInv
  <2>3. ASSUME p \in Pods, NEW g \in Before(first)
        PROVE  g \in marked'
    <3>1. g \in FileNo /\ g \in Nat /\ first \in Nat /\ g < first
      BY <2>1, <2>3, FilesCounted DEF Before
    <3>2. g \notin left
      BY <2>1, <3>1
    <3>. QED
      BY <1>3, <2>3, <3>1, <3>2
  <2>. HIDE DEF first
  <2>4. InOrder(p)'
    BY <2>1, <2>2, <2>3 DEF InOrder, At, Before, FileNo
  <2>. QED
    BY <1>1, <1>2, <2>4 DEF OrderInv, Before, FileNo
<1>. QED
  BY <1>4, <1>5

(* A step that records nothing and changes how far p is, not where.        *)
LEMMA StayInOrder ==
    ASSUME OrderInv, UNCHANGED marked, NEW p \in Processes, NEW a \in {"down", "failed", "mark"},
           a = "mark" => p # Script /\ At(p) = "run",
           proc' = [proc EXCEPT ![p].at = a]
    PROVE  OrderInv'
<1>1. \A q \in Processes : InOrder(q)'
  BY DEF OrderInv, InOrder, At, Before, FileNo
<1>. QED
  BY <1>1 DEF OrderInv, Before, FileNo

LEMMA StopInOrder ==
    ASSUME OrderInv, UNCHANGED marked, NEW p \in Processes, Stop(p)
    PROVE  OrderInv'
  BY StayInOrder DEF Stop

LEMMA ExecutedInOrder ==
    ASSUME OrderInv, UNCHANGED marked, NEW p \in Processes, At(p) = "run", Executed(p)
    PROVE  OrderInv'
<1>1. CASE p = Script
  BY <1>1, MoveInOrder, MigrationsAssumption, FilesCounted DEF Executed, OrderInv, InOrder
<1>2. CASE p # Script
  BY <1>2, StayInOrder DEF Executed
<1>. QED
  BY <1>1, <1>2

-----------------------------------------------------------------------------
LEMMA StepInOrder ==
    ASSUME OrderInv, NEW p \in Processes, Step(p) \/ Crash(p) \/ Redeploy(p)
    PROVE  OrderInv'
<1>1. CASE Start(p)
  <2>1. Before(1) = {}
    BY FilesCounted DEF Before, FileNo
  <2>2. CASE p = Script
    <3>1. MoveTo(p, 1, {}) /\ marked' = marked /\ p \notin Pods
      BY <1>1, <2>2, MigrationsAssumption DEF Start
    <3>. QED
      BY <3>1, MoveInOrder DEF OrderInv
  <2>3. CASE p # Script
    <3>1. MoveTo(p, 1, marked) /\ marked' = marked
      BY <1>1, <2>3 DEF Start
    <3>. QED
      BY <2>1, <3>1, MoveInOrder DEF OrderInv
  <2>. QED
    BY <2>2, <2>3
<1>2. CASE Succeed(p)
  <2>1. CASE proc[p].stmt < Len(Files[proc[p].file])
    <3>1. \A q \in Processes : InOrder(q)'
      BY <1>2, <2>1 DEF Succeed, OrderInv, InOrder, At, Before, FileNo
    <3>. QED
      BY <1>2, <2>1, <3>1 DEF Succeed, OrderInv, Before, FileNo
  <2>2. CASE ~(proc[p].stmt < Len(Files[proc[p].file]))
    BY <1>2, <2>2, ExecutedInOrder DEF Succeed
  <2>. QED
    BY <2>1, <2>2
<1>3. CASE Skip(p)
  BY <1>3, ExecutedInOrder DEF Skip
<1>4. CASE Throw(p)
  BY <1>4, StopInOrder DEF Throw
<1>5. CASE Mark(p)
  <2>1. CASE proc[p].file \in marked
    BY <1>5, <2>1, StopInOrder DEF Mark
  <2>2. CASE proc[p].file \notin marked
    <3>1. p \in Pods /\ proc[p].file \in FileNo /\ Before(proc[p].file) \subseteq marked
          /\ proc[p].knows \subseteq marked
      BY <1>5 DEF Mark, OrderInv, InOrder, Processes
    <3>2. marked' = marked \cup {proc[p].file} /\ MoveTo(p, proc[p].file + 1, proc[p].knows)
      BY <1>5, <2>2 DEF Mark
    <3>3. ASSUME NEW g \in Before(proc[p].file + 1) PROVE g \in marked'
      <4>1. g \in FileNo /\ g \in Nat /\ proc[p].file \in Nat /\ g < proc[p].file + 1
        BY <3>1, <3>3, FilesCounted DEF Before
      <4>2. g = proc[p].file \/ g \in Before(proc[p].file)
        BY <4>1 DEF Before
      <4>. QED
        BY <3>1, <3>2, <4>2
    <3>4. \A g \in marked' : Before(g) \subseteq marked'
      BY <3>1, <3>2 DEF OrderInv
    <3>5. PICK f \in Nat : f = proc[p].file + 1
      <4>1. proc[p].file \in Nat
        BY <3>1, FilesCounted
      <4>. QED
        BY <4>1
    <3>6. marked' \subseteq FileNo /\ marked \subseteq marked'
          /\ proc[p].knows \subseteq marked' /\ Before(f) \subseteq marked'
      BY <3>1, <3>2, <3>3, <3>5 DEF OrderInv
    <3>7. MoveTo(p, f, proc[p].knows)
      BY <3>2, <3>5
    <3>. QED
      BY <3>4, <3>6, <3>7, MoveInOrder
  <2>. QED
    BY <2>1, <2>2
<1>6. CASE Crash(p)
  BY <1>6, StopInOrder DEF Crash
<1>7. CASE Redeploy(p)
  BY <1>7, StayInOrder DEF Redeploy
<1>. QED
  BY <1>1, <1>2, <1>3, <1>4, <1>5, <1>6, <1>7 DEF Step

LEMMA AlwaysInOrder == Spec => []OrderInv
<1>1. Init => OrderInv
  <2>. SUFFICES ASSUME Init PROVE OrderInv
    OBVIOUS
  <2>1. \A p \in Processes : InOrder(p)
    BY DEF Init, InOrder, At
  <2>. QED
    BY <2>1 DEF Init, OrderInv
<1>2. OrderInv /\ [Next]_vars => OrderInv'
  <2>. SUFFICES ASSUME OrderInv, [Next]_vars PROVE OrderInv'
    OBVIOUS
  <2>1. CASE UNCHANGED vars
    BY <2>1 DEF vars, OrderInv, InOrder, At, Before, FileNo
  <2>. QED
    BY <2>1, StepInOrder DEF Next
<1> QED BY <1>1, <1>2, PTL DEF Spec

(* However many pods start at once, no file is recorded before those that  *)
(* sort before it, and a pod that serves has every file recorded.          *)
THEOREM RecordedInOrder == Spec => []MarkedInOrder
<1>1. OrderInv => MarkedInOrder
  <2>. SUFFICES ASSUME OrderInv PROVE MarkedInOrder
    OBVIOUS
  <2>1. ASSUME NEW f \in marked PROVE 1 .. f \subseteq marked
    <3>1. f \in FileNo /\ Before(f) \subseteq marked
      BY <2>1 DEF OrderInv
    <3>2. \A g \in 1 .. f : g = f \/ g \in Before(f)
      BY <3>1, FilesCounted DEF Before, FileNo
    <3>. QED
      BY <2>1, <3>1, <3>2
  <2>2. \A p \in Pods : At(p) = "done" => marked = FileNo
    BY DEF OrderInv, InOrder, Processes
  <2>. QED
    BY <2>1, <2>2 DEF MarkedInOrder
<1>. QED
  BY <1>1, AlwaysInOrder, PTL
-----------------------------------------------------------------------------
(* Every file has a first statement, and statements numbered from it.      *)
FileShape(F) == DOMAIN F = 1 .. Len(F) /\ Len(F) \in Nat /\ 1 \in DOMAIN F

LEMMA FilesShaped == \A f \in FileNo : FileShape(Files[f])
<1>1. FileShape(F0001) /\ FileShape(F0002) /\ FileShape(F0003)
  BY DEF FileShape, F0001, F0002, F0003
<1>2. FileShape(F0004) /\ FileShape(F0005) /\ FileShape(F0006) /\ FileShape(F0007)
  BY DEF FileShape, F0004, F0005, F0006, F0007
<1>3. FileShape(F0008) /\ FileShape(F0009)
  BY DEF FileShape, F0008, F0009
<1>4. FileShape(F0010) /\ FileShape(F0011) /\ FileShape(F0012)
  BY DEF FileShape, F0010, F0011, F0012
<1>5. FileShape(F0013) /\ FileShape(F0014) /\ FileShape(F0015) /\ FileShape(F0016)
  BY DEF FileShape, F0013, F0014, F0015, F0016
<1>6. FileShape(F0017) /\ FileShape(F0018) /\ FileShape(F0019)
  BY DEF FileShape, F0017, F0018, F0019
<1>7. FileNo = 1 .. 19
  BY DEF FileNo, Files
<1> QED
  BY <1>1, <1>2, <1>3, <1>4, <1>5, <1>6, <1>7 DEF Files

Placed(p) ==
    /\ At(p) \in {"down", "run", "mark", "done", "failed"}
    /\ proc[p].file \in FileNo /\ proc[p].stmt \in DOMAIN Files[proc[p].file]
    /\ proc[p].knows \subseteq marked

LEMMA MovePlaced ==
    ASSUME OrderInv, NEW p \in Processes, Placed(p), marked \subseteq marked',
           NEW f \in Nat, NEW known \in SUBSET marked', MoveTo(p, f, known)
    PROVE  Placed(p)'
<1> DEFINE left == {g \in FileNo : g >= f /\ g \notin known}
           first == CHOOSE g \in left : \A h \in left : g <= h
<1>1. CASE left = {}
  <2>1. proc'[p] = [proc[p] EXCEPT !.at = "done"]
    BY <1>1 DEF MoveTo, OrderInv
  <2> QED BY <2>1 DEF Placed, At, OrderInv, InOrder, FileNo
<1>2. CASE left # {}
  <2>1. first \in left
    BY <1>2, FirstLeft
  <2>2. proc'[p] = [at |-> "run", stmt |-> 1, knows |-> known, file |-> first]
    BY <1>2 DEF MoveTo, OrderInv
  <2>3. first \in FileNo
    BY <2>1
  <2> HIDE DEF first, left
  <2>4. 1 \in DOMAIN Files[first]
    BY <2>3, FilesShaped DEF FileShape
  <2> QED BY <2>2, <2>3, <2>4 DEF Placed, At, FileNo
<1> QED BY <1>1, <1>2

LEMMA StayPlaced ==
    ASSUME OrderInv, NEW p \in Processes, Placed(p), UNCHANGED marked,
           NEW a \in {"down", "run", "mark", "done", "failed"}, proc' = [proc EXCEPT ![p].at = a]
    PROVE  Placed(p)'
  BY DEF Placed, At, OrderInv, InOrder, FileNo

LEMMA ExecutedPlaced ==
    ASSUME OrderInv, NEW p \in Processes, Placed(p), UNCHANGED marked, Executed(p)
    PROVE  Placed(p)'
<1>1. PICK f \in Nat : f = proc[p].file + 1
  <2>1. proc[p].file \in Nat
    BY FilesCounted DEF Placed
  <2> QED BY <2>1
<1>2. CASE p = Script
  <2>1. MoveTo(p, f, {}) /\ marked \subseteq marked'
    BY <1>1, <1>2 DEF Executed
  <2> QED BY <2>1, MovePlaced
<1>3. CASE p # Script
  BY <1>3, StayPlaced DEF Executed
<1> QED BY <1>2, <1>3

LEMMA OthersStay ==
    ASSUME NEW p \in Processes, DOMAIN proc = Processes, Step(p) \/ Crash(p) \/ Redeploy(p)
    PROVE  marked \subseteq marked' /\ \A q \in Processes : q # p => proc'[q] = proc[q]
<1>1. ASSUME NEW f, NEW known, MoveTo(p, f, known) PROVE \A q \in Processes : q # p => proc'[q] = proc[q]
  BY <1>1 DEF MoveTo
<1>2. ASSUME Stop(p) \/ Executed(p) PROVE \A q \in Processes : q # p => proc'[q] = proc[q]
  BY <1>1, <1>2 DEF Stop, Executed
<1>3. CASE Start(p)
  BY <1>1, <1>3 DEF Start
<1>4. CASE Succeed(p) \/ Skip(p) \/ Throw(p)
  BY <1>2, <1>4 DEF Succeed, Skip, Throw
<1>5. CASE Mark(p)
  BY <1>1, <1>2, <1>5 DEF Mark
<1>6. CASE Crash(p) \/ Redeploy(p)
  BY <1>2, <1>6 DEF Crash, Redeploy
<1> QED BY <1>3, <1>4, <1>5, <1>6 DEF Step

LEMMA StepPlaced ==
    ASSUME OrderInv, NEW p \in Processes, Placed(p), Step(p) \/ Crash(p) \/ Redeploy(p)
    PROVE  Placed(p)'
<1>2. CASE Start(p)
  <2>1. PICK known \in SUBSET marked' : MoveTo(p, 1, known) /\ marked \subseteq marked'
    BY <1>2 DEF Start
  <2> QED BY <2>1, MovePlaced
<1>3. CASE Succeed(p)
  <2>1. CASE proc[p].stmt < Len(Files[proc[p].file])
    <3>1. proc' = [proc EXCEPT ![p].stmt = @ + 1] /\ UNCHANGED marked
      BY <1>3, <2>1 DEF Succeed
    <3>2. FileShape(Files[proc[p].file])
      BY FilesShaped DEF Placed
    <3>3. proc[p].stmt + 1 \in DOMAIN Files[proc[p].file]
      BY <2>1, <3>2 DEF FileShape, Placed
    <3>4. proc'[p] = [proc[p] EXCEPT !.stmt = @ + 1]
      BY <3>1 DEF OrderInv
    <3> QED BY <3>1, <3>3, <3>4 DEF Placed, At, OrderInv, InOrder, FileNo
  <2>2. CASE ~(proc[p].stmt < Len(Files[proc[p].file]))
    BY <1>3, <2>2, ExecutedPlaced DEF Succeed
  <2> QED BY <2>1, <2>2
<1>4. CASE Skip(p)
  BY <1>4, ExecutedPlaced DEF Skip
<1>5. CASE Mark(p)
  <2>1. PICK f \in Nat : f = proc[p].file + 1
    <3>1. proc[p].file \in Nat
      BY FilesCounted DEF Placed
    <3> QED BY <3>1
  <2>2. CASE proc[p].file \notin marked
    <3>1. MoveTo(p, f, proc[p].knows) /\ marked \subseteq marked'
      BY <1>5, <2>1, <2>2 DEF Mark
    <3>2. proc[p].knows \in SUBSET marked'
      BY <3>1 DEF Placed
    <3> QED BY <2>1, <3>1, <3>2, MovePlaced
  <2>3. CASE proc[p].file \in marked
    BY <1>5, <2>3, StayPlaced DEF Mark, Stop
  <2> QED BY <2>2, <2>3
<1>6. CASE Throw(p) \/ Crash(p) \/ Redeploy(p)
  BY <1>6, StayPlaced DEF Throw, Crash, Redeploy, Stop
<1> QED BY <1>2, <1>3, <1>4, <1>5, <1>6 DEF Step

(* Positions name statements there are, marks and snapshots name files,    *)
(* and only a pod comes to recording one.                                  *)
THEOREM MigrationTypes == Spec => []TypeOK
<1>1. Init => TypeOK
  <2> SUFFICES ASSUME Init PROVE TypeOK
    OBVIOUS
  <2>1. 1 \in FileNo
    BY DEF FileNo, Files
  <2>2. 1 \in DOMAIN Files[1]
    BY <2>1, FilesShaped DEF FileShape
  <2>3. 0 \in 0 .. MaxCrashes
    BY MigrationsAssumption
  <2> QED BY <2>1, <2>2, <2>3 DEF Init, TypeOK, At
<1>2. TypeOK /\ OrderInv /\ OrderInv' /\ [Next]_vars => TypeOK'
  <2> SUFFICES ASSUME TypeOK, OrderInv, OrderInv', [Next]_vars PROVE TypeOK'
    OBVIOUS
  <2>1. marked' \subseteq FileNo /\ \A p \in Processes : At(p)' = "mark" => p # Script
    BY DEF OrderInv, InOrder
  <2>2. torn' \in BOOLEAN /\ crashes' \in 0 .. MaxCrashes
    <3>1. torn' \in BOOLEAN
      BY DEF TypeOK, Next, Step, Start, Succeed, Skip, Throw, Mark, Crash, Redeploy, Stop, vars
    <3>2. UNCHANGED crashes \/ (crashes < MaxCrashes /\ crashes' = crashes + 1)
      BY DEF Next, Step, Start, Succeed, Skip, Throw, Mark, Crash, Redeploy, vars
    <3> QED BY <3>1, <3>2, MigrationsAssumption DEF TypeOK
  <2>3. ASSUME NEW q \in Processes PROVE Placed(q)'
    <3>1. Placed(q)
      BY DEF TypeOK, Placed
    <3>2. ASSUME NEW p \in Processes, Step(p) \/ Crash(p) \/ Redeploy(p) PROVE Placed(q)'
      <4>1. /\ \A r \in Processes : r # p => proc'[r] = proc[r] /\ marked \subseteq marked'
            /\ Placed(p)'
        <5>1. Placed(p)
          BY DEF TypeOK, Placed
        <5>2. DOMAIN proc = Processes
          BY DEF OrderInv
        <5> QED BY <3>2, <5>1, <5>2, StepPlaced, OthersStay
      <4>2. CASE q # p
        BY <3>1, <4>1, <4>2 DEF Placed, At, FileNo
      <4> QED BY <4>1, <4>2
    <3>3. CASE UNCHANGED vars
      BY <3>1, <3>3 DEF Placed, At, vars, FileNo
    <3> QED BY <3>2, <3>3 DEF Next
  <2> QED BY <2>1, <2>2, <2>3 DEF TypeOK, Placed
<1> QED BY <1>1, <1>2, AlwaysInOrder, PTL DEF Spec

-----------------------------------------------------------------------------
(* Whether a schema that is served is whole is decided by the nineteen     *)
(* files themselves: what each statement makes and may find in its way.    *)

(* What lasts of what a statement makes: the check that 0015 and 0019 take *)
(* away and the procedure of 0019 do not.                                  *)
Keeps(st) == st.makes \ {Positive, Helper}
(* Where a name is made: the file, times a hundred, and the statement.     *)
Place(n) ==
    CASE n = "roles" -> 101 [] n = "permissions" -> 102 [] n = "role_permissions" -> 103
    [] n = "users" -> 104 [] n = "auth_sessions" -> 105 [] n = "password_reset_tokens" -> 106
    [] n = "login_attempts" -> 107 [] n = "seeded_roles" -> 108 [] n = "seeded_permissions" -> 109
    [] n = "grants" -> 110 [] n = "upload_batches" -> 201 [] n = "upload_batch_rows" -> 202
    [] n = "upload_validation_errors" -> 203 [] n = "investment_records" -> 301
    [] n = "idempotency_keys" -> 302 [] n = "integration_sources" -> 401 [] n = "sync_batches" -> 402
    [] n = "sync_batch_errors" -> 403 [] n = "fk_sync_batch_id" -> 404 [] n = "report_exports" -> 501
    [] n = "audit_logs" -> 601 [] n = "outbox_events" -> 701 [] n = "job_history" -> 702
    [] n = "system_settings" -> 801 [] n = "tenor_bands" -> 802 [] n = "source_channels" -> 803
    [] n = "bands" -> 804 [] n = "channels" -> 805 [] n = "idx_error_code" -> 901
    [] n = "idx_type_status" -> 902 [] n = "idx_sync_frequency" -> 903 [] n = "idx_started_at" -> 904
    [] n = "idx_customer_date" -> 905 [] n = "idx_rm_date" -> 906
    [] n = "idx_source_channel_date" -> 907 [] n = "idx_fund_tenor_date" -> 908
    [] n = "idx_queue_status" -> 909 [] n = "idx_created_at" -> 910 [] n = "dashboard_actor" -> 1101
    [] n = "more_roles" -> 1202 [] n = "super_admin" -> 1203 [] n = "ops_manager" -> 1204
    [] n = "compliance" -> 1205 [] n = "viewer" -> 1206 [] n = "source_type" -> 1301
    [] n = "data_source" -> 1302 [] n = "google_sheet_tabs" -> 1303
    [] n = "google_sheet_row_checksums" -> 1304 [] n = "status_importing" -> 1401
    [] n = "purpose" -> 1601 [] n = "atomic_permissions" -> 1701 [] n = "super_admin_atomic" -> 1702
    [] n = "analyst_atomic" -> 1703 [] n = "ops_manager_atomic" -> 1705
    [] n = "compliance_atomic" -> 1707 [] n = "viewer_atomic" -> 1709
    [] n = "chk_amount_positive" -> 0 [] n = "chk_amount_non_negative" -> 0
    [] n = "wt_add_non_negative_constraint" -> 0

(* How statement s of file f is written: what lasts of it is made nowhere  *)
(* else; only 0015 may find missing what a pod takes for applied, and      *)
(* neither it nor 0019 trips over a name; a statement that runs once makes *)
(* something that lasts.                                                   *)
Written(f, s, st) ==
    /\ s \in Nat \ {0} /\ s < 100
    /\ st.drops \subseteq {Positive, Helper}
    /\ \A n \in st.makes \ {Positive, Helper, NonNegative} : Place(n) = 100 * f + s
    /\ Positive \in st.makes => "investment_records" \in st.makes /\ st.clash # 0
    /\ st.lacks \in AlreadyApplied => f = 15 /\ s = 1
    /\ f \in {15, 19} => st.clash \notin AlreadyApplied
    /\ st.lacks # 0
    /\ f \notin {15, 19} => NonNegative \notin st.makes /\ Helper \notin st.makes
    /\ f \notin {15, 19} /\ st.clash # 0 => Keeps(st) # {} /\ (s > 1 => Positive \notin st.makes)

(* The statements, field by field.                                         *)
LEMMA Fields ==
    /\ \A t, refs : LET st == Create(t, refs) IN
         st.makes = {t} /\ st.clash = 1050 /\ st.needs = refs /\ st.lacks = 1824 /\ st.given = {} /\ st.drops = {}
    /\ \A t, c : LET st == Column(t, c) IN
         st.makes = {c} /\ st.clash = 1060 /\ st.needs = {t} /\ st.lacks = 1146 /\ st.given = {} /\ st.drops = {}
    /\ \A t, c : LET st == Index(t, c) IN
         st.makes = {c} /\ st.clash = 1061 /\ st.needs = {t} /\ st.lacks = 1146 /\ st.given = {} /\ st.drops = {}
    /\ \A t, c, r : LET st == ForeignKey(t, c, r) IN
         st.makes = {c} /\ st.clash = 1826 /\ st.needs = {t, r} /\ st.lacks = 1146 /\ st.given = {} /\ st.drops = {}
    /\ \A t, c : LET st == AddCheck(t, c) IN
         st.makes = {c} /\ st.clash = 3822 /\ st.needs = {t} /\ st.lacks = 1146 /\ st.given = {} /\ st.drops = {}
    /\ \A k : LET st == DropCheck(k) IN
         st.makes = {} /\ st.clash = 0 /\ st.needs = {k} /\ st.lacks = 3940 /\ st.given = {} /\ st.drops = {k}
    /\ \A t, c : LET st == Insert(t, c) IN
         st.makes = {c} /\ st.clash = 1062 /\ st.needs = {t} /\ st.lacks = 1146 /\ st.given = {} /\ st.drops = {}
    /\ \A t, c, g : LET st == InsertNew(t, c, g) IN
         st.makes = {c} /\ st.clash = 0 /\ st.needs = {t} /\ st.lacks = 1146 /\ st.given = g /\ st.drops = {}
    /\ \A t, c : LET st == Modify(t, c) IN
         st.makes = {c} /\ st.clash = 0 /\ st.needs = {t} /\ st.lacks = 1146 /\ st.given = {} /\ st.drops = {}
    /\ \A t : LET st == Touch(t) IN
         st.makes = {} /\ st.clash = 0 /\ st.needs = {t} /\ st.lacks = 1146 /\ st.given = {} /\ st.drops = {}
    /\ \A k : LET st == CreateProcedure(k) IN
         st.makes = {k} /\ st.clash = 1304 /\ st.needs = {} /\ st.lacks = 1146 /\ st.given = {} /\ st.drops = {}
    /\ \A k : LET st == DropProcedure(k) IN
         st.makes = {} /\ st.clash = 0 /\ st.needs = {} /\ st.lacks = 1146 /\ st.given = {} /\ st.drops = {k}
    /\ \A p, t, k : LET st == Call(p, t, k) IN
         st.makes = {k} /\ st.clash = 0 /\ st.needs = {p, t} /\ st.lacks = 1305 /\ st.given = {} /\ st.drops = {}
    /\ LET st == Records IN
         st.makes = {"investment_records", Positive} /\ st.clash = 1050 /\ st.lacks = 1824 /\ st.given = {} /\ st.drops = {}
  BY DEF Nothing, Create, Column, Index, ForeignKey, AddCheck, DropCheck, Insert, InsertNew, Modify, Touch,
         CreateProcedure, DropProcedure, Call, Records

(* The names of each file have its places.                                 *)
LEMMA Places1 ==
    /\ Place("roles") = 101 /\ Place("permissions") = 102 /\ Place("role_permissions") = 103
    /\ Place("users") = 104 /\ Place("auth_sessions") = 105 /\ Place("password_reset_tokens") = 106
    /\ Place("login_attempts") = 107 /\ Place("seeded_roles") = 108 /\ Place("seeded_permissions") = 109
    /\ Place("grants") = 110
  BY DEF Place
LEMMA Places2 ==
    /\ Place("upload_batches") = 201 /\ Place("upload_batch_rows") = 202
    /\ Place("upload_validation_errors") = 203
  BY DEF Place
LEMMA Places3 ==
    /\ Place("investment_records") = 301 /\ Place("idempotency_keys") = 302
  BY DEF Place
LEMMA Places4 ==
    /\ Place("integration_sources") = 401 /\ Place("sync_batches") = 402
    /\ Place("sync_batch_errors") = 403 /\ Place("fk_sync_batch_id") = 404
  BY DEF Place
LEMMA Places5 ==
    /\ Place("report_exports") = 501
  BY DEF Place
LEMMA Places6 ==
    /\ Place("audit_logs") = 601
  BY DEF Place
LEMMA Places7 ==
    /\ Place("outbox_events") = 701 /\ Place("job_history") = 702
  BY DEF Place
LEMMA Places8 ==
    /\ Place("system_settings") = 801 /\ Place("tenor_bands") = 802 /\ Place("source_channels") = 803
    /\ Place("bands") = 804 /\ Place("channels") = 805
  BY DEF Place
LEMMA Places9 ==
    /\ Place("idx_error_code") = 901 /\ Place("idx_type_status") = 902 /\ Place("idx_sync_frequency") = 903
    /\ Place("idx_started_at") = 904 /\ Place("idx_customer_date") = 905 /\ Place("idx_rm_date") = 906
    /\ Place("idx_source_channel_date") = 907 /\ Place("idx_fund_tenor_date") = 908
    /\ Place("idx_queue_status") = 909 /\ Place("idx_created_at") = 910
  BY DEF Place
LEMMA Places11 ==
    /\ Place("dashboard_actor") = 1101
  BY DEF Place
LEMMA Places12 ==
    /\ Place("more_roles") = 1202 /\ Place("super_admin") = 1203 /\ Place("ops_manager") = 1204
    /\ Place("compliance") = 1205 /\ Place("viewer") = 1206
  BY DEF Place
LEMMA Places13 ==
    /\ Place("source_type") = 1301 /\ Place("data_source") = 1302 /\ Place("google_sheet_tabs") = 1303
    /\ Place("google_sheet_row_checksums") = 1304
  BY DEF Place
LEMMA Places14 ==
    /\ Place("status_importing") = 1401
  BY DEF Place
LEMMA Places16 ==
    /\ Place("purpose") = 1601
  BY DEF Place
LEMMA Places17 ==
    /\ Place("atomic_permissions") = 1701 /\ Place("super_admin_atomic") = 1702
    /\ Place("analyst_atomic") = 1703 /\ Place("ops_manager_atomic") = 1705
    /\ Place("compliance_atomic") = 1707 /\ Place("viewer_atomic") = 1709
  BY DEF Place

(* The three names that are made twice, or go again, have none.            *)
LEMMA NoPlace == Place(Positive) = 0 /\ Place(Helper) = 0 /\ Place(NonNegative) = 0
  BY DEF Place, Positive, Helper, NonNegative

(* A statement that makes one name, in its place, is written so ...        *)
LEMMA OneName ==
    ASSUME NEW f \in Nat \ {0, 15, 19}, NEW s \in Nat \ {0}, s < 100, NEW n, Place(n) = 100 * f + s,
           NEW st, st.makes = {n}, st.drops = {}, st.lacks \in {1146, 1824}
    PROVE  Written(f, s, st)
<1>2. n # Positive /\ n # Helper /\ n # NonNegative
  BY NoPlace
<1> QED BY <1>2 DEF Written, Keeps, AlreadyApplied

(* ... whichever of the plain kinds it is ...                              *)
LEMMA OneStatement ==
    ASSUME NEW f \in Nat \ {0, 15, 19}, NEW s \in Nat \ {0}, s < 100, NEW n, Place(n) = 100 * f + s
    PROVE  /\ \A t : Written(f, s, Column(t, n)) /\ Written(f, s, Index(t, n)) /\ Written(f, s, Insert(t, n))
                     /\ Written(f, s, Modify(t, n)) /\ Written(f, s, Create(n, t))
           /\ \A t, r : Written(f, s, ForeignKey(t, n, r)) /\ Written(f, s, InsertNew(t, n, r))
<1>1. ASSUME NEW t PROVE Written(f, s, Column(t, n))
  <2>1. Column(t, n).makes = {n} /\ Column(t, n).drops = {} /\ Column(t, n).lacks \in {1146, 1824}
    BY Fields
  <2> QED BY <2>1, OneName
<1>2. ASSUME NEW t PROVE Written(f, s, Index(t, n))
  <2>1. Index(t, n).makes = {n} /\ Index(t, n).drops = {} /\ Index(t, n).lacks \in {1146, 1824}
    BY Fields
  <2> QED BY <2>1, OneName
<1>3. ASSUME NEW t PROVE Written(f, s, Insert(t, n))
  <2>1. Insert(t, n).makes = {n} /\ Insert(t, n).drops = {} /\ Insert(t, n).lacks \in {1146, 1824}
    BY Fields
  <2> QED BY <2>1, OneName
<1>4. ASSUME NEW t PROVE Written(f, s, Modify(t, n))
  <2>1. Modify(t, n).makes = {n} /\ Modify(t, n).drops = {} /\ Modify(t, n).lacks \in {1146, 1824}
    BY Fields
  <2> QED BY <2>1, OneName
<1>5. ASSUME NEW t PROVE Written(f, s, Create(n, t))
  <2>1. Create(n, t).makes = {n} /\ Create(n, t).drops = {} /\ Create(n, t).lacks \in {1146, 1824}
    BY Fields
  <2> QED BY <2>1, OneName
<1>6. ASSUME NEW t, NEW r PROVE Written(f, s, ForeignKey(t, n, r))
  <2>1. ForeignKey(t, n, r).makes = {n} /\ ForeignKey(t, n, r).drops = {} /\ ForeignKey(t, n, r).lacks \in {1146, 1824}
    BY Fields
  <2> QED BY <2>1, OneName
<1>7. ASSUME NEW t, NEW r PROVE Written(f, s, InsertNew(t, n, r))
  <2>1. InsertNew(t, n, r).makes = {n} /\ InsertNew(t, n, r).drops = {} /\ InsertNew(t, n, r).lacks \in {1146, 1824}
    BY Fields
  <2> QED BY <2>1, OneName
<1> QED BY <1>1, <1>2, <1>3, <1>4, <1>5, <1>6, <1>7

(* ... and so is one that makes nothing.                                   *)
LEMMA NoName == \A t : \A f \in Nat \ {0, 15, 19}, s \in Nat \ {0} : s < 100 => Written(f, s, Touch(t))
  BY Fields DEF Written, AlreadyApplied

(* The statements of the nineteen files.                                   *)
LEMMA Written1 == \A s \in DOMAIN F0001 : Written(1, s, F0001[s])
<1>1. Written(1, 1, Create("roles", {}))
  BY OneStatement, Places1
<1>2. Written(1, 2, Create("permissions", {}))
  BY OneStatement, Places1
<1>3. Written(1, 3, Create("role_permissions", {"roles", "permissions"}))
  BY OneStatement, Places1
<1>4. Written(1, 4, Create("users", {"roles"}))
  BY OneStatement, Places1
<1>5. Written(1, 5, Create("auth_sessions", {"users"}))
  BY OneStatement, Places1
<1>6. Written(1, 6, Create("password_reset_tokens", {"users"}))
  BY OneStatement, Places1
<1>7. Written(1, 7, Create("login_attempts", {"users"}))
  BY OneStatement, Places1
<1>8. Written(1, 8, Insert("roles", "seeded_roles"))
  BY OneStatement, Places1
<1>9. Written(1, 9, Insert("permissions", "seeded_permissions"))
  BY OneStatement, Places1
<1>10. Written(1, 10, Insert("role_permissions", "grants"))
  BY OneStatement, Places1
<1> QED BY <1>1, <1>2, <1>3, <1>4, <1>5, <1>6, <1>7, <1>8, <1>9, <1>10 DEF F0001

LEMMA Written2 == \A s \in DOMAIN F0002 : Written(2, s, F0002[s])
<1>1. Written(2, 1, Create("upload_batches", {"users"}))
  BY OneStatement, Places2
<1>2. Written(2, 2, Create("upload_batch_rows", {"upload_batches"}))
  BY OneStatement, Places2
<1>3. Written(2, 3, Create("upload_validation_errors", {"upload_batches", "upload_batch_rows"}))
  BY OneStatement, Places2
<1> QED BY <1>1, <1>2, <1>3 DEF F0002

LEMMA Written3 == \A s \in DOMAIN F0003 : Written(3, s, F0003[s])
<1>1. Written(3, 1, Records)
  BY Places3, Fields, NoPlace DEF Written, Keeps, Positive, Helper, NonNegative, AlreadyApplied
<1>2. Written(3, 2, Create("idempotency_keys", {"users"}))
  BY OneStatement, Places3
<1> QED BY <1>1, <1>2 DEF F0003

LEMMA Written4 == \A s \in DOMAIN F0004 : Written(4, s, F0004[s])
<1>1. Written(4, 1, Create("integration_sources", {"users"}))
  BY OneStatement, Places4
<1>2. Written(4, 2, Create("sync_batches", {"integration_sources", "users"}))
  BY OneStatement, Places4
<1>3. Written(4, 3, Create("sync_batch_errors", {"sync_batches"}))
  BY OneStatement, Places4
<1>4. Written(4, 4, ForeignKey("investment_records", "fk_sync_batch_id", "sync_batches"))
  BY OneStatement, Places4
<1> QED BY <1>1, <1>2, <1>3, <1>4 DEF F0004

LEMMA Written5 == \A s \in DOMAIN F0005 : Written(5, s, F0005[s])
<1>1. Written(5, 1, Create("report_exports", {"users"}))
  BY OneStatement, Places5
<1> QED BY <1>1 DEF F0005

LEMMA Written6 == \A s \in DOMAIN F0006 : Written(6, s, F0006[s])
<1>1. Written(6, 1, Create("audit_logs", {"users"}))
  BY OneStatement, Places6
<1> QED BY <1>1 DEF F0006

LEMMA Written7 == \A s \in DOMAIN F0007 : Written(7, s, F0007[s])
<1>1. Written(7, 1, Create("outbox_events", {}))
  BY OneStatement, Places7
<1>2. Written(7, 2, Create("job_history", {}))
  BY OneStatement, Places7
<1> QED BY <1>1, <1>2 DEF F0007

LEMMA Written8 == \A s \in DOMAIN F0008 : Written(8, s, F0008[s])
<1>1. Written(8, 1, Create("system_settings", {"users"}))
  BY OneStatement, Places8
<1>2. Written(8, 2, Create("tenor_bands", {"users"}))
  BY OneStatement, Places8
<1>3. Written(8, 3, Create("source_channels", {"users"}))
  BY OneStatement, Places8
<1>4. Written(8, 4, Insert("tenor_bands", "bands"))
  BY OneStatement, Places8
<1>5. Written(8, 5, Insert("source_channels", "channels"))
  BY OneStatement, Places8
<1> QED BY <1>1, <1>2, <1>3, <1>4, <1>5 DEF F0008

LEMMA Written9 == \A s \in DOMAIN F0009 : Written(9, s, F0009[s])
<1>1. Written(9, 1, Index("upload_validation_errors", "idx_error_code"))
  BY OneStatement, Places9
<1>2. Written(9, 2, Index("report_exports", "idx_type_status"))
  BY OneStatement, Places9
<1>3. Written(9, 3, Index("integration_sources", "idx_sync_frequency"))
  BY OneStatement, Places9
<1>4. Written(9, 4, Index("sync_batches", "idx_started_at"))
  BY OneStatement, Places9
<1>5. Written(9, 5, Index("investment_records", "idx_customer_date"))
  BY OneStatement, Places9
<1>6. Written(9, 6, Index("investment_records", "idx_rm_date"))
  BY OneStatement, Places9
<1>7. Written(9, 7, Index("investment_records", "idx_source_channel_date"))
  BY OneStatement, Places9
<1>8. Written(9, 8, Index("investment_records", "idx_fund_tenor_date"))
  BY OneStatement, Places9
<1>9. Written(9, 9, Index("job_history", "idx_queue_status"))
  BY OneStatement, Places9
<1>10. Written(9, 10, Index("audit_logs", "idx_created_at"))
  BY OneStatement, Places9
<1> QED BY <1>1, <1>2, <1>3, <1>4, <1>5, <1>6, <1>7, <1>8, <1>9, <1>10 DEF F0009

LEMMA Written10 == \A s \in DOMAIN F0010 : Written(10, s, F0010[s])
<1>1. Written(10, 1, Touch("investment_records"))
  BY NoName
<1>2. Written(10, 2, Touch("upload_batch_rows"))
  BY NoName
<1>3. Written(10, 3, Touch("upload_batches"))
  BY NoName
<1>4. Written(10, 4, Touch("sync_batch_errors"))
  BY NoName
<1>5. Written(10, 5, Touch("sync_batches"))
  BY NoName
<1>6. Written(10, 6, Touch("integration_sources"))
  BY NoName
<1>7. Written(10, 7, Touch("report_exports"))
  BY NoName
<1>8. Written(10, 8, Touch("audit_logs"))
  BY NoName
<1>9. Written(10, 9, Touch("login_attempts"))
  BY NoName
<1>10. Written(10, 10, Touch("auth_sessions"))
  BY NoName
<1>11. Written(10, 11, Touch("users"))
  BY NoName
<1> QED BY <1>1, <1>2, <1>3, <1>4, <1>5, <1>6, <1>7, <1>8, <1>9, <1>10, <1>11 DEF F0010

LEMMA Written11 == \A s \in DOMAIN F0011 : Written(11, s, F0011[s])
<1>1. Written(11, 1, InsertNew("users", "dashboard_actor", {"seeded_roles"}))
  BY OneStatement, Places11
<1> QED BY <1>1 DEF F0011

LEMMA Written12 == \A s \in DOMAIN F0012 : Written(12, s, F0012[s])
<1>1. Written(12, 1, Touch("permissions"))
  BY NoName
<1>2. Written(12, 2, InsertNew("roles", "more_roles", {}))
  BY OneStatement, Places12
<1>3. Written(12, 3, InsertNew("role_permissions", "super_admin", {"more_roles", "seeded_permissions"}))
  BY OneStatement, Places12
<1>4. Written(12, 4, InsertNew("role_permissions", "ops_manager", {"more_roles", "seeded_permissions"}))
  BY OneStatement, Places12
<1>5. Written(12, 5, InsertNew("role_permissions", "compliance", {"more_roles", "seeded_permissions"}))
  BY OneStatement, Places12
<1>6. Written(12, 6, InsertNew("role_permissions", "viewer", {"more_roles", "seeded_permissions"}))
  BY OneStatement, Places12
<1> QED BY <1>1, <1>2, <1>3, <1>4, <1>5, <1>6 DEF F0012

LEMMA Written13 == \A s \in DOMAIN F0013 : Written(13, s, F0013[s])
<1>1. Written(13, 1, Modify("integration_sources", "source_type"))
  BY OneStatement, Places13
<1>2. Written(13, 2, Modify("investment_records", "data_source"))
  BY OneStatement, Places13
<1>3. Written(13, 3, Create("google_sheet_tabs", {"integration_sources"}))
  BY OneStatement, Places13
<1>4. Written(13, 4, Create("google_sheet_row_checksums", {"google_sheet_tabs"}))
  BY OneStatement, Places13
<1> QED BY <1>1, <1>2, <1>3, <1>4 DEF F0013

LEMMA Written14 == \A s \in DOMAIN F0014 : Written(14, s, F0014[s])
<1>1. Written(14, 1, Modify("upload_batches", "status_importing"))
  BY OneStatement, Places14
<1> QED BY <1>1 DEF F0014

LEMMA Written15 == \A s \in DOMAIN F0015 : Written(15, s, F0015[s])
  BY Fields, NoPlace DEF F0015, Written, Keeps, Positive, Helper, NonNegative, AlreadyApplied

LEMMA Written16 == \A s \in DOMAIN F0016 : Written(16, s, F0016[s])
<1>1. Written(16, 1, Column("password_reset_tokens", "purpose"))
  BY OneStatement, Places16
<1>2. Written(16, 2, Touch("password_reset_tokens"))
  BY NoName
<1> QED BY <1>1, <1>2 DEF F0016

LEMMA Written17 == \A s \in DOMAIN F0017 : Written(17, s, F0017[s])
<1>1. Written(17, 1, InsertNew("permissions", "atomic_permissions", {}))
  BY OneStatement, Places17
<1>2. Written(17, 2, Atomic("super_admin_atomic"))
  BY OneStatement, Places17 DEF Atomic
<1>3. Written(17, 3, InsertNew("role_permissions", "analyst_atomic", {"atomic_permissions", "seeded_roles"}))
  BY OneStatement, Places17
<1>4. Written(17, 4, Touch("role_permissions"))
  BY NoName
<1>5. Written(17, 5, Atomic("ops_manager_atomic"))
  BY OneStatement, Places17 DEF Atomic
<1>6. Written(17, 6, Touch("role_permissions"))
  BY NoName
<1>7. Written(17, 7, Atomic("compliance_atomic"))
  BY OneStatement, Places17 DEF Atomic
<1>8. Written(17, 8, Touch("role_permissions"))
  BY NoName
<1>9. Written(17, 9, Atomic("viewer_atomic"))
  BY OneStatement, Places17 DEF Atomic
<1>10. Written(17, 10, Touch("role_permissions"))
  BY NoName
<1>11. Written(17, 11, Touch("permissions"))
  BY NoName
<1> QED BY <1>1, <1>2, <1>3, <1>4, <1>5, <1>6, <1>7, <1>8, <1>9, <1>10, <1>11 DEF F0017

LEMMA Written18 == \A s \in DOMAIN F0018 : Written(18, s, F0018[s])
<1>1. Written(18, 1, Touch("permissions"))
  BY NoName
<1> QED BY <1>1 DEF F0018

LEMMA Written19 == \A s \in DOMAIN F0019 : Written(19, s, F0019[s])
  BY Fields, NoPlace DEF F0019, Written, Keeps, Positive, Helper, NonNegative, AlreadyApplied

(* Every statement of every file is written so ...                         *)
LEMMA AllWritten ==
    \A f \in FileNo : f \in Nat /\ \A s \in DOMAIN Files[f] : Written(f, s, Files[f][s])
<1>1. FileNo = 1 .. 19
  BY DEF FileNo, Files
<1> SUFFICES ASSUME NEW f \in 1 .. 19
             PROVE  \A s \in DOMAIN Files[f] : Written(f, s, Files[f][s])
  BY <1>1
<1>2. CASE f \in 1 .. 7
  BY <1>2, Written1, Written2, Written3, Written4, Written5, Written6, Written7 DEF Files
<1>3. CASE f \in 8 .. 13
  BY <1>3, Written8, Written9, Written10, Written11, Written12, Written13 DEF Files
<1>4. CASE f \in 14 .. 19
  BY <1>4, Written14, Written15, Written16, Written17, Written18, Written19 DEF Files
<1> QED BY <1>2, <1>3, <1>4

(* ... so that a lasting name has one maker.                               *)
LEMMA OneMaker ==
    ASSUME NEW f \in FileNo, NEW s \in DOMAIN Files[f], NEW g \in FileNo, NEW t \in DOMAIN Files[g],
           NEW n, n \in Keeps(Files[f][s]), n \in Keeps(Files[g][t]), n # NonNegative
    PROVE  f = g /\ s = t
<1>1. Place(n) = 100 * f + s /\ Place(n) = 100 * g + t
  BY AllWritten DEF Written, Keeps
<1>2. f \in Nat /\ g \in Nat /\ s \in Nat /\ t \in Nat /\ s < 100 /\ t < 100 /\ s > 0 /\ t > 0
  BY AllWritten DEF Written
<1> QED BY <1>1, <1>2

(* What lasts of a file.                                                   *)
Lasts(f) == UNION {Keeps(Files[f][s]) : s \in DOMAIN Files[f]}

(* A file that may be left in the middle makes all that lasts in the one   *)
(* statement that cannot run twice, or has no such statement.              *)
LEMMA Repeatable ==
    ASSUME NEW f \in FileNo \ Unrepeatable, f \notin {15, 19},
           NEW s \in DOMAIN Files[f], Files[f][s].clash # 0
    PROVE  Lasts(f) \subseteq Keeps(Files[f][s])
<1>1. f \in {5, 6, 10, 11, 12, 14, 16, 17, 18}
  BY DEF FileNo, Files, Unrepeatable
<1>2. \A t : (Touch(t)).clash = 0 /\ (Touch(t)).makes = {}
  BY Fields
<1>3. \A t, r, g : (InsertNew(t, r, g)).clash = 0 /\ (Modify(t, r)).clash = 0
  BY Fields
<1>4. CASE f \in {5, 6}
  <2>1. \A t \in DOMAIN Files[f] : t = 1
    BY <1>4 DEF Files, F0005, F0006
  <2> QED BY <2>1 DEF Lasts
<1>5. CASE f \in {10, 11, 12}
  <2>1. \A t \in DOMAIN F0010 : F0010[t].clash = 0
    BY <1>2 DEF F0010
  <2>2. \A t \in DOMAIN F0011 : F0011[t].clash = 0
    BY <1>3 DEF F0011
  <2>3. \A t \in DOMAIN F0012 : F0012[t].clash = 0
    BY <1>2, <1>3 DEF F0012
  <2> QED BY <1>5, <2>1, <2>2, <2>3 DEF Files
<1>6. CASE f \in {14, 17, 18}
  <2>1. \A t \in DOMAIN F0014 : F0014[t].clash = 0
    BY <1>3 DEF F0014
  <2>2. \A t \in DOMAIN F0017 : F0017[t].clash = 0
    BY <1>2, <1>3 DEF F0017, Atomic
  <2>3. \A t \in DOMAIN F0018 : F0018[t].clash = 0
    BY <1>2 DEF F0018
  <2> QED BY <1>6, <2>1, <2>2, <2>3 DEF Files
<1>7. CASE f = 16
  <2>1. Files[f] = F0016 /\ DOMAIN Files[f] = {1, 2} /\ Files[f][2] = Touch("password_reset_tokens")
    BY <1>7 DEF Files, F0016
  <2>2. s = 1 /\ Keeps(Files[f][2]) = {}
    BY <1>2, <2>1 DEF Keeps
  <2> QED BY <2>1, <2>2 DEF Lasts
<1> QED BY <1>1, <1>4, <1>5, <1>6, <1>7

(* 0015 drops one check and adds another, 0019 makes sure of the second,   *)
(* and 0003 creates the table they are on.                                 *)
LEMMA Relaxing ==
    /\ 15 \in FileNo /\ DOMAIN Files[15] = {1, 2} /\ Len(Files[15]) = 2
    /\ Files[15][1].needs = {Positive} /\ Files[15][1].drops = {Positive}
    /\ Files[15][1].makes = {} /\ Files[15][2].makes = {NonNegative}
<1>1. 15 \in FileNo /\ Files[15] = F0015
  BY DEF FileNo, Files
<1>2. /\ DOMAIN F0015 = {1, 2} /\ Len(F0015) = 2
      /\ F0015[1] = DropCheck(Positive) /\ F0015[2] = AddCheck("investment_records", NonNegative)
  BY DEF F0015
<1> QED BY <1>1, <1>2, Fields

LEMMA Ensuring ==
    /\ 19 \in FileNo /\ DOMAIN Files[19] = 1 .. 4
    /\ Files[19][1].drops = {Helper} /\ Files[19][3].makes = {NonNegative}
<1>1. 19 \in FileNo /\ Files[19] = F0019
  BY DEF FileNo, Files
<1>2. /\ DOMAIN F0019 = 1 .. 4
      /\ F0019[1] = DropProcedure(Helper) /\ F0019[3] = Call(Helper, "investment_records", NonNegative)
  BY DEF F0019
<1> QED BY <1>1, <1>2, Fields

LEMMA Recording ==
    /\ 3 \in FileNo /\ DOMAIN Files[3] = {1, 2} /\ "investment_records" \in Keeps(Files[3][1])
<1>1. 3 \in FileNo /\ Files[3] = F0003
  BY DEF FileNo, Files
<1>2. DOMAIN F0003 = {1, 2} /\ F0003[1] = Records
  BY DEF F0003
<1> QED BY <1>1, <1>2, Fields DEF Keeps, Positive, Helper

-----------------------------------------------------------------------------
(* Any number of processes amid their files, as long as nothing is lost.   *)

(* A process that is past the first statement of its file that cannot run  *)
(* twice: 0015 and 0019 are written to be run again.                       *)
Past(p, f) ==
    /\ At(p) = "run" /\ proc[p].file = f /\ f \notin {15, 19}
    /\ \E s \in DOMAIN Files[f] : s < proc[p].stmt /\ Files[f][s].clash # 0
(* A file has run when all that lasts of it is there, or a process is on   *)
(* its way through it.                                                     *)
Ran(f) == Lasts(f) \subseteq db \/ \E p \in Processes : Past(p, f)
(* 0015 has taken its check away, and the table is there.                  *)
Relaxed == Positive \notin db /\ "investment_records" \in db
(* 0015 has run when the check is gone, any other file when what lasts is  *)
(* made.                                                                   *)
Applied(f) == IF f = 15 THEN Relaxed ELSE Ran(f)

(* What a process has made in its file is there.                           *)
Behind(p) ==
    At(p) = "run" =>
      /\ \A s \in DOMAIN Files[proc[p].file] : s < proc[p].stmt => Keeps(Files[proc[p].file][s]) \subseteq db
      /\ proc[p].file = 15 /\ proc[p].stmt = 2 => Relaxed
(* What a process that is past a plain statement has yet to make is not    *)
(* there ...                                                               *)
Ahead(p) ==
    \A f \in FileNo : Past(p, f) =>
      \A s \in DOMAIN Files[f] : s >= proc[p].stmt /\ Files[f][s].clash # 0 => Files[f][s].makes \cap db = {}
(* ... for it is alone in its file.                                        *)
Alone == \A p, q \in Processes, f \in FileNo : Past(p, f) /\ Past(q, f) => p = q
(* A name that a plain statement made tells that its file has run.         *)
Begun ==
    \A f \in FileNo \ {15, 19} : \A s \in DOMAIN Files[f] :
      Files[f][s].clash # 0 /\ Keeps(Files[f][s]) \cap db # {} => Ran(f)
(* So does a mark, and a process that is about to set one.                 *)
Passed ==
    /\ \A f \in marked : Applied(f)
    /\ \A p \in Processes : At(p) = "mark" => Applied(proc[p].file)
(* Nothing but what files make is in the schema.                           *)
Known ==
    /\ \A n \in db : n \in {Positive, Helper} \/ \E f \in FileNo : n \in Lasts(f)
    /\ Positive \in db => "investment_records" \in db
(* The invariant while no process stopped where it loses something.        *)
Untorn ==
    /\ \A p \in Processes : Behind(p) /\ Ahead(p)
    /\ Alone /\ Begun /\ Passed /\ Known
(* Every process is at a statement of its file.                            *)
Standing == \A p \in Processes : Placed(p)

(* A step that leaves the schema alone and takes a process to where it     *)
(* runs nothing, or the first statement of a file.                         *)
LEMMA MoveUntorn ==
    ASSUME Untorn, OrderInv', NEW p \in Processes, UNCHANGED db,
           \A q \in Processes : q # p => proc'[q] = proc[q],
           At(p)' = "run" => proc'[p].stmt = 1,
           At(p)' = "mark" => Applied(proc'[p].file),
           \A f \in marked' : Applied(f),
           \A f \in FileNo : Past(p, f) => Lasts(f) \subseteq db
    PROVE  Untorn'
<1>1. \A f \in FileNo : ~ Past(p, f)'
  <2> SUFFICES ASSUME NEW f \in FileNo, Past(p, f)' PROVE FALSE
    OBVIOUS
  <2>1. \E s \in DOMAIN Files[f] : s < 1
    BY DEF Past, At
  <2> QED BY <2>1, AllWritten DEF Written
<1>2. \A q \in Processes, f \in FileNo : q # p => (Past(q, f) <=> Past(q, f)')
  BY DEF Past, At
<1>3. \A f \in FileNo : Ran(f) => Ran(f)'
  BY <1>2 DEF Ran, Lasts, Keeps
<1>4. 15 \in FileNo /\ \A f \in FileNo : Applied(f) => Applied(f)'
  BY <1>3, Relaxing DEF Applied, Relaxed
<1>5. ASSUME NEW q \in Processes PROVE Behind(q)'
  <2>1. CASE q = p
    <3> SUFFICES ASSUME At(p)' = "run" PROVE Behind(p)'
      BY <2>1 DEF Behind
    <3>0. proc'[p].file \in FileNo
      BY DEF OrderInv, InOrder, FileNo
    <3>1. \A s \in DOMAIN Files[proc'[p].file] : ~ (s < 1)
      BY <3>0, AllWritten DEF Written
    <3> QED BY <3>1, <2>1 DEF Behind
  <2>2. CASE q # p
    BY <2>2 DEF Untorn, Behind, At, Relaxed
  <2> QED BY <2>1, <2>2
<1>6. ASSUME NEW q \in Processes PROVE Ahead(q)'
  <2>1. CASE q = p
    BY <1>1, <2>1 DEF Ahead, FileNo
  <2>2. CASE q # p
    BY <1>2, <2>2 DEF Untorn, Ahead, FileNo
  <2> QED BY <2>1, <2>2
<1>7. Alone'
  BY <1>1, <1>2 DEF Untorn, Alone, FileNo
<1>8. Begun'
  BY <1>3 DEF Untorn, Begun, FileNo
<1>9. Passed'
  <2>1. marked' \subseteq FileNo /\ \A q \in Processes : At(q)' = "mark" => proc'[q].file \in FileNo
    BY DEF OrderInv, InOrder, FileNo
  <2> QED BY <1>4, <2>1 DEF Untorn, Passed, At
<1>10. Known'
  BY DEF Untorn, Known, Lasts, FileNo
<1> QED BY <1>5, <1>6, <1>7, <1>8, <1>9, <1>10 DEF Untorn

-----------------------------------------------------------------------------
(* What a step does to the process that takes it and to the schema.        *)

(* What a statement that succeeds does to the names, unless rows are left out. *)
LEMMA Effect ==
    ASSUME NEW p \in Processes, Placed(p), Succeed(p), ~ torn'
    PROVE  LET st == Current(p) IN
           /\ st.clash # 0 => st.makes \cap db = {}
           /\ st.needs \subseteq db
           /\ db' = (db \cup st.makes) \ st.drops
           /\ \A n \in db : n \notin {Positive, Helper} => n \in db'
           /\ \A n \in db' : n \in db \/ n \in st.makes
           /\ Keeps(st) \subseteq db'
<1> DEFINE st == Current(p)
<1>1. st.drops \subseteq {Positive, Helper} /\ st.lacks # 0
  BY AllWritten DEF Placed, Written, Current
<1>2. Errno(st, db) = 0
  BY DEF Succeed, ErrnoFor
<1>3. st.given \subseteq db /\ db' = After(st, db)
  BY DEF Succeed
<1> HIDE DEF st
<1>4. (st.clash # 0 => st.makes \cap db = {}) /\ st.needs \subseteq db
  BY <1>1, <1>2 DEF Errno
<1>5. db' = (db \cup st.makes) \ st.drops
  BY <1>3 DEF After
<1> QED BY <1>1, <1>4, <1>5 DEF Keeps, st

(* Where it takes its process: to the next statement, or out of the file.  *)
LEMMA MoveShape ==
    ASSUME OrderInv, NEW p \in Processes, NEW f, NEW known, MoveTo(p, f, known)
    PROVE  /\ \A q \in Processes : q # p => proc'[q] = proc[q]
           /\ At(p)' = "done" \/ (At(p)' = "run" /\ proc'[p].stmt = 1)
<1> DEFINE left == {g \in FileNo : g >= f /\ g \notin known}
<1>1. CASE left = {}
  BY <1>1 DEF MoveTo, OrderInv, InOrder, At
<1>2. CASE left # {}
  BY <1>2 DEF MoveTo, OrderInv, At
<1> QED BY <1>1, <1>2

(* At the end of a file a pod is about to mark it, the script goes on.     *)
LEMMA ExecutedShape ==
    ASSUME OrderInv, NEW p \in Processes, Executed(p)
    PROVE  /\ \A q \in Processes : q # p => proc'[q] = proc[q]
           /\ \/ At(p)' = "done" \/ (At(p)' = "run" /\ proc'[p].stmt = 1)
              \/ p # Script /\ At(p)' = "mark" /\ proc'[p].file = proc[p].file
<1>1. CASE p = Script
  BY <1>1, MoveShape DEF Executed
<1>2. CASE p # Script
  BY <1>2 DEF Executed, OrderInv, InOrder, At
<1> QED BY <1>1, <1>2

(* A statement that ran takes its process to the next, or there.           *)
LEMMA SucceedShape ==
    ASSUME OrderInv, NEW p \in Processes, Placed(p), Succeed(p)
    PROVE  /\ \A q \in Processes : q # p => proc'[q] = proc[q]
           /\ \/ /\ At(p)' = "run" /\ proc'[p].file = proc[p].file /\ proc'[p].stmt = proc[p].stmt + 1
                 /\ proc[p].stmt + 1 \in DOMAIN Files[proc[p].file]
              \/ /\ proc[p].stmt = Len(Files[proc[p].file])
                 /\ \/ At(p)' = "done" \/ (At(p)' = "run" /\ proc'[p].stmt = 1)
                    \/ At(p)' = "mark" /\ proc'[p].file = proc[p].file
<1>1. FileShape(Files[proc[p].file]) /\ proc[p].stmt \in 1 .. Len(Files[proc[p].file])
  BY FilesShaped DEF Placed, FileShape
<1>2. CASE proc[p].stmt < Len(Files[proc[p].file])
  <2>1. proc' = [proc EXCEPT ![p].stmt = @ + 1] /\ At(p) = "run"
    BY <1>2 DEF Succeed
  <2>2. proc[p].stmt + 1 \in DOMAIN Files[proc[p].file]
    BY <1>1, <1>2 DEF FileShape
  <2> QED BY <2>1, <2>2 DEF OrderInv, InOrder, At
<1>3. CASE ~ (proc[p].stmt < Len(Files[proc[p].file]))
  <2>1. proc[p].stmt = Len(Files[proc[p].file]) /\ Executed(p)
    BY <1>1, <1>3 DEF FileShape, Succeed
  <2> QED BY <2>1, ExecutedShape
<1> QED BY <1>2, <1>3

(* Of two that were past the same statement one had found its name there. *)
LEMMA FirstToPass ==
    ASSUME Untorn, Standing, NEW p \in Processes, NEW f \in FileNo, f \notin {15, 19},
           At(p) = "run", proc[p].file = f, ~ Past(p, f),
           Files[f][proc[p].stmt].clash # 0, Files[f][proc[p].stmt].makes \cap db = {}
    PROVE  ~ Ran(f)
<1> DEFINE s == proc[p].stmt
<1>1. s \in DOMAIN Files[f] /\ Written(f, s, Files[f][s])
  BY AllWritten DEF Standing, Placed
<1>2. Keeps(Files[f][s]) # {} /\ Keeps(Files[f][s]) \cap db = {}
  BY <1>1 DEF Written, Keeps
<1>3. ~ (Lasts(f) \subseteq db)
  BY <1>1, <1>2 DEF Lasts
<1>4. ASSUME NEW q \in Processes, Past(q, f) PROVE FALSE
  <2>1. PICK t \in DOMAIN Files[f] : t < proc[q].stmt /\ Files[f][t].clash # 0
    BY <1>4 DEF Past
  <2>2. ~ (t < s)
    BY <2>1 DEF Past
  <2>3. t \in Nat /\ s \in Nat /\ proc[q].stmt \in Nat
    BY <1>1, <2>1, AllWritten DEF Written, Standing, Placed
  <2>4. s < proc[q].stmt
    BY <2>1, <2>2, <2>3
  <2>5. Behind(q) /\ At(q) = "run" /\ proc[q].file = f
    BY <1>4 DEF Untorn, Past
  <2>6. Keeps(Files[f][s]) \subseteq db
    BY <1>1, <2>4, <2>5 DEF Behind
  <2> QED BY <1>2, <2>6
<1> QED BY <1>3, <1>4 DEF Ran

(* A statement that runs: the names it makes are in nobody else's way.     *)
LEMMA SucceedUntorn ==
    ASSUME Untorn, Standing, OrderInv, OrderInv', NEW p \in Processes, Succeed(p), ~ torn'
    PROVE  Untorn'
<1> DEFINE f0 == proc[p].file
           s0 == proc[p].stmt
           st == Current(p)
           next == /\ At(p)' = "run" /\ proc'[p].file = f0 /\ proc'[p].stmt = s0 + 1
                   /\ s0 + 1 \in DOMAIN Files[f0]
           left == /\ s0 = Len(Files[f0])
                   /\ \/ At(p)' = "done" \/ (At(p)' = "run" /\ proc'[p].stmt = 1)
                      \/ At(p)' = "mark" /\ proc'[p].file = f0
<1>1. /\ At(p) = "run" /\ f0 \in FileNo /\ s0 \in DOMAIN Files[f0] /\ s0 \in Nat /\ st = Files[f0][s0]
      /\ Written(f0, s0, st) /\ UNCHANGED marked /\ Placed(p) /\ Behind(p) /\ Ahead(p)
  <2>1. At(p) = "run" /\ UNCHANGED marked /\ st = Files[f0][s0]
    BY DEF Succeed, Current
  <2>2. Placed(p) /\ Behind(p) /\ Ahead(p)
    BY DEF Standing, Untorn
  <2>3. f0 \in FileNo /\ s0 \in DOMAIN Files[f0]
    BY <2>2 DEF Placed
  <2>4. Written(f0, s0, Files[f0][s0])
    BY <2>3, AllWritten
  <2>5. s0 \in Nat
    BY <2>4 DEF Written
  <2> QED BY <2>1, <2>2, <2>3, <2>4, <2>5
<1>2. /\ st.clash # 0 => st.makes \cap db = {}
      /\ st.needs \subseteq db /\ db' = (db \cup st.makes) \ st.drops
      /\ \A n \in db : n \notin {Positive, Helper} => n \in db'
      /\ \A n \in db' : n \in db \/ n \in st.makes
      /\ Keeps(st) \subseteq db'
  BY <1>1, Effect
<1>3. \A q \in Processes : q # p => proc'[q] = proc[q]
  BY <1>1, SucceedShape
<1>4. next \/ left
  BY <1>1, SucceedShape
<1> HIDE DEF st
<1>5. \A f \in FileNo : \A s \in DOMAIN Files[f] : s \in Nat \ {0} /\ s < 100
  BY AllWritten DEF Written
(* Names last, and are made once. *)
<1>6. \A f \in FileNo : \A s \in DOMAIN Files[f] : Keeps(Files[f][s]) \subseteq db => Keeps(Files[f][s]) \subseteq db'
  BY <1>2 DEF Keeps
<1>7. \A f \in FileNo : Lasts(f) \subseteq db => Lasts(f) \subseteq db'
  BY <1>2 DEF Lasts, Keeps
<1>8. left => Lasts(f0) \subseteq db'
  <2> SUFFICES ASSUME left, NEW s \in DOMAIN Files[f0] PROVE Keeps(Files[f0][s]) \subseteq db'
    BY DEF Lasts
  <2>1. DOMAIN Files[f0] = 1 .. Len(Files[f0]) /\ Len(Files[f0]) \in Nat
    BY <1>1, FilesShaped DEF FileShape
  <2>2. s = s0 \/ s < s0
    BY <1>1, <1>5, <2>1
  <2>3. s < s0 => Keeps(Files[f0][s]) \subseteq db
    BY <1>1 DEF Behind
  <2> QED BY <1>1, <1>2, <1>6, <2>2, <2>3
<1>9. Relaxed => Relaxed'
  <2> SUFFICES ASSUME Relaxed PROVE Relaxed'
    OBVIOUS
  <2>1. "investment_records" \in db'
    BY <1>2 DEF Relaxed, Positive, Helper
  <2>2. Positive \notin st.makes
    BY <1>1, <1>2 DEF Relaxed, Written
  <2> QED BY <1>2, <2>1, <2>2 DEF Relaxed
(* Who is past a file. *)
<1>10. \A q \in Processes, f \in FileNo : q # p => (Past(q, f) <=> Past(q, f)')
  BY <1>3 DEF Past, At
<1>11. ASSUME NEW f \in FileNo
       PROVE  Past(p, f)' <=> next /\ f = f0 /\ f \notin {15, 19} /\ (Past(p, f) \/ st.clash # 0)
  <2>1. CASE next
    <3>1. \A s \in DOMAIN Files[f0] : s < s0 + 1 <=> s < s0 \/ s = s0
      BY <1>1, <1>5
    <3> QED BY <1>1, <2>1, <3>1 DEF Past, At
  <2>2. CASE left
    <3>1. \A s \in DOMAIN Files[f] : ~ (s < 1)
      BY <1>5
    <3>2. ~ Past(p, f)'
      BY <2>2, <3>1 DEF Past, At
    <3>3. ~ next
      BY <1>1, <2>2, FilesShaped DEF FileShape
    <3> QED BY <3>2, <3>3
  <2> QED BY <1>4, <2>1, <2>2
<1>12. \A f \in FileNo : Past(p, f) => f = f0 /\ f \notin {15, 19}
  BY DEF Past
<1> HIDE DEF next, left
<1>13. \A f \in FileNo : Ran(f) => Ran(f)'
  <2> SUFFICES ASSUME NEW f \in FileNo, NEW q \in Processes, Past(q, f) PROVE Ran(f)'
    BY <1>7 DEF Ran, Lasts, Keeps
  <2>1. CASE q # p
    BY <1>10, <2>1 DEF Ran
  <2>2. CASE q = p /\ next
    BY <1>11, <1>12, <2>2 DEF Ran
  <2>3. CASE q = p /\ left
    BY <1>8, <1>12, <2>3 DEF Ran, Lasts, Keeps
  <2> QED BY <1>4, <2>1, <2>2, <2>3
<1>14. \A f \in FileNo : Applied(f) => Applied(f)'
  BY <1>9, <1>13 DEF Applied
(* What an earlier or other statement finds of the names this one made.    *)
<1>15. ASSUME NEW f \in FileNo, f \notin {15, 19}, NEW s \in DOMAIN Files[f], NEW n \in Keeps(Files[f][s]),
              n \in st.makes
       PROVE  f = f0 /\ s = s0
  <2>1. n # NonNegative /\ n \in Keeps(st)
    BY <1>15, AllWritten DEF Written, Keeps
  <2> QED BY <1>1, <2>1, OneMaker
<1>16. next /\ ~ Past(p, f0) /\ st.clash # 0 /\ f0 \notin {15, 19} => ~ Ran(f0)
  BY <1>1, <1>2, FirstToPass
<1>17. ASSUME NEW q \in Processes PROVE Behind(q)'
  <2>1. CASE q # p
    <3>1. At(q)' = At(q) /\ proc'[q] = proc[q] /\ Behind(q) /\ (At(q) = "run" => proc[q].file \in FileNo)
      BY <1>3, <2>1 DEF At, Untorn, OrderInv, InOrder
    <3> QED BY <1>6, <1>9, <3>1 DEF Behind
  <2>2. CASE q = p /\ next
    <3>1. ASSUME NEW s \in DOMAIN Files[f0], s < s0 + 1 PROVE Keeps(Files[f0][s]) \subseteq db'
      <4>1. s = s0 \/ s < s0
        BY <1>1, <1>5, <3>1
      <4> QED BY <1>1, <1>2, <1>6, <4>1 DEF Behind
    <3>2. ASSUME f0 = 15, s0 + 1 = 2 PROVE Relaxed'
      <4>1. st.needs = {Positive} /\ st.drops = {Positive} /\ st.makes = {}
        BY <1>1, <3>2, Relaxing
      <4>2. "investment_records" \in db
        BY <1>2, <4>1 DEF Untorn, Known
      <4> QED BY <1>2, <4>1, <4>2 DEF Relaxed, Positive, Helper
    <3> QED BY <2>2, <3>1, <3>2 DEF Behind, next
  <2>3. CASE q = p /\ left
    <3> SUFFICES ASSUME At(p)' = "run" PROVE Behind(p)'
      BY <2>3 DEF Behind
    <3>1. proc'[p].stmt = 1 /\ proc'[p].file \in FileNo
      BY <2>3 DEF left, OrderInv, InOrder, At, FileNo
    <3>2. \A s \in DOMAIN Files[proc'[p].file] : ~ (s < 1)
      BY <1>5, <3>1
    <3> QED BY <3>1, <3>2 DEF Behind
  <2> QED BY <1>4, <2>1, <2>2, <2>3
<1>18. ASSUME NEW q \in Processes PROVE Ahead(q)'
  <2> SUFFICES ASSUME NEW f \in FileNo, Past(q, f)', NEW s \in DOMAIN Files[f],
                      s >= proc'[q].stmt, Files[f][s].clash # 0
               PROVE  Files[f][s].makes \cap db' = {}
    BY DEF Ahead, FileNo
  <2>1. f \notin {15, 19} /\ \E t \in DOMAIN Files[f] : t < proc'[q].stmt
    BY DEF Past
  <2>2. Files[f][s].makes = Keeps(Files[f][s])
    <3>1. proc'[q].stmt \in Nat
      <4>1. CASE q = p /\ next
        BY <1>1, <4>1 DEF next
      <4>2. CASE q # p
        <5>1. proc'[q] = proc[q] /\ proc[q].file \in FileNo /\ proc[q].stmt \in DOMAIN Files[proc[q].file]
          BY <1>3, <4>2 DEF Standing, Placed
        <5> QED BY <1>5, <5>1
      <4>3. CASE q = p /\ left
        BY <4>3 DEF left, Past, At
      <4> QED BY <1>4, <4>1, <4>2, <4>3
    <3>2. s > 1
      BY <1>5, <2>1, <3>1
    <3> QED BY <2>1, <3>2, AllWritten DEF Written, Keeps
  <2>3. Files[f][s].makes \cap st.makes = {} /\ Files[f][s].makes \cap db = {}
    <3>1. CASE q # p
      <4>1. Past(q, f) /\ s >= proc[q].stmt /\ Ahead(q)
        BY <1>3, <1>10, <3>1 DEF Untorn
      <4>2. Files[f][s].makes \cap db = {}
        BY <4>1 DEF Ahead
      <4>3. ASSUME NEW n \in Files[f][s].makes, n \in st.makes PROVE FALSE
        <5>1. f = f0 /\ s = s0
          BY <1>15, <2>1, <2>2, <4>3
        <5>2. Past(p, f)
          <6>1. PICK t \in DOMAIN Files[f] : t < proc[q].stmt /\ Files[f][t].clash # 0
            BY <4>1 DEF Past
          <6>2. t < s
            BY <1>5, <4>1, <6>1 DEF Standing, Placed
          <6> QED BY <1>1, <2>1, <5>1, <6>1, <6>2 DEF Past
        <5> QED BY <3>1, <4>1, <5>2 DEF Untorn, Alone
      <4> QED BY <4>2, <4>3
    <3>2. CASE q = p
      <4>1. next /\ f = f0 /\ (Past(p, f) \/ st.clash # 0) /\ s >= s0 + 1
        BY <1>11, <3>2 DEF next
      <4>2. s \in Nat /\ s # s0 /\ s >= s0
        BY <1>1, <1>5, <4>1
      <4>3. Files[f][s].makes \cap st.makes = {}
        BY <1>15, <2>1, <2>2, <4>1, <4>2
      <4>4. Files[f][s].makes \cap db = {}
        <5>1. CASE Past(p, f)
          BY <1>1, <4>2, <5>1 DEF Ahead
        <5>2. CASE ~ Past(p, f)
          <6>1. ~ Ran(f)
            BY <1>16, <2>1, <4>1, <5>2
          <6> QED BY <2>1, <2>2, <6>1 DEF Untorn, Begun
        <5> QED BY <5>1, <5>2
      <4> QED BY <4>3, <4>4
    <3> QED BY <3>1, <3>2
  <2> QED BY <1>2, <2>3
<1>19. Alone'
  <2> SUFFICES ASSUME NEW q \in Processes, NEW r \in Processes, NEW f \in FileNo,
                      Past(q, f)', Past(r, f)', q # r
               PROVE  FALSE
    BY DEF Alone, FileNo
  <2>1. CASE q # p /\ r # p
    BY <1>10, <2>1 DEF Untorn, Alone
  <2>2. ASSUME NEW o \in Processes, o # p, Past(o, f)', Past(p, f)' PROVE FALSE
    <3>1. Past(o, f) /\ next /\ f = f0 /\ f \notin {15, 19} /\ (Past(p, f) \/ st.clash # 0)
      BY <1>10, <1>11, <2>2
    <3>2. ~ Past(p, f)
      BY <2>2, <3>1 DEF Untorn, Alone
    <3> QED BY <1>16, <3>1, <3>2 DEF Ran
  <2> QED BY <2>1, <2>2
<1>20. Begun'
  <2> SUFFICES ASSUME NEW f \in FileNo \ {15, 19}, NEW s \in DOMAIN Files[f], Files[f][s].clash # 0,
                      NEW n \in Keeps(Files[f][s]), n \in db'
               PROVE  Ran(f)'
    BY DEF Begun, FileNo
  <2>1. CASE n \in db
    BY <1>13, <2>1 DEF Untorn, Begun
  <2>2. CASE n \notin db
    <3>1. f = f0 /\ s = s0
      BY <1>2, <1>15, <2>2
    <3>2. CASE next
      <4>1. Past(p, f)'
        BY <1>1, <1>11, <3>1, <3>2
      <4> QED BY <4>1 DEF Ran
    <3>3. CASE left
      BY <1>8, <3>1, <3>3 DEF Ran, Lasts, Keeps
    <3> QED BY <1>4, <3>2, <3>3
  <2> QED BY <2>1, <2>2
<1>21. Passed'
  <2>1. ASSUME NEW f \in marked' PROVE Applied(f)'
    BY <1>1, <1>14, <2>1 DEF Untorn, Passed, OrderInv, FileNo
  <2>2. ASSUME NEW q \in Processes, q # p, At(q)' = "mark" PROVE Applied(proc[q].file)'
    <3>1. PICK f \in FileNo : f = proc[q].file /\ f = proc'[q].file /\ At(q) = "mark"
      BY <1>3, <2>2 DEF At, OrderInv, InOrder
    <3>2. Applied(f)
      BY <3>1 DEF Untorn, Passed
    <3>3. Applied(f)'
      BY <1>14, <3>2
    <3> QED BY <3>1, <3>3
  <2>3. ASSUME At(p)' = "mark" PROVE Applied(proc[p].file)'
    <3>1. left /\ proc'[p].file = f0
      BY <1>4, <2>3 DEF next, left, At
    <3>2. PICK f : f = f0 /\ f = proc'[p].file
      BY <3>1
    <3>3. f # 15 => Ran(f)'
      BY <1>8, <3>1, <3>2 DEF Ran, Lasts, Keeps
    <3>4. f = 15 => Relaxed'
      BY <1>1, <1>9, <3>1, <3>2, Relaxing DEF left, Behind
    <3>5. Applied(f)'
      BY <3>3, <3>4 DEF Applied
    <3> QED BY <3>2, <3>5
  <2> QED BY <2>1, <2>2, <2>3 DEF Passed
<1>22. Known'
  <2>1. ASSUME NEW n \in db', n \notin {Positive, Helper} PROVE \E f \in FileNo : n \in Lasts(f)
    <3>1. CASE n \in db
      BY <2>1, <3>1 DEF Untorn, Known
    <3>2. CASE n \in st.makes
      BY <1>1, <2>1, <3>2 DEF Lasts, Keeps
    <3> QED BY <1>2, <2>1, <3>1, <3>2
  <2>2. ASSUME Positive \in db' PROVE "investment_records" \in db'
    <3>1. CASE Positive \in db
      BY <1>2, <3>1 DEF Untorn, Known, Positive, Helper
    <3>2. CASE Positive \in st.makes
      BY <1>1, <1>2, <3>2 DEF Written, Keeps, Positive, Helper
    <3> QED BY <1>2, <2>2, <3>1, <3>2
  <2> QED BY <2>1, <2>2 DEF Known, Lasts, Keeps, FileNo
<1> QED BY <1>17, <1>18, <1>19, <1>20, <1>21, <1>22 DEF Untorn

(* What the script has left behind: the names of the files it has run.     *)
LEMMA BuiltNames ==
    ASSUME NEW k \in 0 .. 19, NEW n, n # Positive, n # Helper
    PROVE  n \in Built(k) <=> \E f \in 1 .. k : n \in Lasts(f)
<1>1. 1 .. k \subseteq FileNo
  BY DEF FileNo, Files
<1>2. \A f \in 1 .. k : \A s \in DOMAIN Files[f] : n \notin Files[f][s].drops
  BY <1>1, AllWritten DEF Written
<1>3. n \in Built(k) <=> \E f \in 1 .. k : \E s \in DOMAIN Files[f] : n \in Files[f][s].makes
  <2> DEFINE ran == UNION {{Files[f][s] : s \in DOMAIN Files[f]} : f \in 1 .. k}
             made == UNION {st.makes : st \in ran}
             gone == UNION {st.drops : st \in ran}
  <2>1. \A st : st \in ran <=> \E f \in 1 .. k : \E s \in DOMAIN Files[f] : st = Files[f][s]
    OBVIOUS
  <2>2. Built(k) = made \ gone
    BY DEF Built
  <2> HIDE DEF ran
  <2>3. n \in made <=> \E st \in ran : n \in st.makes
    OBVIOUS
  <2>4. n \notin gone
    BY <1>2, <2>1
  <2> HIDE DEF made, gone
  <2>5. n \in Built(k) <=> \E st \in ran : n \in st.makes
    BY <2>2, <2>3, <2>4
  <2> QED BY <2>1, <2>5
<1> QED BY <1>3 DEF Lasts, Keeps

(* A schema the script left behind is made of whole files.                 *)
LEMMA LegacyKnown ==
    ASSUME NEW k \in 0 .. 19, NEW d, d \in {Built(k), Built(k) \ {Positive}}
    PROVE  /\ \A f \in FileNo \ {15, 19} : \A s \in DOMAIN Files[f] :
                Keeps(Files[f][s]) \cap d # {} => Lasts(f) \subseteq d
           /\ \A n \in d : n \in {Positive, Helper} \/ \E f \in FileNo : n \in Lasts(f)
           /\ Positive \in d => "investment_records" \in d
<1>1. 1 .. k \subseteq FileNo
  BY DEF FileNo, Files
<1>2. \A n : n # Positive /\ n # Helper => (n \in d <=> \E f \in 1 .. k : n \in Lasts(f))
  BY BuiltNames
<1>3. ASSUME NEW f \in FileNo, f \notin {15, 19}, NEW s \in DOMAIN Files[f],
             NEW n \in Keeps(Files[f][s]), n \in d
      PROVE  Lasts(f) \subseteq d
  <2>1. n # NonNegative /\ n # Positive /\ n # Helper
    BY <1>3, AllWritten DEF Written, Keeps
  <2>2. PICK g \in 1 .. k : n \in Lasts(g)
    BY <1>2, <1>3, <2>1
  <2>3. PICK t \in DOMAIN Files[g] : n \in Keeps(Files[g][t])
    BY <2>2 DEF Lasts
  <2>4. f = g
    BY <1>1, <1>3, <2>1, <2>3, OneMaker
  <2>5. \A m \in Lasts(f) : m # Positive /\ m # Helper
    BY DEF Lasts, Keeps
  <2> QED BY <1>2, <2>4, <2>5
<1>4. Positive \in d => "investment_records" \in d
  <2> SUFFICES ASSUME Positive \in Built(k) PROVE "investment_records" \in d
    OBVIOUS
  <2> DEFINE ran == UNION {{Files[f][s] : s \in DOMAIN Files[f]} : f \in 1 .. k}
  <2>1. \A st : st \in ran <=> \E f \in 1 .. k : \E s \in DOMAIN Files[f] : st = Files[f][s]
    OBVIOUS
  <2>2. Built(k) = (UNION {st.makes : st \in ran}) \ (UNION {st.drops : st \in ran})
    BY DEF Built
  <2> HIDE DEF ran
  <2>3. PICK st \in ran : Positive \in st.makes
    BY <2>2
  <2>4. PICK f \in 1 .. k : \E s \in DOMAIN Files[f] : st = Files[f][s]
    BY <2>1
  <2>5. PICK s \in DOMAIN Files[f] : Positive \in Files[f][s].makes
    BY <2>3, <2>4
  <2>6. "investment_records" \in Keeps(Files[f][s])
    BY <1>1, <2>5, AllWritten DEF Written, Keeps, Positive, Helper
  <2> QED BY <1>2, <2>6 DEF Lasts, Keeps
<1> QED BY <1>1, <1>2, <1>3, <1>4

(* It holds at first ...                                                   *)
LEMMA UntornAtFirst == ASSUME Init PROVE Untorn
<1>1. PICK k \in 0 .. 19 : db \in {Built(k), Built(k) \ {Positive}}
  BY DEF Init, Legacy, Files
<1>2. \A p \in Processes : At(p) = "down"
  BY DEF Init, At
<1>3. \A p \in Processes : Behind(p) /\ Ahead(p)
  BY <1>2 DEF Behind, Ahead, Past
<1>4. Alone
  BY <1>2 DEF Alone, Past
<1>5. Passed
  BY <1>2 DEF Passed, Init
<1>6. Begun /\ Known
  BY <1>1, LegacyKnown DEF Begun, Known, Ran
<1> QED BY <1>3, <1>4, <1>5, <1>6 DEF Untorn

(* ... when a pod takes a statement for applied: its name was there, and   *)
(* so is the rest of its file or somebody who is making it ...             *)
LEMMA SkipUntorn ==
    ASSUME Untorn, Standing, OrderInv, OrderInv', NEW p \in Processes, Skip(p)
    PROVE  Untorn'
<1> DEFINE f0 == proc[p].file
           s0 == proc[p].stmt
           st == Files[f0][s0]
<1>1. At(p) = "run" /\ p # Script /\ Errno(st, db) \in AlreadyApplied /\ Executed(p) /\ UNCHANGED <<db, marked>>
  BY DEF Skip, Tolerates, ErrnoFor, Current
<1>2. f0 \in FileNo /\ s0 \in DOMAIN Files[f0] /\ Written(f0, s0, st)
  BY AllWritten DEF Standing, Placed
<1> HIDE DEF st
<1>3. \/ st.clash # 0 /\ st.clash \in AlreadyApplied /\ st.makes \cap db # {}
      \/ st.lacks \in AlreadyApplied /\ ~ (st.needs \subseteq db)
  <2>1. 0 \notin AlreadyApplied
    BY DEF AlreadyApplied
  <2> QED BY <1>1, <2>1 DEF Errno
<1>4. Applied(f0) /\ \A f \in FileNo : ~ Past(p, f)
  <2>1. CASE st.clash # 0 /\ st.clash \in AlreadyApplied /\ st.makes \cap db # {}
    <3>1. f0 \notin {15, 19}
      BY <1>2, <2>1 DEF Written
    <3>2. Keeps(st) \cap db # {}
      <4>1. PICK n \in st.makes : n \in db
        BY <2>1
      <4>2. n # Helper
        BY <1>2, <3>1 DEF Written
      <4>3. n = Positive => "investment_records" \in Keeps(st) \cap db
        BY <1>2, <4>1 DEF Written, Keeps, Untorn, Known, Positive, Helper
      <4> QED BY <4>1, <4>2, <4>3 DEF Keeps
    <3>3. Ran(f0)
      BY <1>2, <2>1, <3>1, <3>2 DEF Untorn, Begun, st
    <3>4. ASSUME NEW f \in FileNo, Past(p, f) PROVE FALSE
      <4>1. f = f0 /\ Ahead(p) /\ s0 >= proc[p].stmt
        BY <1>2, <3>4 DEF Past, Untorn, Written
      <4> QED BY <1>2, <2>1, <3>4, <4>1 DEF Ahead, st
    <3> QED BY <3>1, <3>3, <3>4 DEF Applied
  <2>2. CASE st.lacks \in AlreadyApplied /\ ~ (st.needs \subseteq db)
    <3>1. f0 = 15 /\ s0 = 1
      BY <1>2, <2>2 DEF Written
    <3>2. Positive \notin db
      BY <2>2, <3>1, Relaxing DEF st
    <3>3. "investment_records" \in db
      <4>1. p \in Pods /\ 3 \in marked
        BY <1>1, <3>1, Recording DEF Processes, OrderInv, InOrder, Before
      <4>2. Ran(3)
        BY <4>1 DEF Untorn, Passed, Applied
      <4>3. CASE Lasts(3) \subseteq db
        BY <4>3, Recording DEF Lasts
      <4>4. ASSUME NEW q \in Processes, Past(q, 3) PROVE Keeps(Files[3][1]) \subseteq db
        <5>1. PICK s \in {1, 2} : s < proc[q].stmt
          BY <4>4, Recording DEF Past
        <5>2. 1 < proc[q].stmt /\ 1 \in DOMAIN Files[3]
          BY <4>4, <5>1, Recording DEF Past, Standing, Placed
        <5> QED BY <4>4, <5>2 DEF Untorn, Behind, Past
      <4> QED BY <4>2, <4>3, <4>4, Recording DEF Ran
    <3> QED BY <3>1, <3>2, <3>3 DEF Applied, Relaxed, Past
  <2> QED BY <1>3, <2>1, <2>2
<1>5. /\ \A q \in Processes : q # p => proc'[q] = proc[q]
      /\ At(p)' = "mark" /\ proc'[p].file = f0
  BY <1>1 DEF Executed, OrderInv, InOrder, At
<1>6. \A f \in marked' : Applied(f)
  BY <1>1 DEF Untorn, Passed
<1> QED BY <1>1, <1>4, <1>5, <1>6, MoveUntorn

(* ... when a process stops in a file it may start again ...               *)
LEMMA StopUntorn ==
    ASSUME Untorn, Standing, OrderInv, OrderInv', NEW p \in Processes, Stop(p), UNCHANGED <<db, marked>>, ~ torn'
    PROVE  Untorn'
<1>1. \A f \in FileNo : Past(p, f) => Lasts(f) \subseteq db
  <2> SUFFICES ASSUME NEW f \in FileNo, Past(p, f) PROVE Lasts(f) \subseteq db
    OBVIOUS
  <2>1. PICK s \in DOMAIN Files[f] : s < proc[p].stmt /\ Files[f][s].clash # 0
    BY DEF Past
  <2>2. proc[p].stmt > 1 /\ At(p) = "run" /\ proc[p].file = f /\ f \notin {15, 19}
    BY <2>1, AllWritten DEF Past, Written, Standing, Placed
  <2>3. f \notin Unrepeatable
    BY <2>2 DEF Stop, Inside
  <2>4. Keeps(Files[f][s]) \subseteq db
    BY <2>1, <2>2 DEF Untorn, Behind
  <2> QED BY <2>1, <2>2, <2>3, <2>4, Repeatable
<1>2. /\ \A q \in Processes : q # p => proc'[q] = proc[q]
      /\ At(p)' \in {"failed", "down"}
  BY DEF Stop, OrderInv, InOrder, At
<1>3. \A f \in marked' : Applied(f)
  BY DEF Untorn, Passed
<1> QED BY <1>1, <1>2, <1>3, MoveUntorn

(* ... and at every other step.                                            *)
LEMMA StepUntorn ==
    ASSUME Untorn, Standing, OrderInv, OrderInv', NEW p \in Processes, ~ torn',
           Step(p) \/ Crash(p) \/ Redeploy(p)
    PROVE  Untorn'
<1>1. CASE Start(p)
  <2>1. PICK known : MoveTo(p, 1, known)
    BY <1>1 DEF Start
  <2>2. At(p) = "down" /\ UNCHANGED <<db, marked>>
    BY <1>1 DEF Start
  <2>3. \A f \in FileNo : ~ Past(p, f)
    BY <2>2 DEF Past
  <2>4. \A f \in marked' : Applied(f)
    BY <2>2 DEF Untorn, Passed
  <2> QED BY <2>1, <2>2, <2>3, <2>4, MoveShape, MoveUntorn
<1>2. CASE Succeed(p)
  BY <1>2, SucceedUntorn
<1>3. CASE Skip(p)
  BY <1>3, SkipUntorn
<1>4. CASE Throw(p) \/ Crash(p)
  BY <1>4, StopUntorn DEF Throw, Crash
<1>5. CASE Mark(p)
  <2>1. At(p) = "mark" /\ UNCHANGED db
    BY <1>5 DEF Mark
  <2>2. CASE proc[p].file \in marked
    BY <1>5, <2>1, <2>2, StopUntorn DEF Mark
  <2>3. CASE proc[p].file \notin marked
    <3>1. PICK f, known : MoveTo(p, f, known) /\ marked' = marked \cup {proc[p].file}
      BY <1>5, <2>3 DEF Mark
    <3>2. \A g \in FileNo : ~ Past(p, g)
      BY <2>1 DEF Past
    <3>3. \A g \in marked' : Applied(g)
      BY <2>1, <3>1 DEF Untorn, Passed
    <3> QED BY <2>1, <3>1, <3>2, <3>3, MoveShape, MoveUntorn
  <2> QED BY <2>2, <2>3
<1>6. CASE Redeploy(p)
  <2>1. At(p) # "run" /\ UNCHANGED <<db, marked>>
    BY <1>6 DEF Redeploy
  <2>2. /\ \A q \in Processes : q # p => proc'[q] = proc[q]
        /\ At(p)' = "down"
    BY <1>6 DEF Redeploy, OrderInv, InOrder, At
  <2>3. \A f \in FileNo : ~ Past(p, f)
    BY <2>1 DEF Past
  <2>4. \A f \in marked' : Applied(f)
    BY <2>1 DEF Untorn, Passed
  <2> QED BY <2>1, <2>2, <2>3, <2>4, MoveUntorn
<1> QED BY <1>1, <1>2, <1>3, <1>4, <1>5, <1>6 DEF Step

(* At rest, the first pod to serve has every file recorded.                *)
LEMMA RestIsWhole ==
    ASSUME Untorn, OrderInv
    PROVE  (/\ \E p \in Pods : At(p) = "done"
            /\ \A p \in Processes : At(p) \notin {"run", "mark"}) => db \ {Helper} = Whole
<1> SUFFICES ASSUME NEW o \in Pods, At(o) = "done", \A p \in Processes : At(p) \notin {"run", "mark"}
             PROVE  db \ {Helper} = Whole
  OBVIOUS
<1>1. \A f \in FileNo : Applied(f)
  BY DEF OrderInv, InOrder, Processes, Untorn, Passed
<1>2. \A f \in FileNo \ {15} : Lasts(f) \subseteq db
  BY <1>1 DEF Applied, Ran, Past
<1>3. Positive \notin db /\ Lasts(15) \subseteq db
  <2>1. Relaxed
    BY <1>1, Relaxing DEF Applied
  <2>2. NonNegative \in Lasts(19)
    BY Ensuring DEF Lasts, Keeps, NonNegative, Positive, Helper
  <2>3. Lasts(15) \subseteq {NonNegative}
    BY Relaxing DEF Lasts, Keeps
  <2> QED BY <1>2, <2>1, <2>2, <2>3, Ensuring DEF Relaxed
<1>4. FileNo = 1 .. 19 /\ Len(Files) = 19 /\ 19 \in 0 .. 19
  BY DEF FileNo, Files
<1>5. \A n : n # Positive /\ n # Helper => (n \in Whole <=> \E f \in FileNo : n \in Lasts(f))
  BY <1>4, BuiltNames DEF Whole
<1>6. Positive \notin Whole /\ Helper \notin Whole
  <2> DEFINE ran == UNION {{Files[f][s] : s \in DOMAIN Files[f]} : f \in 1 .. 19}
             made == UNION {st.makes : st \in ran}
             gone == UNION {st.drops : st \in ran}
  <2>1. \A f \in FileNo : \A s \in DOMAIN Files[f] : Files[f][s] \in ran
    BY <1>4
  <2>2. Whole = made \ gone
    BY <1>4 DEF Whole, Built
  <2> HIDE DEF ran
  <2>3. \A f \in FileNo : \A s \in DOMAIN Files[f] : Files[f][s].drops \subseteq gone
    BY <2>1
  <2> HIDE DEF made, gone
  <2>4. Whole \cap Files[15][1].drops = {} /\ Whole \cap Files[19][1].drops = {}
    BY <2>2, <2>3, Relaxing, Ensuring
  <2> QED BY <2>4, Relaxing, Ensuring
<1>7. \A n \in db : n # Helper => n \in Whole
  BY <1>3, <1>5 DEF Untorn, Known
<1>8. \A n \in Whole : n \in db /\ n # Helper
  BY <1>2, <1>3, <1>5, <1>6
<1> QED BY <1>7, <1>8

(* However many pods and whether or not the script run beside them,        *)
(* overtake each other, fail and crash, the schema that a pod serves when  *)
(* none of them is in a file has all that the nineteen files make and      *)
(* nothing else, unless a process stopped inside a file that creates       *)
(* plainly, or rows were left out for want of what they refer to: what the *)
(* tolerated errors (app-migrations.ts, schema.errors.ts) skip was there.  *)
THEOREM ServedSchemaIsWhole == Spec => []ServedIsWhole
<1> DEFINE Inv == torn \/ Untorn
<1>1. Init => Inv
  BY UntornAtFirst
<1>2. TypeOK /\ OrderInv /\ OrderInv' /\ Inv /\ [Next]_vars => Inv'
  <2> SUFFICES ASSUME TypeOK, OrderInv, OrderInv', Inv, [Next]_vars, ~ torn' PROVE Untorn'
    OBVIOUS
  <2>1. Standing
    BY DEF TypeOK, Standing, Placed
  <2>2. ~ torn
    BY DEF Next, Step, Start, Succeed, Skip, Throw, Mark, Crash, Redeploy, Stop, vars
  <2>3. CASE UNCHANGED vars
    <3>1. UNCHANGED <<db, marked, proc>> /\ Untorn
      BY <2>2, <2>3 DEF vars
    <3>2. \A p, f : Past(p, f) <=> Past(p, f)'
      BY <3>1 DEF Past, At
    <3>3. \A f : Ran(f) => Ran(f)'
      BY <3>1, <3>2 DEF Ran
    <3>4. (Relaxed => Relaxed') /\ \A f : Applied(f) => Applied(f)'
      BY <3>1, <3>3 DEF Relaxed, Applied
    <3>5. \A p \in Processes : Behind(p)' /\ Ahead(p)'
      <4> SUFFICES ASSUME NEW p \in Processes PROVE Behind(p)' /\ Ahead(p)'
        OBVIOUS
      <4>1. Behind(p) /\ Ahead(p)
        BY <3>1 DEF Untorn
      <4>2. Behind(p)'
        BY <3>1, <3>4, <4>1 DEF Behind, At
      <4>3. Ahead(p)'
        BY <3>1, <3>2, <4>1 DEF Ahead
      <4> QED BY <4>2, <4>3
    <3>6. Alone'
      BY <3>1, <3>2 DEF Untorn, Alone
    <3>7. Begun'
      BY <3>1, <3>3 DEF Untorn, Begun
    <3>8. Passed'
      BY <3>1, <3>4 DEF Untorn, Passed, At
    <3>9. Known'
      BY <3>1 DEF Untorn, Known
    <3> QED BY <3>5, <3>6, <3>7, <3>8, <3>9 DEF Untorn
  <2> QED BY <2>1, <2>2, <2>3, StepUntorn DEF Next
<1>3. Inv /\ OrderInv => ServedIsWhole
  BY RestIsWhole DEF ServedIsWhole
<1> QED BY <1>1, <1>2, <1>3, MigrationTypes, AlwaysInOrder, PTL DEF Spec
=============================================================================
