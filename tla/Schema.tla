------------------------------- MODULE Schema -------------------------------
(***************************************************************************)
(* The nineteen migration files, statement by statement, as far as running *)
(* one twice, or part of one, can tell: the table, index, column,          *)
(* constraint or seed a statement makes or drops, what it needs, and the   *)
(* error MySQL answers with.  A schema is the set of names that exist.     *)
(***************************************************************************)
EXTENDS Integers, Sequences

Nothing == [makes |-> {}, clash |-> 0, needs |-> {}, lacks |-> 1146, given |-> {}, drops |-> {}]

Create(t, refs) == [Nothing EXCEPT !.makes = {t}, !.clash = 1050, !.needs = refs, !.lacks = 1824]
Column(t, c)    == [Nothing EXCEPT !.makes = {c}, !.clash = 1060, !.needs = {t}]
Index(t, i)     == [Nothing EXCEPT !.makes = {i}, !.clash = 1061, !.needs = {t}]
ForeignKey(t, k, ref) == [Nothing EXCEPT !.makes = {k}, !.clash = 1826, !.needs = {t, ref}]
AddCheck(t, k)  == [Nothing EXCEPT !.makes = {k}, !.clash = 3822, !.needs = {t}]
DropCheck(k)    == [Nothing EXCEPT !.drops = {k}, !.needs = {k}, !.lacks = 3940]
Insert(t, r)    == [Nothing EXCEPT !.makes = {r}, !.clash = 1062, !.needs = {t}]
(* INSERT IGNORE leaves out, without an error, the rows whose parents are  *)
(* not there; MODIFY gives the same result however often it runs.          *)
InsertNew(t, r, parents) == [Nothing EXCEPT !.makes = {r}, !.needs = {t}, !.given = parents]
Modify(t, c)    == [Nothing EXCEPT !.makes = {c}, !.needs = {t}]
Touch(t)        == [Nothing EXCEPT !.needs = {t}]
CreateProcedure(p) == [Nothing EXCEPT !.makes = {p}, !.clash = 1304]
DropProcedure(p)   == [Nothing EXCEPT !.drops = {p}]
Call(p, t, k)   == [Nothing EXCEPT !.makes = {k}, !.needs = {p, t}, !.lacks = 1305]

(* The error number of a statement, 0 when it succeeds, and its effect.    *)
Errno(s, db) == CASE s.clash # 0 /\ s.makes \cap db # {} -> s.clash
                  [] OTHER -> IF s.needs \subseteq db THEN 0 ELSE s.lacks
After(s, db) == IF s.given \subseteq db THEN (db \cup s.makes) \ s.drops ELSE db

-----------------------------------------------------------------------------
Positive == "chk_amount_positive"
NonNegative == "chk_amount_non_negative"
Helper == "wt_add_non_negative_constraint"

F0001 == <<Create("roles", {}), Create("permissions", {}),
           Create("role_permissions", {"roles", "permissions"}), Create("users", {"roles"}),
           Create("auth_sessions", {"users"}), Create("password_reset_tokens", {"users"}),
           Create("login_attempts", {"users"}),
           Insert("roles", "seeded_roles"), Insert("permissions", "seeded_permissions"),
           Insert("role_permissions", "grants")>>
F0002 == <<Create("upload_batches", {"users"}), Create("upload_batch_rows", {"upload_batches"}),
           Create("upload_validation_errors", {"upload_batches", "upload_batch_rows"})>>
Records == [Create("investment_records", {"upload_batches", "upload_batch_rows", "users"})
            EXCEPT !.makes = @ \cup {Positive}]
F0003 == <<Records, Create("idempotency_keys", {"users"})>>
F0004 == <<Create("integration_sources", {"users"}),
           Create("sync_batches", {"integration_sources", "users"}),
           Create("sync_batch_errors", {"sync_batches"}),
           ForeignKey("investment_records", "fk_sync_batch_id", "sync_batches")>>
F0005 == <<Create("report_exports", {"users"})>>
F0006 == <<Create("audit_logs", {"users"})>>
F0007 == <<Create("outbox_events", {}), Create("job_history", {})>>
F0008 == <<Create("system_settings", {"users"}), Create("tenor_bands", {"users"}),
           Create("source_channels", {"users"}),
           Insert("tenor_bands", "bands"), Insert("source_channels", "channels")>>
F0009 == <<Index("upload_validation_errors", "idx_error_code"), Index("report_exports", "idx_type_status"),
           Index("integration_sources", "idx_sync_frequency"), Index("sync_batches", "idx_started_at"),
           Index("investment_records", "idx_customer_date"), Index("investment_records", "idx_rm_date"),
           Index("investment_records", "idx_source_channel_date"),
           Index("investment_records", "idx_fund_tenor_date"),
           Index("job_history", "idx_queue_status"), Index("audit_logs", "idx_created_at")>>
F0010 == <<Touch("investment_records"), Touch("upload_batch_rows"), Touch("upload_batches"),
           Touch("sync_batch_errors"), Touch("sync_batches"), Touch("integration_sources"),
           Touch("report_exports"), Touch("audit_logs"), Touch("login_attempts"),
           Touch("auth_sessions"), Touch("users")>>
F0011 == <<InsertNew("users", "dashboard_actor", {"seeded_roles"})>>
F0012 == <<Touch("permissions"), InsertNew("roles", "more_roles", {}),
           InsertNew("role_permissions", "super_admin", {"more_roles", "seeded_permissions"}),
           InsertNew("role_permissions", "ops_manager", {"more_roles", "seeded_permissions"}),
           InsertNew("role_permissions", "compliance", {"more_roles", "seeded_permissions"}),
           InsertNew("role_permissions", "viewer", {"more_roles", "seeded_permissions"})>>
F0013 == <<Modify("integration_sources", "source_type"), Modify("investment_records", "data_source"),
           Create("google_sheet_tabs", {"integration_sources"}),
           Create("google_sheet_row_checksums", {"google_sheet_tabs"})>>
F0014 == <<Modify("upload_batches", "status_importing")>>
F0015 == <<DropCheck(Positive), AddCheck("investment_records", NonNegative)>>
F0016 == <<Column("password_reset_tokens", "purpose"), Touch("password_reset_tokens")>>
Atomic(role) == InsertNew("role_permissions", role, {"atomic_permissions", "more_roles"})
F0017 == <<InsertNew("permissions", "atomic_permissions", {}), Atomic("super_admin_atomic"),
           InsertNew("role_permissions", "analyst_atomic", {"atomic_permissions", "seeded_roles"}),
           Touch("role_permissions"), Atomic("ops_manager_atomic"), Touch("role_permissions"),
           Atomic("compliance_atomic"), Touch("role_permissions"), Atomic("viewer_atomic"),
           Touch("role_permissions"), Touch("permissions")>>
F0018 == <<Touch("permissions")>>
F0019 == <<DropProcedure(Helper), CreateProcedure(Helper),
           Call(Helper, "investment_records", NonNegative), DropProcedure(Helper)>>

(* As readdir(...).sort() lists them.                                      *)
Files == <<F0001, F0002, F0003, F0004, F0005, F0006, F0007, F0008, F0009, F0010,
           F0011, F0012, F0013, F0014, F0015, F0016, F0017, F0018, F0019>>

(* What the first k files make of an empty database, each run to its end:  *)
(* of the names they drop, none is made again behind the last drop.        *)
Built(k) ==
    LET ran == UNION {{Files[f][s] : s \in DOMAIN Files[f]} : f \in 1 .. k}
    IN (UNION {st.makes : st \in ran}) \ (UNION {st.drops : st \in ran})
Whole == Built(Len(Files))
=============================================================================
