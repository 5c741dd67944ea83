----------------------------- MODULE Migrations -----------------------------
(***************************************************************************)
(* The migrations at start-up (MigrationService.onModuleInit), in every    *)
(* pod of the API, and apply-migrations.sh, which the deployment starts    *)
(* once the containers are up.  Both send the same files, a statement at a *)
(* time as far as anyone else can see; only the service records the files  *)
(* it has run, and only the service survives its errors: it is restarted.  *)
(***************************************************************************)
EXTENDS Schema, FiniteSets

CONSTANTS Pods, Script, MaxCrashes

ASSUME MigrationsAssumption == Script \notin Pods /\ MaxCrashes \in Nat

VARIABLES
    db,       \* the names that exist
    marked,   \* schema_migrations
    proc,     \* where each process is: file, next statement, marks it knows
    torn,     \* has a file lost a part of what it makes?
    crashes

vars == <<db, marked, proc, torn, crashes>>

Processes == Pods \cup {Script}
FileNo == 1 .. Len(Files)
At(p) == proc[p].at
Current(p) == Files[proc[p].file][proc[p].stmt]

(* Rerun after a part of it ran, these files fail at their first CREATE or *)
(* INDEX with an error that passes for "already applied".                  *)
Unrepeatable == {1, 2, 3, 4, 7, 8, 9, 13}
Inside(p) == At(p) = "run" /\ proc[p].file \in Unrepeatable /\ proc[p].stmt > 1

(* Databases the script has brought up to file k before the service came.  *)
(* One of them, staging's, never had the positive check.                   *)
Legacy == {Built(k) : k \in 0 .. Len(Files) - 1} \cup {Built(14) \ {Positive}}

Init ==
    /\ db \in Legacy /\ marked = {} /\ torn = FALSE /\ crashes = 0
    /\ proc = [p \in Processes |-> [at |-> "down", file |-> 1, stmt |-> 1, knows |-> {}]]

(* The next file a process has not seen marked, from file f on.            *)
MoveTo(p, f, known) ==
    LET left == {g \in FileNo : g >= f /\ g \notin known} IN
    proc' = [proc EXCEPT ![p] = IF left = {} THEN [@ EXCEPT !.at = "done"]
        ELSE [at |-> "run", stmt |-> 1, knows |-> known,
              file |-> CHOOSE g \in left : \A h \in left : g <= h]]

(* CREATE TABLE IF NOT EXISTS schema_migrations, readdir, SELECT; the      *)
(* script knows of no marks.                                               *)
Start(p) ==
    /\ At(p) = "down"
    /\ MoveTo(p, 1, IF p = Script THEN {} ELSE marked)
    /\ UNCHANGED <<db, marked, torn, crashes>>

Stop(p) ==
    /\ proc' = [proc EXCEPT ![p].at = IF p = Script THEN "failed" ELSE "down"]
    /\ torn' = (torn \/ Inside(p))

(* Mutant: the script records the files it has run. *)
ExecutedByAll(p) == proc' = [proc EXCEPT ![p].at = "mark"]

(* The batch went through, or failed in a way that counts as applied.      *)
Executed(p) ==
    IF p = Script THEN MoveTo(p, proc[p].file + 1, {})
    ELSE proc' = [proc EXCEPT ![p].at = "mark"]

(* Mutant: a missing table passes for one that is there. *)
AlreadyAppliedOrMissing == {1050, 1060, 1061, 1091, 3940, 1146}

(* Mutant: the check that 0015 drops has to be there. *)
AlreadyAppliedNarrow == {1050, 1060, 1061, 1091}

(* ALREADY_APPLIED_ERRNO.                                                  *)
AlreadyApplied == {1050, 1060, 1061, 1091, 3940}
Tolerates(p) == IF p = Script THEN {} ELSE AlreadyApplied
(* The mysql client cuts the body of a procedure at its first semicolon.   *)
ErrnoFor(p, s) == IF p = Script /\ s = CreateProcedure(Helper) THEN 1064 ELSE Errno(s, db)

Succeed(p) ==
    /\ At(p) = "run" /\ ErrnoFor(p, Current(p)) = 0
    /\ db' = After(Current(p), db)
    /\ torn' = (torn \/ ~ Current(p).given \subseteq db)
    /\ IF proc[p].stmt < Len(Files[proc[p].file])
       THEN proc' = [proc EXCEPT ![p].stmt = @ + 1]
       ELSE Executed(p)
    /\ UNCHANGED <<marked, crashes>>

(* Mutant: a file that counts as applied is not recorded. *)
SkipUnmarked(p) ==
    /\ At(p) = "run" /\ ErrnoFor(p, Current(p)) \in Tolerates(p)
    /\ MoveTo(p, proc[p].file + 1, proc[p].knows) /\ UNCHANGED <<db, marked, torn, crashes>>

Skip(p) ==
    /\ At(p) = "run" /\ ErrnoFor(p, Current(p)) \in Tolerates(p)
    /\ Executed(p) /\ UNCHANGED <<db, marked, torn, crashes>>

Throw(p) ==
    /\ At(p) = "run" /\ ErrnoFor(p, Current(p)) \notin Tolerates(p) \cup {0}
    /\ Stop(p) /\ UNCHANGED <<db, marked, crashes>>

(* INSERT INTO schema_migrations; a mark that is there already throws.     *)
Mark(p) ==
    /\ At(p) = "mark"
    /\ IF proc[p].file \in marked THEN Stop(p) /\ UNCHANGED marked
       ELSE /\ marked' = marked \cup {proc[p].file}
            /\ MoveTo(p, proc[p].file + 1, proc[p].knows) /\ UNCHANGED torn
    /\ UNCHANGED <<db, crashes>>

(* The process or its connection dies between two statements.              *)
Crash(p) ==
    /\ crashes < MaxCrashes /\ At(p) \in {"run", "mark"} /\ Stop(p)
    /\ crashes' = crashes + 1 /\ UNCHANGED <<db, marked>>

(* The next deployment, or a restart of a pod that serves.                 *)
Redeploy(p) ==
    /\ At(p) \in {"done", "failed"}
    /\ proc' = [proc EXCEPT ![p].at = "down"] /\ UNCHANGED <<db, marked, torn, crashes>>

Step(p) == Start(p) \/ Succeed(p) \/ Skip(p) \/ Throw(p) \/ Mark(p)
Next == \E p \in Processes : Step(p) \/ Crash(p) \/ Redeploy(p)

(* A container that exits is started again (restart: unless-stopped), and  *)
(* a script that was started goes on.                                      *)
Fairness == /\ \A p \in Pods : WF_vars(Step(p))
            /\ WF_vars(At(Script) # "down" /\ Step(Script))

Spec == Init /\ [][Next]_vars /\ Fairness

-----------------------------------------------------------------------------
(* Marks, positions and snapshots name files and statements there are.     *)
TypeOK ==
    /\ marked \subseteq FileNo /\ torn \in BOOLEAN /\ crashes \in 0 .. MaxCrashes
    /\ \A p \in Processes :
         /\ At(p) \in {"down", "run", "mark", "done", "failed"}
         /\ At(p) = "mark" => p # Script
         /\ proc[p].knows \subseteq marked
         /\ proc[p].file \in FileNo /\ proc[p].stmt \in DOMAIN Files[proc[p].file]

(* Whoever marks files, in whatever order pods start, fail and overtake    *)
(* one another, no file is marked before the files that sort before it,    *)
(* and a pod that serves has every file marked.                            *)
MarkedInOrder ==
    /\ \A f \in marked : 1 .. f \subseteq marked
    /\ \A p \in Pods : At(p) = "done" => marked = FileNo

(* A schema that some pod serves is the whole schema, from whatever file   *)
(* the script had left it at, however pods and scripts overtake each other *)
(* and crash, unless one of them stopped inside a file that creates things *)
(* plainly, or overtook another so far that INSERT IGNORE left rows out:   *)
(* every other interruption and every rerun repairs itself.                *)
ServedIsWhole ==
    /\ \E p \in Pods : At(p) = "done"
    /\ \A p \in Processes : At(p) \notin {"run", "mark"}
    => torn \/ db \ {Helper} = Whole

(* Until that happens a pod never stays in its restart loop: whatever the  *)
(* script does beside it, and after every deployment, it serves again.     *)
ServesUnlessTorn == \A p \in Pods : []<>(torn \/ At(p) = "done")

(* "The DDL in this file already exists in the DB": what a marked file     *)
(* makes is there once nothing runs any more.                              *)
AppliedIsPresent ==
    /\ marked = FileNo
    /\ \A p \in Processes : At(p) \notin {"run", "mark"}
    => Whole \subseteq db
=============================================================================
