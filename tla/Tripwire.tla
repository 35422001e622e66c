------------------------------ MODULE Tripwire ------------------------------
(***************************************************************************)
(* The modes of tripwire (src/tripwire/twcmdline.cpp) over the files they  *)
(* leave behind: a database is made, checked against the file system,      *)
(* brought up to date by reports that may be old, or put under a new       *)
(* policy.  A mode works on its own copy of the database and then writes   *)
(* it in place, a copy of the old file first (cFileUtil::BackupFile); it   *)
(* may die at any moment.  One run of the program at a time; a check sees  *)
(* the file system at one moment.                                          *)
(***************************************************************************)
EXTENDS Baseline

CONSTANTS
  FCOName,     \* names of objects, closed under prefixes
  Property,    \* the properties objects have
  Value,       \* what a property can be
  Policy,      \* the policies
  InitialFs,   \* the file systems there may be to begin with
  Missing,     \* there is no such file
  Broken,      \* a file that was not written to its end
  NoJob,       \* no mode is writing
  MaxReports,  \* bound: the reports that are kept
  MaxChanges   \* bound: the changes of the file system

ASSUME BoundIsNumber == MaxChanges \in Nat
ASSUME FiniteNames == IsFiniteSet(FCOName)
ASSUME NamesArePaths ==
  \A n \in FCOName : n \in Seq(ToSet(n)) /\ Parents(n) \subseteq FCOName

\* No name is empty: "/" is one empty part (fconame.cpp:248).
ASSUME NoNameIsEmpty == << >> \notin FCOName

\* What the policy parser makes: rules about properties there are, each with
\* stop points below its start (SetStartPoint refuses others); no object is
\* in two rules.
ASSUME RulesAreRules ==
  \A policy \in Policy : \A i \in DOMAIN policy :
    /\ policy[i] \in [spec : {policy[i].spec}, mask : SUBSET Property]
    /\ policy[i].spec.start \in FCOName
    /\ \A p \in policy[i].spec.stops : p \in FCOName /\ Below(p, policy[i].spec.start)
ASSUME PoliciesAreDisjoint ==
  \A policy \in Policy : \A n \in FCOName : \A i, j \in RuleOf(policy, n) : i = j

\* What is there to be looked at, with the directories it is in, and what is
\* kept of it.
Object       == [Property -> Value]
FileSystem   == {files \in UNION {[S -> Object] : S \in SUBSET FCOName} :
                   \A n \in DOMAIN files : Parents(n) \subseteq DOMAIN files}
StoredObject == UNION {[P -> Value] : P \in SUBSET Property}
Tree         == UNION {[S -> StoredObject] : S \in SUBSET FCOName}

ASSUME InitialFsAreFs == InitialFs \subseteq FileSystem

VARIABLES
  fs,       \* the file system, by name
  changes,  \* how often it was changed
  disk,     \* the policy file and the database file
  bak,      \* their backups
  reports,  \* the report files, with what was seen by the check
  job       \* what the running mode is going to write

vars == <<fs, changes, disk, bak, reports, job>>

File == {"policy", "database"}

IsRead(f) == disk[f] \notin {Missing, Broken}
Idle      == job = NoJob
Database  == disk["database"].db
DbPolicy  == disk["database"].policy

Init ==
  /\ fs \in InitialFs
  /\ changes = 0
  /\ disk = [f \in File |-> Missing]
  /\ bak = [f \in File |-> Missing]
  /\ reports = {}
  /\ job = NoJob

-----------------------------------------------------------------------------
(* Writing                                                                 *)

\* Mutant: the file is opened, and truncated, before the copy is made.
SaveOpenFirst(f) == <<<<f, "open">>, <<f, "drop">>, <<f, "copy">>, <<f, "write">>>>

\* BackupFile removes the old backup, then copies; WriteObject opens the file,
\* which truncates it, and writes it.
Save(f) == <<<<f, "drop">>, <<f, "copy">>, <<f, "open">>, <<f, "write">>>>

\* What job is going to write to f.
Output(f) == IF f = "policy" THEN job.policy
             ELSE [policy |-> job.policy, db |-> job.db]

NoReport == {}
Empty    == [tree |-> << >>, ways |-> {}, dirs |-> {}]

Begin(mode, policy, db, report, high, todo) ==
  /\ job' = [mode |-> mode, policy |-> policy, db |-> db,
             report |-> report, high |-> high, todo |-> todo]
  /\ UNCHANGED <<fs, changes, disk, bak, reports>>

\* The next thing to be done to the files.  A file that is not there is not
\* copied.
SaveStep ==
  LET f == Head(job.todo)[1]
      s == Head(job.todo)[2]
  IN /\ ~Idle
     /\ bak'  = [bak EXCEPT ![f] =
                   CASE disk[f] = Missing \/ s \in {"open", "write"} -> @
                     [] disk[f] # Missing /\ s = "drop" -> Broken
                     [] disk[f] # Missing /\ s = "copy" -> disk[f]]
     /\ disk' = [disk EXCEPT ![f] = CASE s \in {"drop", "copy"} -> @
                                      [] s = "open"  -> Broken
                                      [] s = "write" -> Output(f)]
     /\ job'  = IF Len(job.todo) = 1 THEN NoJob ELSE [job EXCEPT !.todo = Tail(@)]
     /\ UNCHANGED <<fs, changes, reports>>

\* The process is killed.
Die ==
  /\ ~Idle
  /\ job' = NoJob
  /\ UNCHANGED <<fs, changes, disk, bak, reports>>

-----------------------------------------------------------------------------
(* The modes                                                               *)

\* twadmin's cTWAModeCreatePol: a policy file from its text, whatever was there.
CreatePol(policy) ==
  Idle /\ Begin("create policy", policy, Empty, NoReport, FALSE, Save("policy"))

\* cTWModeDbInit
InitDb ==
  /\ Idle /\ IsRead("policy")
  /\ LET policy == disk["policy"]
     IN Begin("init", policy, Generated(policy, fs), [fs |-> fs], FALSE,
              Save("database"))

\* cTWModeIntegrityCheck, perhaps with properties to be ignored.  VerifyPolicy
\* throws unless the database was made with the policy of the policy file.
Check(ignored) ==
  /\ Idle /\ IsRead("policy") /\ IsRead("database")
  /\ disk["policy"] = DbPolicy
  /\ Cardinality(reports) < MaxReports
  /\ reports' = reports \cup
       {[policy   |-> DbPolicy, ignored |-> ignored,
         verdicts |-> Verdicts(TrimProps(DbPolicy, ignored), Database.tree, fs, FALSE),
         fs |-> fs, tree |-> Database.tree]}
  /\ UNCHANGED <<fs, changes, disk, bak, job>>

\* cTWModeDbUpdate: the user keeps some of the verdicts.  With none there is
\* nothing to do; with conflicts and high security nothing is saved.
UpdateDb(r, kept, high) ==
  /\ Idle /\ IsRead("database")
  /\ kept # {}
  /\ ~(high /\ HasConflicts(Database.tree, kept))
  /\ Begin("update", DbPolicy, Updated(Database, kept, FALSE),
           [r EXCEPT !.verdicts = kept], high, Save("database"))

\* cTWModePolUpdate: the policy file is written before the database.
PolicyUpdate(new, high) ==
  /\ Idle /\ IsRead("database")
  /\ ~(high /\ \E v \in PolicyReport(new, Database.tree, fs) : Offends(DbPolicy, new, v))
  /\ Begin("policy update", new, PolicyUpdated(new, Database, fs), [fs |-> fs], high,
           Save("policy") \o Save("database"))

-----------------------------------------------------------------------------
(* Everybody else                                                          *)

Change(files) ==
  /\ changes < MaxChanges
  /\ changes' = changes + 1
  /\ fs' = files
  /\ UNCHANGED <<disk, bak, reports, job>>

Write(n, p, v) ==
  /\ n \in DOMAIN fs /\ fs[n][p] # v
  /\ Change([fs EXCEPT ![n][p] = v])

Create(n, o) ==
  /\ n \notin DOMAIN fs
  /\ \A m \in FCOName : Below(n, m) => m \in DOMAIN fs
  /\ Change([m \in DOMAIN fs \cup {n} |-> IF m = n THEN o ELSE fs[m]])

Unlink(n) ==
  /\ n \in DOMAIN fs
  /\ Change(Restrict(fs, {m \in DOMAIN fs : ~AtOrBelow(m, n)}))

Next ==
  \/ SaveStep \/ Die \/ InitDb
  \/ \E policy \in Policy : CreatePol(policy)
  \/ \E ignored \in SUBSET Property : Check(ignored)
  \/ \E r \in reports : \E kept \in SUBSET r.verdicts : \E high \in BOOLEAN :
       UpdateDb(r, kept, high)
  \/ \E new \in Policy, high \in BOOLEAN : PolicyUpdate(new, high)
  \/ \E n \in FCOName, p \in Property, v \in Value : Write(n, p, v)
  \/ \E n \in FCOName, o \in Object : Create(n, o)
  \/ \E n \in FCOName : Unlink(n)

Spec == Init /\ [][Next]_vars

-----------------------------------------------------------------------------
IsDatabase(d) ==
  /\ d.policy \in Policy /\ d.db.tree \in Tree
  /\ d.db.ways \subseteq FCOName \ DOMAIN d.db.tree
  /\ d.db.dirs \subseteq Entries(d.db)

\* The files hold what they are for, or less.
TypeOK ==
  /\ fs \in FileSystem
  /\ changes \in 0 .. MaxChanges
  /\ \A d \in {disk, bak} :
       /\ d["policy"] \in Policy \cup {Missing, Broken}
       /\ d["database"] \in {Missing, Broken} \/ IsDatabase(d["database"])
  /\ \A r \in reports : \A v, w \in r.verdicts : v.name = w.name => v = w
  /\ job # NoJob => IsDatabase(Output("database"))

\* man/man5/twfiles.5:92-97: a file is overwritten only when there is a
\* whole copy of it, so that wherever the program is killed one of the two
\* can be read.
CopyBeforeOverwrite ==
  [][\A f \in File : disk'[f] # disk[f] /\ IsRead(f) => bak'[f] = disk[f]]_vars

\* A mode has written its database; the old one is the backup.
Rebuilt(mode) ==
  /\ disk["database"] = Broken /\ disk'["database"] # Broken
  /\ job.mode = mode
Old  == bak["database"]
New  == disk["database"]
Left(r, tree) == Verdicts(TrimProps(r.policy, r.ignored), tree, r.fs, FALSE)

\* After an update from a report of this database, a check of what the
\* report saw would report what the user did not keep, and nothing else;
\* ignored properties stay ignored, and are not lost.
UpdateSettles ==
  [][Rebuilt("update") /\ job.report.tree = Old.db.tree /\ job.report.policy = Old.policy
     => /\ Left(job.report, New'.db.tree) = Left(job.report, Old.db.tree) \ job.report.verdicts
        /\ \A n \in DOMAIN Old.db.tree \cap DOMAIN New'.db.tree :
             /\ DOMAIN Old.db.tree[n] \subseteq DOMAIN New'.db.tree[n]
             /\ \A p \in job.report.ignored \cap DOMAIN Old.db.tree[n] :
                  New'.db.tree[n][p] = Old.db.tree[n][p]]_vars

\* The database is as the verdict found it, what removals hold aside.
AsSeen(v, tree) ==
  CASE v.kind = "added"   -> v.name \notin DOMAIN tree
    [] v.kind = "removed" -> v.name \in DOMAIN tree
    [] v.kind = "changed" ->
         /\ v.name \in DOMAIN tree /\ DOMAIN v.old \subseteq DOMAIN tree[v.name]
         /\ \A p \in DOMAIN v.old : v.old[p] = tree[v.name][p]

\* Whatever became of the database since the report, an update changes an
\* object only where it is as the report has it; in high security mode
\* all the objects the user kept are.
OnlySeenIsChanged ==
  [][Rebuilt("update") =>
       /\ \A n \in FCOName :
            \/ n \notin DOMAIN Old.db.tree /\ n \notin DOMAIN New'.db.tree
            \/ n \in DOMAIN Old.db.tree \cap DOMAIN New'.db.tree /\ Old.db.tree[n] = New'.db.tree[n]
            \/ \E v \in job.report.verdicts : v.name = n /\ AsSeen(v, Old.db.tree)
       /\ job.high => \A v \in job.report.verdicts : AsSeen(v, Old.db.tree)]_vars

\* A new database, or one put under a new policy, is what a check of the
\* same file system finds nothing wrong with, in low security mode too.
BaselineSettles ==
  [][Rebuilt("init") \/ Rebuilt("policy update") =>
       Verdicts(New'.policy, New'.db.tree, job.report.fs, FALSE) = {}]_vars

\* man/man8/tripwire.8:515-518, "this consistency-checking ensures that no
\* substantive filesystem changes have occurred since the last integrity
\* check": in high security mode no difference in what the rules of both
\* policies come to becomes part of the new database.
PolicyUpdateHidesNothing ==
  [][Rebuilt("policy update") /\ job.high =>
       \A n \in FCOName :
         RuleOf(Old.policy, n) # {} /\ RuleOf(New'.policy, n) # {} =>
           /\ n \in DOMAIN job.report.fs <=> n \in DOMAIN Old.db.tree
           /\ n \in DOMAIN Old.db.tree =>
                \A p \in DOMAIN Old.db.tree[n] \cap DOMAIN New'.db.tree[n] :
                  Old.db.tree[n][p] = New'.db.tree[n][p]]_vars

\* The database has no object and no property its policy is not about.
Fits(d) ==
  \A n \in DOMAIN d.db.tree :
    \E i \in DOMAIN d.policy :
      /\ ContainsFCO(d.policy[i].spec, n)
      /\ DOMAIN d.db.tree[n] \subseteq d.policy[i].mask

\* No entry is a dead end: one without data leads to an object.
LeadsOn(db) == \A n \in db.ways : \E m \in DOMAIN db.tree : Below(m, n)

\* Nor is any child array empty, or missing.
Tidy(db) ==
  LeadsOn(db) /\ db.dirs = {n \in FCOName : \E m \in Entries(db) : Below(m, n)}

\* Every mode leaves such a database, updates if the report was made under
\* the policy of the database: a report made under another policy may not.
\* None leaves dead ends, as policyupdate.cpp:111 and tripwireutil.cpp:119
\* have it, but an update of a database in which a policy update had left an
\* object its empty child array.
FitsPolicy ==
  /\ [][Rebuilt("init") \/ Rebuilt("policy update")
        \/ (Rebuilt("update") /\ Fits(Old) /\ job.report.policy = Old.policy)
        => Fits(New')]_vars
  /\ [][/\ Rebuilt("init") => Tidy(New'.db)
        /\ Rebuilt("policy update") => LeadsOn(New'.db)
        /\ Rebuilt("update") /\ Tidy(Old.db) => Tidy(New'.db)]_vars
=============================================================================
