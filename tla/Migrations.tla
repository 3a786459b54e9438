------------------------------ MODULE Migrations ------------------------------
(***************************************************************************)
(* The versioned migrations of the database schema                         *)
(* (backend/database/migrations.py, create_tables of database/core.py).    *)
(*                                                                         *)
(* The service and the command line may migrate at the same time, with the *)
(* code of different releases, and may die between any two statements:     *)
(* MySQL commits every statement of a schema at once.  An object of the    *)
(* schema is a table, or a column or index of a table.  Of the tables of   *)
(* the baseline, those that later versions change are here, with the       *)
(* columns and indexes that an old database may lack.                      *)
(***************************************************************************)
EXTENDS Integers, Sequences, Functions

CONSTANTS
    Migrators,          \* the processes that call create_tables
    Databases,          \* what there may be at first: objects, and how many versions are recorded
    Releases,           \* the code they may have: the versions it knows, those it has edited, and
                        \* whether it may apply what is pending
    MaxRuns             \* bound, of all together

VARIABLES
    schema,     \* the objects that are there
    recorded,   \* schema_migrations: versions, and whether they were edited
    release,    \* the code of each process
    migrator,   \* what each process does
    migrations  \* how many have begun

mgVars == <<schema, recorded, release, migrator, migrations>>

-----------------------------------------------------------------------------
(* The registry                                                            *)

MigrationTable == <<"schema_migrations">>
TableOf(object) == <<object[1]>>

\* Tables, required columns and required indexes
Baseline ==
    << <<"asset_cash_ledger">>, <<"asset_trade_ledger">>, <<"news_articles">>, <<"paper_trading_accounts">>,
       <<"asset_cash_ledger", "source">>, <<"paper_trading_accounts", "margin_sync_error">>,
       <<"asset_cash_ledger", "idx_linked_trade">> >>
BaselineTables == {o \in Range(Baseline) : Len(o) = 1}

AssetImportDedupe ==
    << <<"asset_trade_ledger", "import_key">>, <<"asset_trade_ledger", "uq_import_key">>,
       <<"asset_cash_ledger", "import_key">>, <<"asset_cash_ledger", "uq_import_key">> >>
AssetImportBatch ==
    << <<"asset_import_batches">>,
       <<"asset_trade_ledger", "import_batch_id">>, <<"asset_trade_ledger", "idx_import_batch">>,
       <<"asset_cash_ledger", "import_batch_id">>, <<"asset_cash_ledger", "idx_import_batch">> >>
PaperMarginResilience ==
    << <<"paper_trading_accounts", "margin_last_attempt_at">>, <<"paper_trading_accounts", "margin_last_success_at">>,
       <<"paper_trading_accounts", "margin_last_error">>, <<"paper_trading_accounts", "margin_error_category">>,
       <<"paper_trading_accounts", "margin_next_retry_at">> >>
StorageLifecycle ==
    << <<"taiwan_chip_branch_archives">>, <<"sync_log_daily_summary">>, <<"market_payload_archives">>,
       <<"storage_maintenance_runs">>,
       <<"news_articles", "canonical_url_hash">>, <<"news_articles", "provider_id">>,
       <<"news_articles", "uq_ticker_canonical">>, <<"news_articles", "idx_source_provider">> >>

Additions == <<AssetImportDedupe, AssetImportBatch, PaperMarginResilience, StorageLifecycle>>
Versions == 1..Len(Additions) + 1

\* What a version adds, in its order, the table of the versions before them all
Registry(v) ==
    CASE v = 0 -> <<MigrationTable>>
      [] v = 1 -> Baseline
      [] OTHER -> Additions[v - 1]
\* What a version leaves behind
Objects(v) == Range(Registry(v))

\* A column comes after one that must be there, and an index is of one
Follows ==
    [import_key |-> "source", uq_import_key |-> "import_key", import_batch_id |-> "import_key",
     idx_import_batch |-> "import_batch_id", margin_last_attempt_at |-> "margin_sync_error",
     margin_last_success_at |-> "margin_last_attempt_at", margin_last_error |-> "margin_last_success_at",
     margin_error_category |-> "margin_last_error", margin_next_retry_at |-> "margin_error_category",
     uq_ticker_canonical |-> "canonical_url_hash", idx_source_provider |-> "provider_id"]
Known == {MigrationTable} \cup UNION {Objects(v) : v \in Versions}
Needs(object) ==
    IF Len(object) = 1 THEN {}
    ELSE {TableOf(object)} \cup
         {o \in Known : object[2] \in DOMAIN Follows /\ o = <<object[1], Follows[object[2]]>>}

\* A table of the baseline is created with its columns and indexes
Creates(object) ==
    {object} \cup (IF object \in BaselineTables THEN {o \in Objects(1) : TableOf(o) = object} ELSE {})
IfNotExists(object) == Len(object) = 1 /\ object \notin BaselineTables

\* A database has the objects of the versions that are recorded in it, and a release knows the baseline
ASSUME MigrationAssumption ==
    /\ MaxRuns \in Nat
    /\ Releases \subseteq [knows : Versions, edited : SUBSET Versions, auto : BOOLEAN]
    /\ \A d \in Databases :
          /\ d.objects \subseteq Known /\ d.versions \in {0} \cup Versions
          /\ \A v \in 1..d.versions : Objects(v) \cup {MigrationTable} \subseteq d.objects

-----------------------------------------------------------------------------
(* Planning: a statement is the place of an object in the registry, or the *)
(* place after the last, which records the version                         *)

\* build_schema_plan: the columns and indexes of a table that is created come with it
BaselineLacks(seen, object) == object \notin seen /\ (object \in BaselineTables \/ TableOf(object) \in seen)

\* mutant: only tables that are there are followed up
AdditionLacksOfTables(seen, object) == object \notin seen /\ (Len(object) = 1 \/ TableOf(object) \in seen)
\* A table that is not there will be, by the baseline of the same plan
AdditionLacks(seen, object) == object \notin seen

Lacks(v, seen, object) == IF v = 1 THEN BaselineLacks(seen, object) ELSE AdditionLacks(seen, object)

AtPlace(v, i) == [version |-> v, place |-> i]
Recording(v) == AtPlace(v, Len(Registry(v)) + 1)
Statements(v, seen) ==
    {AtPlace(v, i) : i \in {n \in DOMAIN Registry(v) : Lacks(v, seen, Registry(v)[n])}} \cup {Recording(v)}

PendingVersions(code, applied) == {v \in 1..code.knows : \A r \in applied : r.version # v}
PlanOf(code, seen, applied) ==
    LET pending == PendingVersions(code, applied)
    IN  IF pending = {} THEN {} ELSE {AtPlace(0, 1)} \cup UNION {Statements(v, seen) : v \in pending}

Drifted(code, applied) == \E r \in applied : r.version <= code.knows /\ r.edited # (r.version \in code.edited)
Unknown(code, applied) == \E r \in applied : r.version > code.knows

-----------------------------------------------------------------------------
(* create_tables                                                           *)

Busy(p) == migrator[p].pc \in {"inspecting", "applying"}
MigrationEnds(p, pc) == migrator' = [migrator EXCEPT ![p].pc = pc, ![p].seen = {}, ![p].todo = {}]

\* The tables, columns and indexes are read.  alone is for the properties: nobody else was at work
Inspect(p) ==
    /\ ~Busy(p) /\ migrations < MaxRuns /\ migrations' = migrations + 1
    /\ migrator' = [q \in Migrators |->
         IF q = p THEN [pc |-> "inspecting", seen |-> schema, todo |-> {}, alone |-> \A o \in Migrators : ~Busy(o)]
         ELSE [migrator[q] EXCEPT !.alone = FALSE]]
    /\ UNCHANGED <<schema, recorded, release>>

\* The versions that are recorded are read, if their table was seen
Applied(p) == IF MigrationTable \in migrator[p].seen THEN recorded ELSE {}

MakesPlan(p) ==
    /\ migrator[p].pc = "inspecting"
    /\ LET code == release[p]
           unwanted == PendingVersions(code, Applied(p)) # {} /\ ~code.auto
       IN  IF Drifted(code, Applied(p)) \/ Unknown(code, Applied(p)) \/ unwanted
           THEN MigrationEnds(p, "refused")
           ELSE migrator' = [migrator EXCEPT ![p].pc = "applying",
                                             ![p].todo = PlanOf(code, migrator[p].seen, Applied(p))]
    /\ UNCHANGED <<schema, recorded, release, migrations>>

\* In the order of the versions, and of the places in one
Before(s, t) == s.version < t.version \/ (s.version = t.version /\ s.place < t.place)
Statement(p) == CHOOSE s \in migrator[p].todo : \A t \in migrator[p].todo \ {s} : Before(s, t)
Records(s) == s = Recording(s.version)
ObjectOf(s) == Registry(s.version)[s.place]
Works(p) == migrator[p].pc = "applying" /\ migrator[p].todo # {}
StepDone(p) == migrator' = [migrator EXCEPT ![p].todo = @ \ {Statement(p)}]

Execute(p) ==
    /\ Works(p) /\ ~Records(Statement(p))
    /\ LET object == ObjectOf(Statement(p))
       IN  IF (object \in schema /\ ~IfNotExists(object)) \/ ~(Needs(object) \subseteq schema)
           THEN MigrationEnds(p, "failed") /\ UNCHANGED schema
           ELSE StepDone(p) /\ schema' = schema \cup Creates(object)
    /\ UNCHANGED <<recorded, release, migrations>>

\* The version is the key of its row
Record(p) ==
    /\ Works(p) /\ Records(Statement(p))
    /\ LET v == Statement(p).version
       IN  IF \E r \in recorded : r.version = v
           THEN MigrationEnds(p, "failed") /\ UNCHANGED recorded
           ELSE /\ StepDone(p)
                /\ recorded' = recorded \cup {[version |-> v, edited |-> v \in release[p].edited]}
    /\ UNCHANGED <<schema, release, migrations>>

Applies(p) == /\ migrator[p].pc = "applying" /\ migrator[p].todo = {}
              /\ MigrationEnds(p, "done") /\ UNCHANGED <<schema, recorded, release, migrations>>

Dies(p) == Busy(p) /\ MigrationEnds(p, "died") /\ UNCHANGED <<schema, recorded, release, migrations>>

-----------------------------------------------------------------------------
MgInit ==
    /\ \E d \in Databases : /\ schema = d.objects
                           /\ recorded = {[version |-> v, edited |-> FALSE] : v \in 1..d.versions}
    /\ release \in [Migrators -> Releases] /\ migrations = 0
    /\ migrator = [p \in Migrators |-> [pc |-> "died", seen |-> {}, todo |-> {}, alone |-> FALSE]]

MgNext == \E p \in Migrators : Inspect(p) \/ MakesPlan(p) \/ Execute(p) \/ Record(p) \/ Applies(p) \/ Dies(p)

MgSpec == MgInit /\ [][MgNext]_mgVars

-----------------------------------------------------------------------------
(* Properties                                                              *)

MgTypeOK ==
    /\ schema \subseteq Known
    /\ \A r \in recorded : r.version \in Versions /\ r.edited \in BOOLEAN
    /\ release \in [Migrators -> Releases] /\ migrations \in 0..MaxRuns
    /\ \A p \in Migrators : migrator[p].pc \in {"inspecting", "applying", "done", "failed", "refused", "died"}

\* The versions are recorded in their order, each once, and a recorded version is in the schema with
\* all it adds, whoever died or ran into another run on the way
RecordedIsThere ==
    \A r \in recorded :
        /\ Objects(r.version) \subseteq schema
        /\ \A v \in 1..r.version - 1 : \E q \in recorded : q.version = v
        /\ \A q \in recorded : q.version = r.version => q = r

\* A migration that nobody else was at work with does not fail on what an earlier one has left
OnlyRacesFail == \A p \in Migrators : migrator[p].pc = "failed" => ~migrator[p].alone

\* After a successful run all versions of its release are recorded, as its code has them
DoneIsComplete ==
    \A p \in Migrators : migrator[p].pc = "done" =>
        \A v \in 1..release[p].knows : \E r \in recorded : r.version = v /\ (r.edited <=> v \in release[p].edited)

\* What holds of the schema and of those who migrate it at any time
SchemaSound == MgTypeOK /\ RecordedIsThere /\ OnlyRacesFail /\ DoneIsComplete

=============================================================================
