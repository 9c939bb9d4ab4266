------------------------- MODULE KnowledgeBase_proofs -------------------------
(***************************************************************************)
(* Safety of KnowledgeBase for any programs, releases and entries.         *)
(***************************************************************************)
EXTENDS KnowledgeBase, TLAPS

\* Where a migrating program is, the versions before its own are applied; the one
\* it is about to commit is not, and no other program is about to commit it.
SchemaInv ==
    /\ MigrationsApplyOnceInOrder
    /\ \A p \in Processes :
        /\ pc[p] \in Migrating =>
              version[p] >= 1 /\ \A v \in Nat : 1 <= v /\ v < version[p] => v \in applied
        /\ pc[p] \in {"exec", "record", "commit"} => version[p] <= Migrations[release[p]]
        /\ pc[p] = "commit" => version[p] \notin applied
        /\ pc[p] = "commit" =>
              \A q \in Processes : pc[q] = "commit" /\ version[q] = version[p] => q = p
        /\ pc[p] \in Seeding \cup {"serving"} => 1..Migrations[release[p]] \subseteq applied

\* A program that has seeded finds its ids in the table; an entry has a row only
\* if it was stored, or lost after it was.
TableInv ==
    /\ \A p \in Processes :
        pc[p] \in {"readmax", "setval", "serving"} => 1..Seeds[release[p]] \subseteq DOMAIN rows
    /\ \A e \in Entries :
        /\ entry[e] = "stored" => drawn[e] \in DOMAIN rows /\ rows[drawn[e]] = e
        /\ entry[e] \in {"new", "drawn", "collided"} => \A id \in DOMAIN rows : rows[id] # e

IInv == TypeOK /\ SchemaInv /\ TableInv

-----------------------------------------------------------------------------

LEMMA VersionsOfRelease ==
    ASSUME NEW r \in Releases, NEW v \in Nat, v >= 1, v <= Migrations[r]
    PROVE  v \in Versions /\ 1..v \subseteq 1..Migrations[r]
<1>1. Migrations[r] \in Nat
  BY KnowledgeAssumption
<1>2. v \in 1..Migrations[r]
  BY <1>1
<1> QED
  BY <1>1, <1>2 DEF Versions

LEMMA InitInv == Init => IInv
<1> SUFFICES ASSUME Init PROVE IInv
  OBVIOUS
<1>1. TypeOK
  <2>1. via \in [Entries -> Processes]
    BY KnowledgeAssumption DEF Init
  <2>2. /\ DOMAIN rows \subseteq Nat
        /\ \A id \in DOMAIN rows : rows[id] \in Releases \cup Entries
    BY DEF Init
  <2>3. faults \in 0..MaxFaults /\ exits \in 0..MaxExits
    BY KnowledgeAssumption DEF Init
  <2> QED
    BY <2>1, <2>2, <2>3 DEF Init, TypeOK
<1>2. SchemaInv
  BY DEF Init, SchemaInv, MigrationsApplyOnceInOrder, Migrating, Seeding
<1>3. TableInv
  BY DEF Init, TableInv
<1> QED
  BY <1>1, <1>2, <1>3 DEF IInv

\* Type correctness, one step per action.
LEMMA TypeStep == IInv /\ [Next]_vars => TypeOK'
<1> SUFFICES ASSUME IInv, [Next]_vars PROVE TypeOK'
  OBVIOUS
<1> USE KnowledgeAssumption DEF IInv, TypeOK, Starting, Migrating, Seeding
<1>1. ASSUME NEW p \in Processes, Start(p) PROVE TypeOK'
  BY <1>1 DEF Start, Goto, schema, table, posts
<1>2. ASSUME NEW p \in Processes, EnsureTable(p) PROVE TypeOK'
  BY <1>2 DEF EnsureTable, Goto, schema, table, posts
<1>3. ASSUME NEW p \in Processes, CheckApplied(p) PROVE TypeOK'
  BY <1>3 DEF CheckApplied, Goto, schema, table, posts
<1>4. ASSUME NEW p \in Processes, Migrated(p) PROVE TypeOK'
  BY <1>4 DEF Migrated, Goto, schema, table, posts
<1>5. ASSUME NEW p \in Processes, ExecMigration(p) PROVE TypeOK'
  BY <1>5 DEF ExecMigration, Goto, schema, table, posts
<1>6. ASSUME NEW p \in Processes, RecordMigration(p) PROVE TypeOK'
  BY <1>6 DEF RecordMigration, Goto, schema, table, posts
<1>v. ASSUME NEW p \in Processes, pc[p] = "commit" PROVE version[p] \in Versions
  BY <1>v, VersionsOfRelease DEF SchemaInv
<1>7. ASSUME NEW p \in Processes, CommitMigration(p) PROVE TypeOK'
  BY <1>7, <1>v DEF CommitMigration, Commit, Goto, table, posts
<1>8. ASSUME NEW p \in Processes, SeedFAQ(p) PROVE TypeOK'
  <2>1. DOMAIN rows' = DOMAIN rows \cup 1..Seeds[release[p]]
    BY <1>8 DEF SeedFAQ, InsertSeed, InsertMissing
  <2>2. \A id \in DOMAIN rows' : rows'[id] \in Releases \cup Entries
    BY <1>8 DEF SeedFAQ, InsertSeed, InsertMissing
  <2> QED
    BY <1>8, <2>1, <2>2 DEF SeedFAQ, Goto, schema, posts
<1>9. ASSUME NEW p \in Processes, ReadMax(p) PROVE TypeOK'
  BY <1>9 DEF ReadMax, Goto, schema, table, posts
<1>10. ASSUME NEW p \in Processes, SetVal(p) PROVE TypeOK'
  BY <1>10 DEF SetVal, Goto, schema, posts
<1>11. ASSUME NEW p \in Processes, StartFails(p) PROVE TypeOK'
  BY <1>11, <1>v DEF StartFails, Commit, Goto, schema, table, posts
<1>12. ASSUME NEW p \in Processes, Exit(p) PROVE TypeOK'
  BY <1>12 DEF Exit, Goto, schema, table, posts
<1>13. ASSUME NEW e \in Entries, DrawId(e) PROVE TypeOK'
  BY <1>13 DEF DrawId, schema, starts
<1>14. ASSUME NEW e \in Entries, StoreEntry(e) PROVE TypeOK'
  <2>1. /\ DOMAIN rows' \subseteq Nat
        /\ \A id \in DOMAIN rows' : rows'[id] \in Releases \cup Entries
    BY <1>14 DEF StoreEntry, InsertMissing
  <2> QED
    BY <1>14, <2>1 DEF StoreEntry, schema, starts
<1>15. ASSUME NEW e \in Entries, LoseEntry(e) PROVE TypeOK'
  <2>1. /\ DOMAIN rows' \subseteq Nat
        /\ \A id \in DOMAIN rows' : rows'[id] \in Releases \cup Entries
    BY <1>15 DEF LoseEntry, InsertMissing
  <2> QED
    BY <1>15, <2>1 DEF LoseEntry, schema, starts
<1>16. ASSUME UNCHANGED vars PROVE TypeOK'
  BY <1>16 DEF vars, schema, table, starts, posts
<1> QED
  BY <1>1, <1>2, <1>3, <1>4, <1>5, <1>6, <1>7, <1>8, <1>9, <1>10, <1>11, <1>12,
     <1>13, <1>14, <1>15, <1>16
  DEF Next, StartStep, Finished

\* A commit keeps the versions applied once and in order, and makes room for the
\* versions after it.
LEMMA CommitKeeps ==
    ASSUME IInv, NEW p \in Processes, pc[p] = "commit", Commit(p)
    PROVE  /\ MigrationsApplyOnceInOrder'
           /\ applied \subseteq applied'
           /\ \A v \in Nat : 1 <= v /\ v < version[p] + 1 => v \in applied'
<1> USE DEF IInv, TypeOK
<1>1. /\ version[p] \in Nat /\ version[p] >= 1
      /\ version[p] \notin applied
      /\ \A v \in Nat : 1 <= v /\ v < version[p] => v \in applied
  BY DEF SchemaInv, Migrating
<1>2. version[p] \in Versions
  BY <1>1, VersionsOfRelease DEF SchemaInv
<1>3. applied' = applied \cup {version[p]}
  BY DEF Commit
<1>4. ASSUME NEW v \in Versions
      PROVE ran'[v] = IF v \in applied' THEN 1 ELSE 0
  BY <1>1, <1>2, <1>3 DEF Commit, SchemaInv, MigrationsApplyOnceInOrder
<1>5. ASSUME NEW v \in Versions, v \in applied'
      PROVE 1..v \subseteq applied'
  <2>1. CASE v = version[p]
    <3> SUFFICES ASSUME NEW w \in 1..v PROVE w \in applied'
      OBVIOUS
    <3>1. w = version[p] \/ (w \in Nat /\ 1 <= w /\ w < version[p])
      BY <2>1, <1>1
    <3> QED
      BY <3>1, <1>1, <1>3
  <2>2. CASE v # version[p]
    BY <2>2, <1>3, <1>5 DEF SchemaInv, MigrationsApplyOnceInOrder
  <2> QED
    BY <2>1, <2>2
<1>6. ASSUME NEW v \in Nat, 1 <= v, v < version[p] + 1
      PROVE v \in applied'
  <2>1. v = version[p] \/ v < version[p]
    BY <1>6, <1>1
  <2> QED
    BY <2>1, <1>1, <1>3, <1>6
<1> QED
  BY <1>3, <1>4, <1>5, <1>6 DEF MigrationsApplyOnceInOrder

LEMMA SchemaStep == IInv /\ [Next]_vars => SchemaInv'
<1> SUFFICES ASSUME IInv, [Next]_vars PROVE SchemaInv'
  OBVIOUS
<1> USE DEF IInv, TypeOK
<1>1. ASSUME NEW p \in Processes, Start(p) PROVE SchemaInv'
  BY <1>1 DEF Start, Goto, schema, SchemaInv, MigrationsApplyOnceInOrder, Migrating, Seeding
<1>2. ASSUME NEW p \in Processes, EnsureTable(p) PROVE SchemaInv'
  BY <1>2 DEF EnsureTable, Goto, schema, SchemaInv, MigrationsApplyOnceInOrder, Migrating, Seeding
<1>3. ASSUME NEW p \in Processes, CheckApplied(p) PROVE SchemaInv'
  BY <1>3 DEF CheckApplied, Goto, schema, SchemaInv, MigrationsApplyOnceInOrder, Migrating, Seeding
<1>4. ASSUME NEW p \in Processes, Migrated(p) PROVE SchemaInv'
  <2>1. 1..Migrations[release[p]] \subseteq applied
    <3> SUFFICES ASSUME NEW v \in 1..Migrations[release[p]] PROVE v \in applied
      OBVIOUS
    <3>1. Migrations[release[p]] \in Nat
      BY KnowledgeAssumption
    <3> QED
      BY <1>4, <3>1 DEF Migrated, SchemaInv, Migrating
  <2> QED
    BY <1>4, <2>1 DEF Migrated, Goto, schema, SchemaInv, MigrationsApplyOnceInOrder, Migrating, Seeding
<1>5. ASSUME NEW p \in Processes, ExecMigration(p) PROVE SchemaInv'
  BY <1>5 DEF ExecMigration, Goto, schema, SchemaInv, MigrationsApplyOnceInOrder, Migrating, Seeding
<1>6. ASSUME NEW p \in Processes, RecordMigration(p) PROVE SchemaInv'
  BY <1>6 DEF RecordMigration, KeyIsFree, Goto, schema, SchemaInv, MigrationsApplyOnceInOrder, Migrating, Seeding
<1>7. ASSUME NEW p \in Processes, CommitMigration(p) PROVE SchemaInv'
  <2>1. /\ MigrationsApplyOnceInOrder' /\ applied \subseteq applied'
        /\ \A v \in Nat : 1 <= v /\ v < version[p] + 1 => v \in applied'
    BY <1>7, CommitKeeps DEF CommitMigration
  <2>2. ASSUME NEW q \in Processes, q # p
        PROVE pc'[q] = pc[q] /\ version'[q] = version[q] /\ release'[q] = release[q]
    BY <1>7, <2>2 DEF CommitMigration, Goto
  <2>3. pc'[p] = "check" /\ version'[p] = version[p] + 1
    BY <1>7 DEF CommitMigration, Goto
  <2>4. applied' = applied \cup {version[p]}
    BY <1>7 DEF CommitMigration, Commit
  <2> QED
    BY <1>7, <2>1, <2>2, <2>3, <2>4 DEF CommitMigration, SchemaInv, Migrating, Seeding
<1>8. ASSUME NEW p \in Processes, StartFails(p) PROVE SchemaInv'
  <2>1. CASE UNCHANGED schema
    BY <1>8, <2>1 DEF StartFails, Goto, schema, SchemaInv, MigrationsApplyOnceInOrder, Migrating, Seeding
  <2>2. CASE pc[p] = "commit" /\ Commit(p)
    <3>1. MigrationsApplyOnceInOrder' /\ applied \subseteq applied'
      BY <2>2, CommitKeeps
    <3>2. applied' = applied \cup {version[p]}
      BY <2>2 DEF Commit
    <3> QED
      BY <1>8, <2>2, <3>1, <3>2 DEF StartFails, Goto, SchemaInv, Migrating, Seeding
  <2> QED
    BY <1>8, <2>1, <2>2 DEF StartFails
<1>9. ASSUME NEW p \in Processes, SeedFAQ(p) \/ ReadMax(p) \/ SetVal(p) \/ Exit(p) PROVE SchemaInv'
  BY <1>9 DEF SeedFAQ, ReadMax, SetVal, Exit, Goto, schema, SchemaInv,
              MigrationsApplyOnceInOrder, Migrating, Seeding
<1>10. ASSUME NEW e \in Entries, DrawId(e) \/ StoreEntry(e) \/ LoseEntry(e) PROVE SchemaInv'
  BY <1>10 DEF DrawId, StoreEntry, LoseEntry, schema, starts, SchemaInv, MigrationsApplyOnceInOrder
<1>11. ASSUME UNCHANGED vars PROVE SchemaInv'
  BY <1>11 DEF vars, schema, starts, SchemaInv, MigrationsApplyOnceInOrder
<1> QED
  BY <1>1, <1>2, <1>3, <1>4, <1>5, <1>6, <1>7, <1>8, <1>9, <1>10, <1>11
  DEF Next, StartStep, Finished

\* No action changes or removes a row.
LEMMA RowsStay ==
    ASSUME IInv, [Next]_vars
    PROVE  \A id \in DOMAIN rows : id \in DOMAIN rows' /\ rows'[id] = rows[id]
<1>1. ASSUME NEW p \in Processes, SeedFAQ(p)
      PROVE \A id \in DOMAIN rows : id \in DOMAIN rows' /\ rows'[id] = rows[id]
  BY <1>1 DEF SeedFAQ, InsertSeed, InsertMissing
<1>2. ASSUME NEW e \in Entries, StoreEntry(e) \/ LoseEntry(e)
      PROVE \A id \in DOMAIN rows : id \in DOMAIN rows' /\ rows'[id] = rows[id]
  BY <1>2 DEF StoreEntry, LoseEntry, InsertMissing
<1>3. CASE UNCHANGED rows
  BY <1>3
<1>4. \/ UNCHANGED rows
      \/ \E p \in Processes : SeedFAQ(p)
      \/ \E e \in Entries : StoreEntry(e) \/ LoseEntry(e)
  BY DEF Next, StartStep, Finished, vars, table, Start, EnsureTable, CheckApplied, Migrated,
         ExecMigration, RecordMigration, CommitMigration, ReadMax, SetVal, StartFails, Exit, DrawId
<1> QED
  BY <1>1, <1>2, <1>3, <1>4

LEMMA TableStep == IInv /\ [Next]_vars => TableInv'
<1> SUFFICES ASSUME IInv, [Next]_vars PROVE TableInv'
  OBVIOUS
<1> USE DEF IInv, TypeOK
<1>1. ASSUME NEW p \in Processes, Start(p) PROVE TableInv'
  BY <1>1 DEF Start, Goto, table, posts, TableInv
<1>2. ASSUME NEW p \in Processes,
             EnsureTable(p) \/ CheckApplied(p) \/ Migrated(p) \/ ExecMigration(p) \/ RecordMigration(p)
             \/ CommitMigration(p) \/ StartFails(p) \/ Exit(p) \/ ReadMax(p) \/ SetVal(p)
      PROVE TableInv'
  BY <1>2 DEF EnsureTable, CheckApplied, Migrated, ExecMigration, RecordMigration, CommitMigration,
              StartFails, Exit, ReadMax, SetVal, Goto, table, posts, TableInv
<1>3. ASSUME NEW p \in Processes, SeedFAQ(p) PROVE TableInv'
  <2> DEFINE ids == 1..Seeds[release[p]]
  <2>1. /\ DOMAIN rows' = DOMAIN rows \cup ids
        /\ \A id \in DOMAIN rows : rows'[id] = rows[id]
        /\ \A id \in ids \ DOMAIN rows : rows'[id] = release[p]
    BY <1>3 DEF SeedFAQ, InsertSeed, InsertMissing
  <2>2. release[p] \notin Entries
    BY KnowledgeAssumption
  <2>3. \A e \in Entries : entry[e] \in {"new", "drawn", "collided"} => \A id \in DOMAIN rows' : rows'[id] # e
    BY <2>1, <2>2 DEF TableInv
  <2> QED
    BY <1>3, <2>1, <2>3 DEF SeedFAQ, Goto, posts, TableInv
<1>4. ASSUME NEW e \in Entries, DrawId(e) PROVE TableInv'
  BY <1>4 DEF DrawId, starts, TableInv
<1>5. ASSUME NEW e \in Entries, StoreEntry(e) PROVE TableInv'
  <2>1. CASE drawn[e] \in DOMAIN rows
    BY <1>5, <2>1 DEF StoreEntry, starts, TableInv
  <2>2. CASE drawn[e] \notin DOMAIN rows
    <3>1. /\ DOMAIN rows' = DOMAIN rows \cup {drawn[e]}
          /\ \A id \in DOMAIN rows : rows'[id] = rows[id]
          /\ rows'[drawn[e]] = e
      BY <1>5, <2>2 DEF StoreEntry, InsertMissing
    <3> QED
      BY <1>5, <2>2, <3>1 DEF StoreEntry, starts, TableInv
  <2> QED
    BY <2>1, <2>2
<1>6. ASSUME NEW e \in Entries, LoseEntry(e) PROVE TableInv'
  <2>1. /\ DOMAIN rows \subseteq DOMAIN rows'
        /\ \A id \in DOMAIN rows : rows'[id] = rows[id]
        /\ \A id \in DOMAIN rows' \ DOMAIN rows : rows'[id] = e
    BY <1>6 DEF LoseEntry, InsertMissing
  <2> QED
    BY <1>6, <2>1 DEF LoseEntry, starts, TableInv
<1>7. ASSUME UNCHANGED vars PROVE TableInv'
  BY <1>7 DEF vars, table, starts, posts, TableInv
<1> QED
  BY <1>1, <1>2, <1>3, <1>4, <1>5, <1>6, <1>7 DEF Next, StartStep, Finished

THEOREM Invariance == Spec => []IInv
<1>1. IInv /\ [Next]_vars => IInv'
  BY TypeStep, SchemaStep, TableStep DEF IInv
<1> QED
  BY InitInv, <1>1, PTL DEF Spec

-----------------------------------------------------------------------------

\* The variables have their types.
THEOREM TypeCorrect == Spec => []TypeOK
<1>1. IInv => TypeOK
  BY DEF IInv
<1> QED
  BY Invariance, <1>1, PTL

\* Overlapping and failing starts of any programs and releases apply every
\* migration once, after the earlier ones.
THEOREM SchemaIsOrdered == Spec => []MigrationsApplyOnceInOrder
<1>1. IInv => MigrationsApplyOnceInOrder
  BY DEF IInv, SchemaInv
<1> QED
  BY Invariance, <1>1, PTL

\* A program serves only on the schema and the seed of its release.
THEOREM ReadyToServe == Spec => []ServesOnWhatItNeeds
<1>1. IInv => ServesOnWhatItNeeds
  BY DEF IInv, SchemaInv, TableInv, ServesOnWhatItNeeds, Seeding
<1> QED
  BY Invariance, <1>1, PTL

\* What a client was told of its entry stays true.
THEOREM EntriesAreStored == Spec => []AcknowledgedEntriesAreStored
<1>1. IInv => AcknowledgedEntriesAreStored
  BY DEF IInv, TableInv, AcknowledgedEntriesAreStored
<1> QED
  BY Invariance, <1>1, PTL

\* No seed and no entry overwrites a row.
THEOREM InsertOnly == Spec => RowsAreNeverOverwritten
<1>1. IInv /\ [Next]_vars => [\A id \in DOMAIN rows : id \in DOMAIN rows' /\ rows'[id] = rows[id]]_vars
  BY RowsStay
<1> QED
  BY Invariance, <1>1, PTL DEF Spec, RowsAreNeverOverwritten

-----------------------------------------------------------------------------
(* The sequence and the ids in use.                                        *)

\* While no seed has met an entry or another seed, the ids in use lie behind the
\* sequence, and what entries have drawn is free and theirs alone; between the
\* statements of a seed no entry is on its way, and what it read is still true.
SequenceInv ==
    ~raced =>
        /\ \A e \in Entries : entry[e] # "collided"
        /\ \A e \in InFlight : drawn[e] \notin DOMAIN rows /\ drawn[e] <= seq
        /\ \A e, f \in InFlight : drawn[e] = drawn[f] => e = f
        /\ BetweenStatements = {} => \A id \in DOMAIN rows : id <= seq
        /\ BetweenStatements # {} => InFlight = {}
        /\ \A p, q \in BetweenStatements : p = q
        /\ \A p \in Processes : pc[p] = "setval" => \A id \in DOMAIN rows : id <= top[p]

\* Steps that leave the table, the entries and the programs between statements.
LEMMA SequenceUntouched ==
    ASSUME SequenceInv, rows' = rows, seq' = seq, entry' = entry, drawn' = drawn,
           BetweenStatements' = BetweenStatements, raced => raced',
           \A p \in Processes : pc'[p] = "setval" => pc[p] = "setval" /\ top'[p] = top[p]
    PROVE  SequenceInv'
BY DEF SequenceInv, InFlight

\* Steps of a start that are not about the table.
LEMMA SequenceStart ==
    ASSUME TypeOK, SequenceInv, NEW p \in Processes,
           Start(p) \/ EnsureTable(p) \/ CheckApplied(p) \/ Migrated(p) \/ ExecMigration(p)
             \/ RecordMigration(p) \/ CommitMigration(p) \/ Exit(p)
    PROVE  SequenceInv'
<1>1. UNCHANGED <<rows, seq, entry, drawn, raced, top>>
  BY DEF Start, EnsureTable, CheckApplied, Migrated, ExecMigration, RecordMigration,
         CommitMigration, Exit, table, posts
<1>2. /\ pc[p] \notin {"readmax", "setval"} /\ pc'[p] \notin {"readmax", "setval"}
      /\ \A q \in Processes \ {p} : pc'[q] = pc[q]
  BY DEF Start, EnsureTable, CheckApplied, Migrated, ExecMigration, RecordMigration,
         CommitMigration, Exit, Goto, TypeOK
<1>3. BetweenStatements' = BetweenStatements
  BY <1>2 DEF BetweenStatements
<1>4. \A q \in Processes : pc'[q] = "setval" => pc[q] = "setval" /\ top'[q] = top[q]
  BY <1>1, <1>2
<1>5. QED
  BY <1>1, <1>3, <1>4, SequenceUntouched

\* The seed goes in while no entry is on its way and no other seed is.
LEMMA SequenceSeed ==
    ASSUME TypeOK, SequenceInv, NEW p \in Processes, SeedFAQ(p), ~raced'
    PROVE  SequenceInv'
<1>1. ~raced /\ InFlight = {} /\ BetweenStatements \ {p} = {}
  BY DEF SeedFAQ
<1>2. UNCHANGED <<seq, entry, drawn, top>> /\ pc[p] = "seed"
  BY DEF SeedFAQ, posts
<1>3. InFlight' = {}
  BY <1>1, <1>2 DEF InFlight
<1>4. BetweenStatements = {}
  BY <1>1, <1>2 DEF BetweenStatements
<1>5. /\ pc'[p] \in {"serving", "readmax"}
      /\ \A q \in Processes \ {p} : pc'[q] = pc[q] /\ pc'[q] \notin {"readmax", "setval"}
  BY <1>4 DEF SeedFAQ, Goto, TypeOK, BetweenStatements
<1>6. BetweenStatements' \subseteq {p} /\ \A q \in Processes : pc'[q] # "setval"
  BY <1>5 DEF BetweenStatements
<1>7. CASE pc'[p] = "serving"
  <2>1. Seeds[release[p]] = 0
    BY <1>7 DEF SeedFAQ, Goto, TypeOK
  <2>2. DOMAIN rows' = DOMAIN rows
    BY <2>1 DEF SeedFAQ, InsertSeed, InsertMissing
  <2>3. QED
    BY <1>1, <1>2, <1>3, <1>4, <1>6, <2>2 DEF SequenceInv
<1>8. CASE pc'[p] = "readmax"
  <2>1. p \in BetweenStatements'
    BY <1>8 DEF BetweenStatements
  <2>2. QED
    BY <1>1, <1>2, <1>3, <1>6, <2>1 DEF SequenceInv
<1>9. QED
  BY <1>5, <1>7, <1>8

\* The resync reads the greatest id and sets the sequence to it.
LEMMA SequenceResync ==
    ASSUME TypeOK, SequenceInv, NEW p \in Processes, ReadMax(p) \/ SetVal(p), ~raced'
    PROVE  SequenceInv'
<1>1. ~raced /\ InFlight = {} /\ UNCHANGED <<rows, entry, drawn>>
  BY DEF ReadMax, SetVal, table, posts
<1>2. InFlight' = {} /\ \A e \in Entries : entry'[e] # "collided"
  BY <1>1 DEF InFlight, SequenceInv
<1>3. p \in BetweenStatements
  BY DEF ReadMax, SetVal, BetweenStatements
<1>4. \A q \in Processes \ {p} : pc[q] \notin {"readmax", "setval"}
  BY <1>1, <1>3 DEF SequenceInv, BetweenStatements
<1>5. CASE ReadMax(p)
  <2>1. pc'[p] = "setval" /\ \A q \in Processes \ {p} : pc'[q] = pc[q]
    BY <1>5 DEF ReadMax, Goto, TypeOK
  <2>2. BetweenStatements' = {p}
    BY <1>4, <2>1 DEF BetweenStatements
  <2>3. \A id \in DOMAIN rows : id <= top'[p]
    BY <1>5 DEF ReadMax, TypeOK
  <2>4. \A q \in Processes : pc'[q] = "setval" => q = p
    BY <1>4, <2>1
  <2>5. QED
    BY <1>1, <1>2, <2>2, <2>3, <2>4 DEF SequenceInv
<1>6. CASE SetVal(p)
  <2>1. pc'[p] = "serving" /\ \A q \in Processes \ {p} : pc'[q] = pc[q]
    BY <1>6 DEF SetVal, Goto, TypeOK
  <2>2. BetweenStatements' = {} /\ \A q \in Processes : pc'[q] # "setval"
    BY <1>4, <2>1 DEF BetweenStatements
  <2>3. \A id \in DOMAIN rows' : id <= seq'
    BY <1>1, <1>6 DEF SetVal, SequenceInv
  <2>4. QED
    BY <1>1, <1>2, <2>2, <2>3 DEF SequenceInv
<1>7. QED
  BY <1>5, <1>6

\* A failing start leaves the table; between the statements it counts as a race.
LEMMA SequenceFails ==
    ASSUME TypeOK, SequenceInv, NEW p \in Processes, StartFails(p), ~raced'
    PROVE  SequenceInv'
<1>1. ~raced /\ p \notin BetweenStatements /\ UNCHANGED <<rows, seq, entry, drawn, top>>
  BY DEF StartFails, table, posts
<1>2. pc'[p] = "down" /\ \A q \in Processes \ {p} : pc'[q] = pc[q]
  BY DEF StartFails, Goto, TypeOK
<1>3. BetweenStatements' = BetweenStatements
  BY <1>1, <1>2 DEF BetweenStatements
<1>4. \A q \in Processes : pc'[q] = "setval" => pc[q] = "setval" /\ top'[q] = top[q]
  BY <1>1, <1>2
<1>5. QED
  BY <1>1, <1>3, <1>4, SequenceUntouched

\* An entry draws an id behind which all others are.
LEMMA SequenceDraw ==
    ASSUME TypeOK, SequenceInv, NEW e \in Entries, DrawId(e), ~raced'
    PROVE  SequenceInv'
<1>1. ~raced /\ BetweenStatements = {} /\ UNCHANGED <<rows, pc, top>>
  BY DEF DrawId, starts
<1>2. BetweenStatements' = {} /\ \A q \in Processes : pc'[q] # "setval"
  BY <1>1 DEF BetweenStatements
<1>3. /\ seq \in Nat /\ seq' = seq + 1
      /\ drawn' = [drawn EXCEPT ![e] = seq + 1] /\ entry' = [entry EXCEPT ![e] = "drawn"]
  BY DEF DrawId, TypeOK
<1>4. \A id \in DOMAIN rows : id \in Nat /\ id <= seq
  BY <1>1 DEF SequenceInv, TypeOK
<1>5. /\ drawn'[e] = seq + 1 /\ InFlight' = InFlight \cup {e}
      /\ \A f \in InFlight \ {e} : drawn'[f] = drawn[f] /\ drawn[f] \in Nat
  BY <1>3 DEF TypeOK, InFlight
<1>6. \A f \in InFlight : drawn[f] \notin DOMAIN rows /\ drawn[f] <= seq
  BY <1>1 DEF SequenceInv
<1>7. \A f \in InFlight' : drawn'[f] \notin DOMAIN rows' /\ drawn'[f] <= seq'
  BY <1>1, <1>3, <1>4, <1>5, <1>6
<1>8. \A f, g \in InFlight' : drawn'[f] = drawn'[g] => f = g
  BY <1>1, <1>3, <1>5, <1>6 DEF SequenceInv
<1>9. \A f \in Entries : entry'[f] # "collided"
  BY <1>1, <1>3 DEF SequenceInv, TypeOK
<1>10. \A id \in DOMAIN rows' : id <= seq'
  BY <1>1, <1>3, <1>4
<1>11. QED
  BY <1>1, <1>2, <1>7, <1>8, <1>9, <1>10 DEF SequenceInv

\* An entry is stored under the free id it drew, or it is lost.
LEMMA SequenceStore ==
    ASSUME TypeOK, SequenceInv, NEW e \in Entries, StoreEntry(e) \/ LoseEntry(e), ~raced'
    PROVE  SequenceInv'
<1>1. ~raced /\ e \in InFlight /\ UNCHANGED <<seq, drawn, pc, top>>
  BY DEF StoreEntry, LoseEntry, starts, InFlight
<1>2. /\ BetweenStatements = {} /\ drawn[e] \notin DOMAIN rows /\ drawn[e] <= seq
  BY <1>1 DEF SequenceInv
<1>3. BetweenStatements' = {} /\ \A q \in Processes : pc'[q] # "setval"
  BY <1>1, <1>2 DEF BetweenStatements
<1>4. DOMAIN rows' \in {DOMAIN rows, DOMAIN rows \cup {drawn[e]}}
  BY DEF StoreEntry, LoseEntry, InsertMissing
<1>5. \/ entry' = [entry EXCEPT ![e] = "stored"]
      \/ entry' = [entry EXCEPT ![e] = "failed"]
  BY <1>2 DEF StoreEntry, LoseEntry
<1>6. InFlight' = InFlight \ {e} /\ \A f \in Entries : entry'[f] # "collided"
  BY <1>1, <1>5 DEF TypeOK, InFlight, SequenceInv
<1>7. \A f \in InFlight' : drawn'[f] \notin DOMAIN rows' /\ drawn'[f] <= seq'
  BY <1>1, <1>4, <1>6 DEF SequenceInv
<1>8. \A f, g \in InFlight' : drawn'[f] = drawn'[g] => f = g
  BY <1>1, <1>6 DEF SequenceInv
<1>9. \A id \in DOMAIN rows' : id <= seq'
  BY <1>1, <1>2, <1>4 DEF SequenceInv
<1>10. QED
  BY <1>1, <1>3, <1>6, <1>7, <1>8, <1>9 DEF SequenceInv

\* Every step keeps the ids in use behind the sequence.
LEMMA SequenceStep == IInv /\ SequenceInv /\ [Next]_vars => SequenceInv'
<1> SUFFICES ASSUME IInv, SequenceInv, [Next]_vars, ~raced' PROVE SequenceInv'
  BY DEF SequenceInv
<1>1. TypeOK
  BY DEF IInv
<1>2. CASE UNCHANGED vars
  <2>1. UNCHANGED <<rows, seq, entry, drawn, pc, top, raced>>
    BY <1>2 DEF vars, schema, table, starts, posts
  <2>2. QED
    BY <2>1, SequenceUntouched DEF BetweenStatements
<1>3. QED
  BY <1>1, <1>2, SequenceStart, SequenceSeed, SequenceResync, SequenceFails, SequenceDraw, SequenceStore
  DEF Next, StartStep, Finished

\* A posted entry finds its id taken only after an entry or a seed got between
\* the two statements of a seed, or a start failed there.
THEOREM IdsCollideOnlyWithSeeding == Spec => []CollidesOnlyWithSeeding
<1>1. Init => IInv /\ SequenceInv
  BY InitInv DEF Init, SequenceInv, InFlight, BetweenStatements
<1>2. (IInv /\ SequenceInv) /\ [Next]_vars => (IInv /\ SequenceInv)'
  BY TypeStep, SchemaStep, TableStep, SequenceStep DEF IInv
<1>3. SequenceInv => CollidesOnlyWithSeeding
  BY DEF SequenceInv, CollidesOnlyWithSeeding
<1>4. QED
  BY <1>1, <1>2, <1>3, PTL DEF Spec

=============================================================================
