---------------------------- MODULE KnowledgeBase ----------------------------
(***************************************************************************)
(* How the programs start on one database, and the FAQ table they share.   *)
(*                                                                         *)
(* bootstrap.New migrates the schema and inserts the seed of the release   *)
(* before a program serves; the api and the bot do so at the same time.    *)
(* An api that serves stores the entries operators post to /faq, whose ids *)
(* come from the sequence of the table.  One action is one SQL statement   *)
(* or COMMIT.  A release is a build with its own migrations and seed file. *)
(***************************************************************************)
EXTENDS Naturals

CONSTANTS
    Processes,   \* programs on the database
    Servers,     \* those that serve POST /faq
    Releases,    \* builds a program may be started from
    Migrations,  \* how many migrations a release carries
    Seeds,       \* how many entries its seed file has, with the ids 1, 2, ...
    Entries,     \* entries operators post
    MaxFaults,   \* failing statements and crashing starts
    MaxExits     \* ends of a serving program

ASSUME KnowledgeAssumption ==
    /\ Servers \subseteq Processes
    /\ Migrations \in [Releases -> Nat]
    /\ Seeds \in [Releases -> Nat]
    /\ Releases \cap Entries = {}
    /\ MaxFaults \in Nat
    /\ MaxExits \in Nat

VARIABLES
    applied,  \* schema_migrations
    ran,      \* history: how often the statements of a version were committed
    rows,     \* faq_embeddings: who wrote the entry of an id, a release's seed or an operator
    seq,      \* the last id the sequence gave
    pc,       \* where each program is
    release,  \* the build it runs
    version,  \* the migration it is at
    top,      \* the greatest id its resync statement read
    entry,    \* what became of each posted entry
    drawn,    \* the id it drew
    via,      \* the program that serves its request
    raced,    \* history: a seed met an entry on its way or another seed, or stopped halfway
    faults, exits

schema == <<applied, ran>>
table  == <<rows, seq>>
starts == <<pc, release, version, top>>
posts  == <<entry, drawn, via>>
vars   == <<schema, table, starts, posts, raced, faults, exits>>

Versions == UNION {1..Migrations[r] : r \in Releases}

Migrating == {"check", "exec", "record", "commit"}
Seeding   == {"seed", "readmax", "setval"}
Starting  == {"ensure"} \cup Migrating \cup Seeding

TypeOK ==
    /\ applied \subseteq Versions
    /\ ran \in [Versions -> Nat]
    /\ DOMAIN rows \subseteq Nat
    /\ \A id \in DOMAIN rows : rows[id] \in Releases \cup Entries
    /\ seq \in Nat
    /\ pc \in [Processes -> {"down", "serving"} \cup Starting]
    /\ release \in [Processes -> Releases]
    /\ version \in [Processes -> Nat]
    /\ top \in [Processes -> Nat]
    /\ entry \in [Entries -> {"new", "drawn", "stored", "collided", "failed"}]
    /\ drawn \in [Entries -> Nat]
    /\ via \in [Entries -> Processes]
    /\ raced \in BOOLEAN
    /\ faults \in 0..MaxFaults
    /\ exits \in 0..MaxExits

Init ==
    /\ applied = {}
    /\ ran = [v \in Versions |-> 0]
    /\ rows = [id \in {} |-> 0]
    /\ seq = 0
    /\ pc = [p \in Processes |-> "down"]
    /\ release \in [Processes -> Releases]
    /\ version = [p \in Processes |-> 0]
    /\ top = [p \in Processes |-> 0]
    /\ entry = [e \in Entries |-> "new"]
    /\ drawn = [e \in Entries |-> 0]
    /\ via \in [Entries -> Servers]
    /\ raced = FALSE
    /\ faults = 0
    /\ exits = 0

InFlight == {e \in Entries : entry[e] = "drawn"}

\* The rows that are there stay; the other ids get v.
InsertMissing(ids, v) ==
    rows' = [id \in DOMAIN rows \cup ids |-> IF id \in DOMAIN rows THEN rows[id] ELSE v]

\* The programs that have seeded and have not set the sequence yet.
BetweenStatements == {p \in Processes : pc[p] \in {"readmax", "setval"}}

Goto(p, label) == pc' = [pc EXCEPT ![p] = label]

-----------------------------------------------------------------------------
(* Migrate                                                                 *)

\* The container is started, from the build that is deployed now.
Start(p) ==
    /\ pc[p] = "down"
    /\ Goto(p, "ensure")
    /\ \E r \in Releases : release' = [release EXCEPT ![p] = r]
    /\ UNCHANGED <<schema, table, version, top, posts, raced, faults, exits>>

EnsureTable(p) ==
    /\ pc[p] = "ensure"
    /\ Goto(p, "check")
    /\ version' = [version EXCEPT ![p] = 1]
    /\ UNCHANGED <<schema, table, release, top, posts, raced, faults, exits>>

\* Mutant: what was applied is not looked up.
CheckNothing(p) ==
    /\ pc[p] = "check"
    /\ version[p] <= Migrations[release[p]]
    /\ Goto(p, "exec")
    /\ UNCHANGED <<schema, table, release, version, top, posts, raced, faults, exits>>

\* isApplied: a version on record is skipped.
CheckApplied(p) ==
    /\ pc[p] = "check"
    /\ version[p] <= Migrations[release[p]]
    /\ IF version[p] \in applied
       THEN version' = [version EXCEPT ![p] = @ + 1] /\ UNCHANGED pc
       ELSE Goto(p, "exec") /\ UNCHANGED version
    /\ UNCHANGED <<schema, table, release, top, posts, raced, faults, exits>>

\* No version is left.
Migrated(p) ==
    /\ pc[p] = "check"
    /\ version[p] > Migrations[release[p]]
    /\ Goto(p, "seed")
    /\ UNCHANGED <<schema, table, release, version, top, posts, raced, faults, exits>>

\* The statements of the file, in a transaction.
ExecMigration(p) ==
    /\ pc[p] = "exec"
    /\ Goto(p, "record")
    /\ UNCHANGED <<schema, table, release, version, top, posts, raced, faults, exits>>

\* The insert waits for another transaction's insert of the same key.
KeyIsFree(p) ==
    \A q \in Processes : pc[q] = "commit" => version[q] # version[p]

\* A version another program recorded since violates the primary key: the
\* transaction is rolled back, New returns the error and the program exits.
RecordMigration(p) ==
    /\ pc[p] = "record"
    /\ KeyIsFree(p)
    /\ Goto(p, IF version[p] \in applied THEN "down" ELSE "commit")
    /\ UNCHANGED <<schema, table, release, version, top, posts, raced, faults, exits>>

\* The transaction of p takes effect.
Commit(p) ==
    /\ applied' = applied \cup {version[p]}
    /\ ran' = [ran EXCEPT ![version[p]] = @ + 1]

CommitMigration(p) ==
    /\ pc[p] = "commit"
    /\ Commit(p)
    /\ Goto(p, "check")
    /\ version' = [version EXCEPT ![p] = @ + 1]
    /\ UNCHANGED <<table, release, top, posts, raced, faults, exits>>

-----------------------------------------------------------------------------
(* SeedFAQ                                                                 *)

InsertSeed(p) == InsertMissing(1..Seeds[release[p]], release[p])

\* An empty seed file ends the start; otherwise the rows go in first and the
\* sequence is set in a statement of its own.
SeedFAQ(p) ==
    /\ pc[p] = "seed"
    /\ Goto(p, IF Seeds[release[p]] = 0 THEN "serving" ELSE "readmax")
    /\ InsertSeed(p)
    /\ raced' = (raced \/ InFlight # {} \/ BetweenStatements \ {p} # {})
    /\ UNCHANGED <<schema, seq, release, version, top, posts, faults, exits>>

\* The subquery of the resync statement sees the rows committed by now.
ReadMax(p) ==
    /\ pc[p] = "readmax"
    /\ Goto(p, "setval")
    /\ \E n \in DOMAIN rows \cup {1} :
          /\ \A id \in DOMAIN rows : id <= n
          /\ top' = [top EXCEPT ![p] = n]
    /\ raced' = (raced \/ InFlight # {})
    /\ UNCHANGED <<schema, table, release, version, posts, faults, exits>>

\* Mutant: the sequence is left where it was.
LeaveSequence(p) ==
    /\ pc[p] = "setval"
    /\ Goto(p, "serving")
    /\ raced' = (raced \/ InFlight # {})
    /\ UNCHANGED <<schema, table, release, version, top, posts, faults, exits>>

SetVal(p) ==
    /\ pc[p] = "setval"
    /\ Goto(p, "serving")
    /\ seq' = top[p]
    /\ raced' = (raced \/ InFlight # {})
    /\ UNCHANGED <<schema, rows, release, version, top, posts, faults, exits>>

-----------------------------------------------------------------------------
(* IngestFAQ                                                               *)

\* The default of the id column: nextval runs first, outside the transaction.
DrawId(e) ==
    /\ entry[e] = "new"
    /\ \E p \in Servers :
          /\ pc[p] = "serving"
          /\ via' = [via EXCEPT ![e] = p]
    /\ seq' = seq + 1
    /\ drawn' = [drawn EXCEPT ![e] = seq + 1]
    /\ entry' = [entry EXCEPT ![e] = "drawn"]
    /\ raced' = (raced \/ BetweenStatements # {})
    /\ UNCHANGED <<schema, rows, starts, faults, exits>>

\* Mutant: the entry goes in without a look at its id.
StoreOver(e) ==
    /\ entry[e] = "drawn"
    /\ entry' = [entry EXCEPT ![e] = "stored"]
    /\ rows' = [id \in DOMAIN rows \cup {drawn[e]} |-> IF id = drawn[e] THEN e ELSE rows[id]]
    /\ UNCHANGED <<schema, seq, starts, drawn, via, raced, faults, exits>>

\* Add: the id is the primary key.
StoreEntry(e) ==
    /\ entry[e] = "drawn"
    /\ IF drawn[e] \in DOMAIN rows
       THEN entry' = [entry EXCEPT ![e] = "collided"] /\ UNCHANGED rows
       ELSE entry' = [entry EXCEPT ![e] = "stored"] /\ InsertMissing({drawn[e]}, e)
    /\ UNCHANGED <<schema, seq, starts, drawn, via, raced, faults, exits>>

-----------------------------------------------------------------------------
(* Failures                                                                *)

\* Mutant: the program goes on with the next version.
SkipFailed(p) ==
    /\ faults < MaxFaults
    /\ faults' = faults + 1
    /\ pc[p] \in {"exec", "record"}
    /\ Goto(p, "check")
    /\ version' = [version EXCEPT ![p] = @ + 1]
    /\ UNCHANGED <<schema, table, release, top, posts, raced, exits>>

\* A statement of a start fails or the program crashes; the server may commit
\* what the program never hears of.
StartFails(p) ==
    /\ faults < MaxFaults
    /\ faults' = faults + 1
    /\ pc[p] \in Starting
    /\ Goto(p, "down")
    /\ \/ UNCHANGED schema
       \/ pc[p] = "commit" /\ Commit(p)
    /\ raced' = (raced \/ p \in BetweenStatements)
    /\ UNCHANGED <<table, release, version, top, posts, exits>>

\* The insert of an entry fails, or its answer is lost: the handler says 500.
LoseEntry(e) ==
    /\ faults < MaxFaults
    /\ faults' = faults + 1
    /\ entry[e] = "drawn"
    /\ entry' = [entry EXCEPT ![e] = "failed"]
    /\ \/ UNCHANGED rows
       \/ InsertMissing({drawn[e]}, e)
    /\ UNCHANGED <<schema, seq, starts, drawn, via, raced, exits>>

\* A serving program is stopped, redeployed or dies, when it has answered what
\* it was asked; a request it dies with counts as lost first.
Exit(p) ==
    /\ exits < MaxExits
    /\ exits' = exits + 1
    /\ pc[p] = "serving"
    /\ \A e \in InFlight : via[e] # p
    /\ Goto(p, "down")
    /\ UNCHANGED <<schema, table, release, version, top, posts, raced, faults>>

Finished ==
    /\ \A p \in Processes : pc[p] = "serving"
    /\ \A e \in Entries : entry[e] \notin {"new", "drawn"}
    /\ UNCHANGED vars

StartStep(p) ==
    \/ Start(p) \/ EnsureTable(p)
    \/ CheckApplied(p) \/ Migrated(p) \/ ExecMigration(p) \/ RecordMigration(p) \/ CommitMigration(p)
    \/ SeedFAQ(p) \/ ReadMax(p) \/ SetVal(p)

Next ==
    \/ \E p \in Processes : StartStep(p) \/ StartFails(p) \/ Exit(p)
    \/ \E e \in Entries : DrawId(e) \/ StoreEntry(e) \/ LoseEntry(e)
    \/ Finished

Spec == Init /\ [][Next]_vars

\* A start is a sequence of statements, and the containers are restarted unless
\* stopped by hand.
FairSpec ==
    /\ Spec
    /\ \A p \in Processes : WF_vars(StartStep(p))
    /\ \A e \in Entries : WF_vars(StoreEntry(e))

-----------------------------------------------------------------------------
(* Properties                                                              *)

\* However starts overlap and fail, a version is applied after all earlier ones,
\* its statements take effect once, and they do together with its record.
MigrationsApplyOnceInOrder ==
    \A v \in Versions :
        /\ ran[v] = IF v \in applied THEN 1 ELSE 0
        /\ v \in applied => 1..v \subseteq applied

\* A program serves on a schema that has all its migrations and a table that has
\* an entry under every id of its seed, whichever program put them there.
ServesOnWhatItNeeds ==
    \A p \in Processes : pc[p] = "serving" =>
        /\ 1..Migrations[release[p]] \subseteq applied
        /\ 1..Seeds[release[p]] \subseteq DOMAIN rows

\* "rows that already exist are never overwritten": no later seed, of whatever
\* release, and no posted entry changes who wrote a row.
RowsAreNeverOverwritten ==
    [][\A id \in DOMAIN rows : id \in DOMAIN rows' /\ rows'[id] = rows[id]]_vars

\* The id a client is given belongs to its entry from then on, and an entry that
\* was refused is not in the table.
AcknowledgedEntriesAreStored ==
    \A e \in Entries :
        /\ entry[e] = "stored" => drawn[e] \in DOMAIN rows /\ rows[drawn[e]] = e
        /\ entry[e] = "collided" => \A id \in DOMAIN rows : rows[id] # e

\* "Keep the sequence past the seeded ids": a posted entry finds its id taken
\* only after another entry or seed got between the two statements of a seed, or
\* a start failed between them.
CollidesOnlyWithSeeding == (\E e \in Entries : entry[e] = "collided") => raced

\* A program that is started gets to serve: one that loses the race for a
\* migration does so once for each version, and not for ever.
StartsSucceed == \A p \in Processes : pc[p] = "down" ~> pc[p] = "serving"

=============================================================================
