------------------------------- MODULE Migration -------------------------------
(* The one-shot migration of a ledger file to the schema with tenants         *)
(* (app/migrate_tenancy.py), run by any number of processes over one file     *)
(* while an old server may still be writing to it.  A file is legacy, with    *)
(* rows nobody owns, or current.  Everything between BEGIN IMMEDIATE and      *)
(* COMMIT is in the transaction of the process that has the write lock; the   *)
(* backup is a file of its own.  A process may be killed at any step.         *)
EXTENDS Naturals, FiniteSets

CONSTANTS
  Migrators,   \* processes that run the migration
  Targets,     \* tenants; each process is configured for one
  NoTarget,    \* PAYPILOT_LEGACY_TENANT is not set, or no owner is recorded
  RowIds,      \* ids an AUTOINCREMENT table hands out, from 1
  MaxMgOps     \* bound: starts, rows written and failures

VARIABLES
  ledgerFile,  \* the file: kind, rows with their owner, sequence, recorded owner
  writeLock,   \* the process that holds it
  migrator,    \* process -> its environment, step and what it holds
  backups,     \* complete backups: the rows of each
  everUsed,    \* ids the table has ever handed out
  mgOps

mgvars == <<ledgerFile, writeLock, migrator, backups, everUsed, mgOps>>

Noone == "noone"
ASSUME MigrationAssumption == Noone \notin Migrators /\ NoTarget \notin Targets

Legacy(rows, seq) == [kind |-> "legacy", rows |-> rows, seq |-> seq, owner |-> NoTarget]
Away == [at |-> "away"]

MGInit ==
  /\ \E n \in 0..1 : ledgerFile = Legacy([k \in 1..n |-> NoTarget], n) /\ everUsed = 1..n
  /\ writeLock = Noone /\ migrator = [p \in Migrators |-> Away] /\ backups = {} /\ mgOps = 0

Costs == mgOps < MaxMgOps /\ mgOps' = mgOps + 1

\* The old server inserts a row or deletes one (an erasure).
OldServerWrites ==
  /\ Costs /\ ledgerFile.kind = "legacy" /\ writeLock = Noone
  /\ \/ /\ ledgerFile.seq + 1 \in RowIds
        /\ ledgerFile' = Legacy([k \in DOMAIN ledgerFile.rows \cup {ledgerFile.seq + 1} |-> NoTarget],
                                ledgerFile.seq + 1)
        /\ everUsed' = everUsed \cup {ledgerFile.seq + 1}
     \/ \E k \in DOMAIN ledgerFile.rows :
          /\ ledgerFile' = Legacy([l \in DOMAIN ledgerFile.rows \ {k} |-> NoTarget], ledgerFile.seq)
          /\ UNCHANGED everUsed
  /\ UNCHANGED <<writeLock, migrator, backups>>

\* The new server inserts, under the recorded owner.
NewServerWrites ==
  /\ Costs /\ ledgerFile.kind = "current" /\ writeLock = Noone
  /\ LET k == ledgerFile.seq + 1
     IN /\ k \in RowIds
        /\ ledgerFile' = [ledgerFile EXCEPT !.seq = k,
             !.rows = [l \in DOMAIN @ \cup {k} |-> IF l = k THEN ledgerFile.owner ELSE @[l]]]
        /\ everUsed' = everUsed \cup {k}
  /\ UNCHANGED <<writeLock, migrator, backups>>

\* migrate: the kind is probed before any lock.
Starts(p, configured, legacyTenant) ==
  /\ migrator[p] = Away /\ Costs
  /\ migrator' = [migrator EXCEPT ![p] =
       [at |-> "begin", configured |-> configured, legacyTenant |-> legacyTenant,
        before |-> ledgerFile.rows]]
  /\ UNCHANGED <<ledgerFile, writeLock, backups, everUsed>>

\* _legacy_digests, inside the transaction.
Digested(p) == ledgerFile.rows

\* _decide_target: with rows the operator has to name their owner, and it has to
\* be the tenant the app reads; without rows, nothing may contradict it.
TargetChosen(m, rows) ==
  IF rows # <<>> THEN m.legacyTenant = m.configured
  ELSE m.legacyTenant \in {NoTarget, m.configured}

\* BEGIN IMMEDIATE, the second probe, the target and the digests.
Begins(p) ==
  /\ migrator[p].at = "begin" /\ writeLock = Noone
  /\ ledgerFile.kind = "legacy" /\ TargetChosen(migrator[p], ledgerFile.rows)
  /\ writeLock' = p
  /\ migrator' = [migrator EXCEPT ![p] = [@ EXCEPT !.at = "backup", !.before = Digested(p)]]
  /\ UNCHANGED <<ledgerFile, backups, everUsed, mgOps>>

\* _reconcile_current: an owner that is not the configured one is a refusal.
FindsCurrent(p) ==
  /\ migrator[p].at = "begin" /\ writeLock = Noone /\ ledgerFile.kind = "current"
  /\ migrator' = [migrator EXCEPT ![p] = Away]
  /\ UNCHANGED <<ledgerFile, writeLock, backups, everUsed, mgOps>>

\* _take_backup: the reader copies what is committed, the copy is digested and
\* compared, and only then gets its name.
TakesBackup(p) ==
  /\ migrator[p].at = "backup" /\ ledgerFile.rows = migrator[p].before
  /\ backups' = backups \cup {ledgerFile.rows}
  /\ migrator' = [migrator EXCEPT ![p] = [@ EXCEPT !.at = "rebuild"]]
  /\ UNCHANGED <<ledgerFile, writeLock, everUsed, mgOps>>

\* The rebuilt table counts on from its highest row.
SequenceOfRows(f) == IF DOMAIN f.rows = {} THEN 0 ELSE CHOOSE n \in DOMAIN f.rows : \A k \in DOMAIN f.rows : k <= n

\* sqlite_sequence carries over: MAX of the rows' and the table's own.
SequenceKept(f) == f.seq

\* _rebuild and COMMIT: every row under the target, the owner recorded, and each
\* table's digest as it was before.
Rebuilds(p) ==
  /\ migrator[p].at = "rebuild" /\ DOMAIN ledgerFile.rows = DOMAIN migrator[p].before
  /\ LET target == migrator[p].configured
     IN ledgerFile' = [kind |-> "current", rows |-> [k \in DOMAIN ledgerFile.rows |-> target],
                       seq |-> SequenceKept(ledgerFile), owner |-> target]
  /\ writeLock' = Noone /\ migrator' = [migrator EXCEPT ![p] = Away]
  /\ UNCHANGED <<backups, everUsed, mgOps>>

\* A refusal, an error or the end of the process: the transaction is undone.
GivesUp(p) ==
  /\ migrator[p] # Away /\ Costs
  /\ migrator' = [migrator EXCEPT ![p] = Away]
  /\ writeLock' = IF writeLock = p THEN Noone ELSE writeLock
  /\ UNCHANGED <<ledgerFile, backups, everUsed>>

MGNext ==
  \/ OldServerWrites \/ NewServerWrites
  \/ \E p \in Migrators :
       \/ \E c \in Targets, l \in Targets \cup {NoTarget} : Starts(p, c, l)
       \/ Begins(p) \/ FindsCurrent(p) \/ TakesBackup(p) \/ Rebuilds(p) \/ GivesUp(p)

MGSpec == MGInit /\ [][MGNext]_mgvars

-----------------------------------------------------------------------------
\* The file is never without an owner or with two: all its rows belong to the
\* tenant that is recorded, or nobody owns any; and an id that was ever handed
\* out is not handed out again after the migration (migrate_tenancy.py:330-372).
OneOwnerAndNoIdTwice ==
  /\ \A k \in DOMAIN ledgerFile.rows : ledgerFile.rows[k] = ledgerFile.owner
  /\ ledgerFile.kind = "current" <=> ledgerFile.owner # NoTarget
  /\ \A k \in everUsed : k <= ledgerFile.seq

\* The step that changes the schema loses no row that anybody committed, and a
\* complete backup of exactly the rows it found is on the disk by then.
MigratesOnlyWithBackup ==
  [][ledgerFile.kind = "legacy" /\ ledgerFile'.kind = "current" =>
       DOMAIN ledgerFile'.rows = DOMAIN ledgerFile.rows /\ ledgerFile.rows \in backups]_mgvars
=============================================================================
