------------------------------ MODULE AdminProofs ------------------------------
(* Proofs about what operators and the admins of tenants do: the              *)
(* configuration of a tenant (TenantConfig), the migration of the ledger      *)
(* (Migration), and the tokens and the checks of a request (Access).  The     *)
(* components share no state.                                                 *)
EXTENDS TenantConfig, Migration, Access, FiniteSetTheorems, SequenceTheorems, TLAPS

-------------------------------------------------------------------------------
(* TenantConfig, for any writers, keys, edits, grants and bound. *)

\* The fields a command may carry.
Sent == Edits \cup Grants \cup {<<>>}

\* A writer at rest has no command; any other has one of a save or of a grant.
AsCommand(c) ==
  \E at \in {"asked", "writing"}, fields \in Sent : \E kind, secret, read :
    c = [at |-> at, kind |-> kind, fields |-> fields, secret |-> secret, read |-> read]

WritersTyped ==
  /\ DOMAIN writer = Writers
  /\ \A w \in Writers : writer[w] = AtRest \/ AsCommand(writer[w])

\* Whoever writes has the lock, and what it read is what the row holds.
LockInv ==
  \A w \in Writers : writer[w].at = "writing" => confLock = w /\ writer[w].read = confRow

\* The stored list of domains parses.
DomainsInv ==
  LET b == said.behaviour
  IN "allowed_from_domains" \in DOMAIN b => b["allowed_from_domains"] # {"junk"}

ConfigStateInv == WritersTyped /\ LockInv /\ RowHoldsEveryCommand /\ DomainsInv

LEMMA EmptyDomain == DOMAIN <<>> = {}
  OBVIOUS

LEMMA MergedAt ==
  ASSUME NEW f, NEW g
  PROVE  /\ DOMAIN Merged(f, g) = DOMAIN f \cup DOMAIN g
         /\ \A x \in DOMAIN f : Merged(f, g)[x] = f[x]
         /\ \A x \in DOMAIN g \ DOMAIN f : Merged(f, g)[x] = g[x]
  BY DEF Merged

LEMMA InitConfig == TCInit => ConfigStateInv
  BY EmptyDomain DEF TCInit, ConfigStateInv, WritersTyped, LockInv, RowHoldsEveryCommand, DomainsInv, NoConf, AtRest

LEMMA CommandKeeps ==
  ASSUME ConfigStateInv, NEW w \in Writers, NEW kind, NEW f \in Sent, NEW s,
         Command(w, kind, f, s)
  PROVE  ConfigStateInv'
<1>1. AsCommand(writer'[w])
  BY DEF Command, ConfigStateInv, WritersTyped, AsCommand
<1>2. DOMAIN writer' = Writers /\ \A v \in Writers \ {w} : writer'[v] = writer[v]
  BY DEF Command, ConfigStateInv, WritersTyped
<1>3. WritersTyped'
  BY <1>1, <1>2 DEF ConfigStateInv, WritersTyped, AsCommand, AtRest
<1>5. writer'[w].at = "asked"
  BY DEF Command, ConfigStateInv, WritersTyped
<1>4. LockInv'
  BY <1>2, <1>5 DEF Command, ConfigStateInv, LockInv
<1> QED BY <1>3, <1>4 DEF Command, ConfigStateInv, RowHoldsEveryCommand, DomainsInv

LEMMA AtWriting ==
  ASSUME NEW command, NEW row, AsCommand(command)
  PROVE  \E fields \in Sent : \E kind, secret :
           [command EXCEPT !.at = "writing", !.read = row]
             = [at |-> "writing", kind |-> kind, fields |-> fields, secret |-> secret, read |-> row]
<1>1. PICK at \in {"asked", "writing"}, fields \in Sent : \E kind, secret, read :
        command = [at |-> at, kind |-> kind, fields |-> fields, secret |-> secret, read |-> read]
  BY DEF AsCommand
<1>2. PICK kind, secret, read :
        command = [at |-> at, kind |-> kind, fields |-> fields, secret |-> secret, read |-> read]
  BY <1>1
<1> DEFINE c == [at |-> at, kind |-> kind, fields |-> fields, secret |-> secret, read |-> read]
           d == [at |-> "writing", kind |-> kind, fields |-> fields, secret |-> secret, read |-> read]
<1>3. [c EXCEPT !.at = "writing"] = d
  OBVIOUS
<1>4. [d EXCEPT !.read = row]
        = [at |-> "writing", kind |-> kind, fields |-> fields, secret |-> secret, read |-> row]
  OBVIOUS
<1>5. [c EXCEPT !.at = "writing", !.read = row] = [[c EXCEPT !.at = "writing"] EXCEPT !.read = row]
  OBVIOUS
<1>6. [command EXCEPT !.at = "writing", !.read = row]
        = [at |-> "writing", kind |-> kind, fields |-> fields, secret |-> secret, read |-> row]
  BY <1>2, <1>3, <1>4, <1>5
<1> QED BY <1>6

LEMMA BeginCommandKeeps ==
  ASSUME ConfigStateInv, NEW w \in Writers, BeginWrite(w)
  PROVE  ConfigStateInv'
<1>1. AsCommand(writer[w])
  BY DEF BeginWrite, ConfigStateInv, WritersTyped, AtRest
<1>2. DOMAIN writer' = Writers /\ \A v \in Writers \ {w} : writer'[v] = writer[v]
  BY DEF BeginWrite, ConfigStateInv, WritersTyped
<1>3. writer'[w] = [writer[w] EXCEPT !.at = "writing", !.read = confRow]
  BY DEF BeginWrite, ConfigStateInv, WritersTyped, RowRead
<1>4. PICK fields \in Sent : \E kind, secret :
        writer'[w] = [at |-> "writing", kind |-> kind, fields |-> fields, secret |-> secret, read |-> confRow]
  <2> DEFINE e == [writer[w] EXCEPT !.at = "writing", !.read = confRow]
  <2>1. \E fields \in Sent : \E kind, secret :
          e = [at |-> "writing", kind |-> kind, fields |-> fields, secret |-> secret, read |-> confRow]
    BY <1>1, AtWriting
  <2>2. writer'[w] = e
    BY <1>3
  <2> HIDE DEF e
  <2> QED BY <2>1, <2>2
<1>5. WritersTyped'
  <2>1. AsCommand(writer'[w])
    BY <1>4 DEF AsCommand
  <2> QED BY <2>1, <1>2 DEF ConfigStateInv, WritersTyped, AsCommand, AtRest
<1>6. LockInv'
  <2>1. \A v \in Writers \ {w} : writer[v].at # "writing"
    BY WritersAssumption DEF BeginWrite, ConfigStateInv, LockInv
  <2>2. writer'[w].read = confRow
    BY <1>4
  <2> QED BY <1>2, <2>1, <2>2 DEF BeginWrite, LockInv
<1> QED BY <1>5, <1>6 DEF BeginWrite, ConfigStateInv, RowHoldsEveryCommand, DomainsInv

\* The end of a transaction, committed or not.
LEMMA WriterRests ==
  ASSUME ConfigStateInv, NEW w \in Writers, writer[w].at = "writing", writer' = [writer EXCEPT ![w] = AtRest]
  PROVE  WritersTyped' /\ LockInv'
<1>1. DOMAIN writer' = Writers /\ writer'[w] = AtRest /\ \A v \in Writers \ {w} : writer'[v] = writer[v]
  BY DEF ConfigStateInv, WritersTyped
<1>2. WritersTyped'
  <2>1. \A v \in Writers \ {w} : writer'[v] = AtRest \/ AsCommand(writer'[v])
    BY <1>1 DEF ConfigStateInv, WritersTyped
  <2> QED BY <1>1, <2>1 DEF WritersTyped
<1>3. \A v \in Writers \ {w} : writer[v].at # "writing"
  BY DEF ConfigStateInv, LockInv
<1>4. LockInv'
  BY <1>1, <1>3 DEF LockInv, AtRest
<1> QED BY <1>2, <1>4

LEMMA CommitKeeps ==
  ASSUME ConfigStateInv, NEW w \in Writers, CommitWrite(w)
  PROVE  ConfigStateInv'
<1>1. WritersTyped' /\ LockInv'
  BY WriterRests DEF CommitWrite
<1>2. writer[w].read = confRow
  BY DEF CommitWrite, ConfigStateInv, LockInv
<1>3. RowHoldsEveryCommand'
  BY <1>2 DEF CommitWrite, ConfigStateInv, RowHoldsEveryCommand
<1>4. writer[w].fields \in Sent
  BY DEF CommitWrite, ConfigStateInv, WritersTyped, AsCommand, AtRest
<1>5. said'.behaviour = Merged(writer[w].fields, said.behaviour)
  BY DEF CommitWrite
<1>6. DomainsInv'
  <2> DEFINE f == writer[w].fields
             d == "allowed_from_domains"
  <2>1. d \in DOMAIN f => f[d] # {"junk"}
    BY <1>4, EmptyDomain, EditsAssumption DEF Sent
  <2>2. d \in DOMAIN said.behaviour => said.behaviour[d] # {"junk"}
    BY DEF ConfigStateInv, DomainsInv
  <2> HIDE DEF f, d
  <2>3. d \in DOMAIN Merged(f, said.behaviour) => Merged(f, said.behaviour)[d] # {"junk"}
    BY <2>1, <2>2 DEF Merged
  <2> QED BY <1>5, <2>3 DEF DomainsInv, d, f
<1> QED BY <1>1, <1>3, <1>6 DEF ConfigStateInv

LEMMA StepConfig == ConfigStateInv /\ [TCNext]_tcvars => ConfigStateInv'
<1> SUFFICES ASSUME ConfigStateInv, [TCNext]_tcvars PROVE ConfigStateInv'
  OBVIOUS
<1>1. ASSUME NEW w \in Writers, RollBackWrite(w) PROVE ConfigStateInv'
  BY <1>1, WriterRests DEF RollBackWrite, ConfigStateInv, RowHoldsEveryCommand, DomainsInv
<1>2. ASSUME NEW k \in FernetKeys \cup {NoFernetKey}, ChangeKey(k) PROVE ConfigStateInv'
  BY <1>2 DEF ChangeKey, ConfigStateInv, WritersTyped, LockInv, RowHoldsEveryCommand, DomainsInv
<1>3. CASE UNCHANGED tcvars
  BY <1>3 DEF tcvars, ConfigStateInv, WritersTyped, LockInv, RowHoldsEveryCommand, DomainsInv
<1> QED BY <1>1, <1>2, <1>3, CommandKeeps, BeginCommandKeeps, CommitKeeps DEF TCNext, Sent

\* What is in force of a row that holds every command.
LEMMA InForce ==
  ASSUME RowHoldsEveryCommand, DomainsInv
  PROVE  InForceIsGranted
<1> DEFINE b == said.behaviour
           Last(f) == IF f \in DOMAIN b THEN b[f] ELSE PlatformBase[f]
           set == [f \in DOMAIN b |-> Coerce(f, b[f])]
           base == Merged(set, PlatformBase)
           Fields == {"approval_mode", "from_address", "send_enabled", "allowed_from_domains", "llm_budget_usd"}
<1>1. DOMAIN PlatformBase = Fields
  BY DEF PlatformBase
<1>2. Fields \subseteq DOMAIN base
  BY <1>1, MergedAt
<1>3. \A f \in Fields : base[f] = IF f \in DOMAIN b THEN Coerce(f, b[f]) ELSE PlatformBase[f]
  <2> SUFFICES ASSUME NEW f \in Fields PROVE base[f] = IF f \in DOMAIN b THEN Coerce(f, b[f]) ELSE PlatformBase[f]
    OBVIOUS
  <2>1. DOMAIN set = DOMAIN b /\ (f \in DOMAIN b => set[f] = Coerce(f, b[f]))
    OBVIOUS
  <2> HIDE DEF set, b
  <2>2. CASE f \in DOMAIN b
    BY <2>1, <2>2 DEF Merged
  <2>3. CASE f \notin DOMAIN b
    BY <1>1, <2>1, <2>3 DEF Merged
  <2> QED BY <2>2, <2>3
<1>4. base["allowed_from_domains"] = Last("allowed_from_domains")
  BY <1>3 DEF DomainsInv, Coerce
<1>5. base["send_enabled"] = {"on"} => Last("send_enabled") = {"on"}
  BY <1>3 DEF Coerce, Closed
<1>6. base["llm_budget_usd"] = {"no ceiling"} => Last("llm_budget_usd") = {"no ceiling"}
  BY <1>3 DEF Coerce, Closed
<1> SUFFICES ASSUME NEW demo \in BOOLEAN
             PROVE  LET c == ConfigFor(demo) IN
                    /\ c.send_enabled = {"on"} => Last("send_enabled") = {"on"} /\ ~demo
                    /\ c.from_address # PlatformBase.from_address =>
                         c.from_address \subseteq Last("allowed_from_domains")
                    /\ c.llm_budget_usd = {"no ceiling"} => Last("llm_budget_usd") = {"no ceiling"}
  BY DEF InForceIsGranted
<1> HIDE DEF Last
<1>7. ConfigFor(demo) = Finished(SenderAllowed(base), demo)
  BY DEF ConfigFor, RowHoldsEveryCommand
<1> HIDE DEF base
<1> DEFINE sender == SenderAllowed(base)
           force == Finished(sender, demo)
<1>8. /\ DOMAIN sender = DOMAIN base
      /\ sender["send_enabled"] = base["send_enabled"]
      /\ sender["llm_budget_usd"] = base["llm_budget_usd"]
      /\ sender["from_address"] # PlatformBase.from_address =>
           sender["from_address"] \subseteq Last("allowed_from_domains")
  BY <1>2, <1>4 DEF SenderAllowed
<1> HIDE DEF sender
<1>9. /\ force["send_enabled"] = {"on"} => sender["send_enabled"] = {"on"} /\ ~demo
      /\ force["llm_budget_usd"] = sender["llm_budget_usd"]
      /\ force["from_address"] = sender["from_address"]
  <2>1. {"send_enabled", "llm_budget_usd", "from_address"} \subseteq DOMAIN sender
    BY <1>2, <1>8
  <2>2. CASE demo
    <3>1. force = [sender EXCEPT !["send_enabled"] = {"off"}]
      BY <2>2 DEF Finished
    <3> QED BY <2>1, <3>1
  <2>3. CASE ~demo
    BY <2>3 DEF Finished
  <2> QED BY <2>2, <2>3
<1> HIDE DEF force
<1>11. force.send_enabled = {"on"} => Last("send_enabled") = {"on"} /\ ~demo
  BY <1>5, <1>8, <1>9
<1>12. force.from_address # PlatformBase.from_address => force.from_address \subseteq Last("allowed_from_domains")
  BY <1>8, <1>9
<1>13. force.llm_budget_usd = {"no ceiling"} => Last("llm_budget_usd") = {"no ceiling"}
  BY <1>6, <1>8, <1>9
<1> QED BY <1>7, <1>11, <1>12, <1>13 DEF force, sender

LEMMA ConfigInv == TCSpec => []ConfigStateInv
  BY InitConfig, StepConfig, PTL DEF TCSpec

\* No command to one row is lost under another's, and what is in force never exceeds the
\* operator's last word (tenant_config.py:373-401, 466-563).
THEOREM NoCommandLostNoneExceeded == TCSpec => []ConfigHolds
<1>1. ConfigStateInv => ConfigHolds
  BY InForce DEF ConfigStateInv, ConfigHolds
<1> QED BY <1>1, ConfigInv, PTL

-------------------------------------------------------------------------------
(* Migration, for any processes, tenants, ids and bound. *)

\* The file: a legacy one has no owner, a current one has; no id ever handed out is ahead
\* of the sequence.
FileInv ==
  /\ \/ ledgerFile.kind = "legacy" /\ ledgerFile.owner = NoTarget
     \/ ledgerFile.kind = "current" /\ ledgerFile.owner \in Targets
  /\ \E kind, rows, seq, owner :
       ledgerFile = [kind |-> kind, rows |-> rows, seq |-> seq, owner |-> owner]
  /\ \A k \in DOMAIN ledgerFile.rows : ledgerFile.rows[k] = ledgerFile.owner
  /\ ledgerFile.seq \in Nat /\ everUsed \subseteq 0..ledgerFile.seq

\* A process that runs the migration.
AsRun(m) ==
  \E at, configured, legacyTenant, before :
    m = [at |-> at, configured |-> configured, legacyTenant |-> legacyTenant, before |-> before]

\* Whoever is past the probe under the lock holds it, over a legacy file; once it has its
\* backup, the backup is of the rows in the file.
HolderOk(p) ==
  /\ migrator[p] = Away \/ (AsRun(migrator[p]) /\ migrator[p].configured \in Targets)
  /\ migrator[p].at \in {"backup", "rebuild"} => writeLock = p /\ ledgerFile.kind = "legacy"
  /\ migrator[p].at = "rebuild" => ledgerFile.rows \in backups

HolderInv == DOMAIN migrator = Migrators /\ \A p \in Migrators : HolderOk(p)

MigrationStateInv == FileInv /\ HolderInv

\* A legacy file whose rows nobody owns.
LEMMA LegacyIsFile ==
  ASSUME NEW S, NEW n \in Nat, ledgerFile = Legacy([k \in S |-> NoTarget], n), everUsed \subseteq 0..n
  PROVE  FileInv
<1> DEFINE rows == [k \in S |-> NoTarget]
<1>1. \A k \in DOMAIN rows : rows[k] = NoTarget
  OBVIOUS
<1> HIDE DEF rows
<1>2. ledgerFile = [kind |-> "legacy", rows |-> rows, seq |-> n, owner |-> NoTarget]
  BY DEF Legacy, rows
<1>3. /\ ledgerFile.kind = "legacy" /\ ledgerFile.owner = NoTarget /\ ledgerFile.rows = rows
      /\ ledgerFile.seq = n
  BY <1>2
<1>4. \E kind, r, seq, owner : ledgerFile = [kind |-> kind, rows |-> r, seq |-> seq, owner |-> owner]
  BY <1>2
<1> QED BY <1>1, <1>3, <1>4 DEF FileInv

LEMMA InitMigration == MGInit => MigrationStateInv
<1> SUFFICES ASSUME MGInit PROVE MigrationStateInv
  OBVIOUS
<1>1. PICK n \in 0..1 : ledgerFile = Legacy([k \in 1..n |-> NoTarget], n) /\ everUsed = 1..n
  BY DEF MGInit
<1>2. FileInv
  BY <1>1, LegacyIsFile
<1>3. HolderInv
  BY DEF MGInit, HolderInv, HolderOk, Away
<1> QED BY <1>2, <1>3 DEF MigrationStateInv

\* A record of a run after the step that sets where it is.
LEMMA RunGoesOn ==
  ASSUME NEW m, NEW l, AsRun(m)
  PROVE  /\ AsRun([m EXCEPT !.at = l]) /\ [m EXCEPT !.at = l].at = l
         /\ [m EXCEPT !.at = l].configured = m.configured
<1>1. PICK at, c, t, b : m = [at |-> at, configured |-> c, legacyTenant |-> t, before |-> b]
  BY DEF AsRun
<1>2. [m EXCEPT !.at = l] = [at |-> l, configured |-> c, legacyTenant |-> t, before |-> b]
  BY <1>1
<1> HIDE <1>1
<1> DEFINE e == [m EXCEPT !.at = l]
<1>3. AsRun(e) /\ e.at = l /\ e.configured = c
  <2> HIDE DEF e
  <2>1. e = [at |-> l, configured |-> c, legacyTenant |-> t, before |-> b]
    BY <1>2 DEF e
  <2> QED BY <2>1 DEF AsRun
<1>4. m.configured = c
  BY <1>1
<1> QED BY <1>3, <1>4

\* The run m once it has read rows under the lock.
HavingRead(m, rows) == [m EXCEPT !.at = "backup", !.before = rows]

LEMMA RunReads ==
  ASSUME NEW m, NEW rows, AsRun(m)
  PROVE  LET e == HavingRead(m, rows) IN AsRun(e) /\ e.at = "backup" /\ e.configured = m.configured
<1> DEFINE m1 == [m EXCEPT !.at = "backup"]
           e == HavingRead(m, rows)
<1>1. AsRun(m1) /\ m1.at = "backup" /\ m1.configured = m.configured
  BY RunGoesOn
<1>2. e = [m1 EXCEPT !.before = rows]
  BY DEF HavingRead
<1> HIDE DEF m1
<1>3. PICK at, c, t, b : m1 = [at |-> at, configured |-> c, legacyTenant |-> t, before |-> b]
  BY <1>1 DEF AsRun
<1>4. e = [at |-> at, configured |-> c, legacyTenant |-> t, before |-> rows]
  BY <1>2, <1>3
<1>5. e.at = "backup" /\ e.configured = m.configured
  <2>1. at = "backup" /\ c = m.configured
    BY <1>1, <1>3
  <2> HIDE DEF e
  <2> QED BY <1>4, <2>1
<1>6. AsRun(e)
  BY <1>4 DEF AsRun
<1> QED BY <1>5, <1>6

\* The servers write only while nobody holds the lock.
LEMMA ServerKeeps ==
  ASSUME MigrationStateInv, OldServerWrites \/ NewServerWrites
  PROVE  MigrationStateInv'
<1>1. FileInv'
  <2>1. CASE OldServerWrites
    <3>1. ledgerFile.kind = "legacy" /\ ledgerFile.owner = NoTarget /\ ledgerFile.seq \in Nat
      BY <2>1 DEF OldServerWrites, MigrationStateInv, FileInv
    <3>2. ASSUME ledgerFile' = Legacy([k \in DOMAIN ledgerFile.rows \cup {ledgerFile.seq + 1} |-> NoTarget],
                                      ledgerFile.seq + 1),
                 everUsed' = everUsed \cup {ledgerFile.seq + 1}
          PROVE  FileInv'
      <4> DEFINE n == ledgerFile.seq + 1
                 rows == [k \in DOMAIN ledgerFile.rows \cup {n} |-> NoTarget]
      <4>1. \A k \in DOMAIN rows : rows[k] = NoTarget
        OBVIOUS
      <4>2. n \in Nat /\ everUsed' \subseteq 0..n
        <5>1. \A k \in everUsed : k \in 0..ledgerFile.seq
          BY DEF MigrationStateInv, FileInv
        <5> QED BY <3>1, <3>2, <5>1
      <4> HIDE DEF rows, n
      <4>3. ledgerFile' = [kind |-> "legacy", rows |-> rows, seq |-> n, owner |-> NoTarget]
        BY <3>2 DEF Legacy, rows, n
      <4> QED BY <4>1, <4>2, <4>3 DEF FileInv
    <3>3. ASSUME NEW k \in DOMAIN ledgerFile.rows, UNCHANGED everUsed,
                 ledgerFile' = Legacy([l \in DOMAIN ledgerFile.rows \ {k} |-> NoTarget], ledgerFile.seq)
          PROVE  FileInv'
      BY <3>1, <3>3 DEF MigrationStateInv, FileInv, Legacy
    <3> QED BY <2>1, <3>2, <3>3 DEF OldServerWrites
  <2>2. CASE NewServerWrites
    <3>1. ledgerFile.kind = "current" /\ ledgerFile.owner \in Targets /\ ledgerFile.seq \in Nat
      BY <2>2 DEF NewServerWrites, MigrationStateInv, FileInv
    <3>2. PICK kind, rows, seq, owner : ledgerFile = [kind |-> kind, rows |-> rows, seq |-> seq, owner |-> owner]
      BY DEF MigrationStateInv, FileInv
    <3> DEFINE k == ledgerFile.seq + 1
               grown == [l \in DOMAIN rows \cup {k} |-> IF l = k THEN owner ELSE rows[l]]
               f == [ledgerFile EXCEPT !.seq = k]
    <3>3. f = [kind |-> kind, rows |-> rows, seq |-> k, owner |-> owner]
      BY <3>2
    <3>4. ledgerFile' = [f EXCEPT !.rows = grown]
      BY <2>2, <3>2, <3>3 DEF NewServerWrites
    <3>5. ledgerFile' = [kind |-> kind, rows |-> grown, seq |-> k, owner |-> owner]
      BY <3>3, <3>4
    <3>6. \A l \in DOMAIN grown : grown[l] = owner
      BY <3>2 DEF MigrationStateInv, FileInv
    <3>7. everUsed' = everUsed \cup {k} /\ k \in Nat /\ everUsed \subseteq 0..(k - 1)
      BY <2>2, <3>1 DEF NewServerWrites, MigrationStateInv, FileInv
    <3>8. kind = "current" /\ owner \in Targets
      BY <3>1, <3>2
    <3> HIDE DEF grown, k
    <3>9. everUsed' \subseteq 0..k
      BY <3>7
    <3> QED BY <3>5, <3>6, <3>7, <3>8, <3>9 DEF FileInv
  <2> QED BY <2>1, <2>2
<1>2. HolderInv'
  BY MigrationAssumption DEF OldServerWrites, NewServerWrites, MigrationStateInv, HolderInv, HolderOk
<1> QED BY <1>1, <1>2 DEF MigrationStateInv

\* A step of process p that leaves the file and the lock of the others alone.
LEMMA OthersHold ==
  ASSUME MigrationStateInv, NEW p \in Migrators,
         DOMAIN migrator' = Migrators, \A q \in Migrators \ {p} : migrator'[q] = migrator[q],
         ledgerFile' = ledgerFile \/ writeLock = p,
         writeLock' = writeLock \/ writeLock \in {p, Noone},
         backups \subseteq backups', HolderOk(p)'
  PROVE  HolderInv'
<1> SUFFICES ASSUME NEW q \in Migrators \ {p} PROVE HolderOk(q)'
  BY DEF HolderInv
<1>1. HolderOk(q)
  BY DEF MigrationStateInv, HolderInv
<1>2. CASE migrator[q].at \in {"backup", "rebuild"}
  <2>1. writeLock = q
    BY <1>1, <1>2 DEF HolderOk
  <2>2. ledgerFile' = ledgerFile /\ writeLock' = writeLock
    BY <2>1, MigrationAssumption
  <2> QED BY <1>1, <2>2 DEF HolderOk
<1>3. CASE migrator[q].at \notin {"backup", "rebuild"}
  BY <1>1, <1>3 DEF HolderOk
<1> QED BY <1>2, <1>3

LEMMA StartKeeps ==
  ASSUME MigrationStateInv, NEW p \in Migrators, NEW c \in Targets, NEW l, Starts(p, c, l)
  PROVE  MigrationStateInv'
<1>1. /\ DOMAIN migrator' = Migrators /\ \A q \in Migrators \ {p} : migrator'[q] = migrator[q]
      /\ migrator'[p] = [at |-> "begin", configured |-> c, legacyTenant |-> l, before |-> ledgerFile.rows]
  BY DEF Starts, MigrationStateInv, HolderInv
<1>2. HolderOk(p)'
  <2>1. AsRun(migrator'[p])
    BY <1>1 DEF AsRun
  <2>2. migrator'[p].configured \in Targets /\ migrator'[p].at = "begin"
    BY <1>1
  <2> QED BY <2>1, <2>2 DEF HolderOk, AsRun
<1>3. HolderInv'
  BY <1>1, <1>2, OthersHold DEF Starts
<1> QED BY <1>3 DEF MigrationStateInv, FileInv, Starts

LEMMA BeginRunKeeps ==
  ASSUME MigrationStateInv, NEW p \in Migrators, Begins(p)
  PROVE  MigrationStateInv'
<1>1. AsRun(migrator[p]) /\ migrator[p].configured \in Targets
  BY DEF Begins, MigrationStateInv, HolderInv, HolderOk, Away
<1>2. /\ DOMAIN migrator' = Migrators /\ \A q \in Migrators \ {p} : migrator'[q] = migrator[q]
      /\ migrator'[p] = [migrator[p] EXCEPT !.at = "backup", !.before = ledgerFile.rows]
  BY DEF Begins, Digested, MigrationStateInv, HolderInv
<1>3. AsRun(migrator'[p]) /\ migrator'[p].at = "backup" /\ migrator'[p].configured = migrator[p].configured
  <2>1. migrator'[p] = HavingRead(migrator[p], ledgerFile.rows)
    BY <1>2 DEF HavingRead
  <2> QED BY <1>1, <2>1, RunReads
<1>4. HolderOk(p)'
  BY <1>1, <1>3 DEF Begins, HolderOk
<1>5. HolderInv'
  BY <1>2, <1>4, OthersHold DEF Begins
<1> QED BY <1>5 DEF MigrationStateInv, FileInv, Begins

LEMMA BackupKeeps ==
  ASSUME MigrationStateInv, NEW p \in Migrators, TakesBackup(p)
  PROVE  MigrationStateInv'
<1>1. AsRun(migrator[p]) /\ migrator[p].configured \in Targets
  BY DEF TakesBackup, MigrationStateInv, HolderInv, HolderOk, Away
<1>2. /\ DOMAIN migrator' = Migrators /\ \A q \in Migrators \ {p} : migrator'[q] = migrator[q]
      /\ migrator'[p] = [migrator[p] EXCEPT !.at = "rebuild"]
  BY DEF TakesBackup, MigrationStateInv, HolderInv
<1>3. AsRun(migrator'[p]) /\ migrator'[p].at = "rebuild" /\ migrator'[p].configured = migrator[p].configured
  <2> DEFINE e == [migrator[p] EXCEPT !.at = "rebuild"]
  <2>1. AsRun(e) /\ e.at = "rebuild" /\ e.configured = migrator[p].configured
    BY <1>1, RunGoesOn
  <2>2. migrator'[p] = e
    BY <1>2
  <2> HIDE DEF e
  <2> QED BY <2>1, <2>2
<1>4. writeLock = p /\ ledgerFile.kind = "legacy"
  BY DEF TakesBackup, MigrationStateInv, HolderInv, HolderOk
<1>5. HolderOk(p)'
  BY <1>1, <1>3, <1>4 DEF TakesBackup, HolderOk
<1>6. HolderInv'
  BY <1>2, <1>5, OthersHold DEF TakesBackup
<1> QED BY <1>6 DEF MigrationStateInv, FileInv, TakesBackup

\* The end of a run, done, refused or killed.
LEMMA RunEnds ==
  ASSUME MigrationStateInv, NEW p \in Migrators, migrator' = [migrator EXCEPT ![p] = Away],
         ledgerFile' = ledgerFile \/ writeLock = p,
         writeLock' = IF writeLock = p THEN Noone ELSE writeLock, backups' = backups
  PROVE  HolderInv'
<1>1. /\ DOMAIN migrator' = Migrators /\ \A q \in Migrators \ {p} : migrator'[q] = migrator[q]
      /\ migrator'[p] = Away
  BY DEF MigrationStateInv, HolderInv
<1>2. HolderOk(p)'
  BY <1>1 DEF HolderOk, Away
<1> QED BY <1>1, <1>2, OthersHold

LEMMA RebuildKeeps ==
  ASSUME MigrationStateInv, NEW p \in Migrators, Rebuilds(p)
  PROVE  MigrationStateInv'
<1>1. migrator[p].configured \in Targets /\ writeLock = p
  BY DEF Rebuilds, MigrationStateInv, HolderInv, HolderOk, Away
<1>2. HolderInv'
  BY <1>1, RunEnds DEF Rebuilds
<1>3. FileInv'
  <2> DEFINE owner == migrator[p].configured
             rows == [k \in DOMAIN ledgerFile.rows |-> owner]
             n == ledgerFile.seq
  <2>1. \A k \in DOMAIN rows : rows[k] = owner
    OBVIOUS
  <2>2. ledgerFile' = [kind |-> "current", rows |-> rows, seq |-> n, owner |-> owner]
    BY DEF Rebuilds, SequenceKept
  <2>3. n \in Nat /\ everUsed' = everUsed /\ everUsed \subseteq 0..n /\ owner \in Targets
    BY <1>1 DEF MigrationStateInv, FileInv, Rebuilds
  <2> HIDE DEF rows, n, owner
  <2>4. /\ ledgerFile'.kind = "current" /\ ledgerFile'.owner = owner /\ ledgerFile'.rows = rows
        /\ ledgerFile'.seq = n
    BY <2>2
  <2>5. \E kind, r, seq, o : ledgerFile' = [kind |-> kind, rows |-> r, seq |-> seq, owner |-> o]
    BY <2>2
  <2> QED BY <2>1, <2>3, <2>4, <2>5 DEF FileInv
<1> QED BY <1>2, <1>3 DEF MigrationStateInv

LEMMA StepMigration == MigrationStateInv /\ [MGNext]_mgvars => MigrationStateInv'
<1> SUFFICES ASSUME MigrationStateInv, [MGNext]_mgvars PROVE MigrationStateInv'
  OBVIOUS
<1>1. ASSUME NEW p \in Migrators, FindsCurrent(p) PROVE MigrationStateInv'
  <2>1. writeLock # p
    BY <1>1, MigrationAssumption DEF FindsCurrent
  <2>2. HolderInv'
    BY <1>1, <2>1, RunEnds DEF FindsCurrent
  <2> QED BY <1>1, <2>2 DEF MigrationStateInv, FileInv, FindsCurrent
<1>2. ASSUME NEW p \in Migrators, GivesUp(p) PROVE MigrationStateInv'
  <2>1. HolderInv'
    BY <1>2, RunEnds DEF GivesUp
  <2> QED BY <1>2, <2>1 DEF MigrationStateInv, FileInv, GivesUp
<1>3. CASE UNCHANGED mgvars
  <2> USE <1>3 DEF mgvars
  <2>1. FileInv'
    BY DEF MigrationStateInv, FileInv
  <2>2. HolderInv'
    BY DEF MigrationStateInv, HolderInv, HolderOk, AsRun
  <2> QED BY <2>1, <2>2 DEF MigrationStateInv
<1> QED BY <1>1, <1>2, <1>3, ServerKeeps, StartKeeps, BeginRunKeeps, BackupKeeps, RebuildKeeps DEF MGNext

LEMMA MigrationInv == MGSpec => []MigrationStateInv
  BY InitMigration, StepMigration, PTL DEF MGSpec

\* Every row of the file belongs to the recorded owner, and no id is ever handed out
\* twice (migrate_tenancy.py:330-372).
THEOREM OneOwner == MGSpec => []OneOwnerAndNoIdTwice
<1>1. MigrationStateInv => OneOwnerAndNoIdTwice
  <2> SUFFICES ASSUME MigrationStateInv PROVE OneOwnerAndNoIdTwice
    OBVIOUS
  <2>1. ledgerFile.kind = "current" <=> ledgerFile.owner # NoTarget
    BY MigrationAssumption DEF MigrationStateInv, FileInv
  <2>2. \A k \in everUsed : k <= ledgerFile.seq
    <3>1. \A k \in everUsed : k \in 0..ledgerFile.seq
      BY DEF MigrationStateInv, FileInv
    <3> QED BY <3>1 DEF MigrationStateInv, FileInv
  <2> QED BY <2>1, <2>2 DEF MigrationStateInv, FileInv, OneOwnerAndNoIdTwice
<1> QED BY <1>1, MigrationInv, PTL

\* The schema changes over all the rows that are there, with a backup of exactly these
\* (migrate_tenancy.py:271-328).
THEOREM BackupComesFirst == MGSpec => MigratesOnlyWithBackup
<1>1. ASSUME MigrationStateInv, [MGNext]_mgvars, ledgerFile.kind = "legacy", ledgerFile'.kind = "current"
      PROVE  DOMAIN ledgerFile'.rows = DOMAIN ledgerFile.rows /\ ledgerFile.rows \in backups
  <2>1. PICK p \in Migrators : Rebuilds(p)
    <3>1. ~OldServerWrites
      <4>1. ASSUME NEW rows, NEW n, ledgerFile' = Legacy(rows, n) PROVE FALSE
        BY <1>1, <4>1 DEF Legacy
      <4> QED BY <4>1 DEF OldServerWrites
    <3>2. ledgerFile' # ledgerFile
      BY <1>1
    <3> QED BY <1>1, <3>1, <3>2 DEF MGNext, mgvars, NewServerWrites, Starts, Begins, FindsCurrent,
               TakesBackup, GivesUp
  <2>2. HolderOk(p)
    BY <1>1 DEF MigrationStateInv, HolderInv
  <2>3. ledgerFile.rows \in backups
    BY <2>1, <2>2 DEF Rebuilds, HolderOk
  <2>4. DOMAIN ledgerFile'.rows = DOMAIN ledgerFile.rows
    BY <2>1 DEF Rebuilds
  <2> QED BY <2>3, <2>4
<1>2. MigrationStateInv /\ [MGNext]_mgvars =>
        (ledgerFile.kind = "legacy" /\ ledgerFile'.kind = "current" =>
           DOMAIN ledgerFile'.rows = DOMAIN ledgerFile.rows /\ ledgerFile.rows \in backups)
  BY <1>1
<1> QED BY <1>2, MigrationInv, PTL DEF MGSpec, MigratesOnlyWithBackup


-------------------------------------------------------------------------------
(* Access, for any tenants, handlers, bootstraps, wishes and bounds.          *)

AllRoles == {PA, TA, AP, VW, SV}
TokenRow == [role : AllRoles, tenant : TenantIds \cup {NoTenant}, by : Nat, revoked : BOOLEAN]

\* The roots of the table are platform_admins of no tenant, and nobody else is; any other
\* token was minted with an earlier one, and carries no right that one lacks.
Minted(k) ==
  LET t == apiTokens[k] IN
  /\ t.role = PA <=> t.tenant = NoTenant
  /\ t.role = PA <=> t.by = 0
  /\ t.by # 0 => /\ t.by < k
                 /\ permissions(t.role) \subseteq permissions(apiTokens[t.by].role)
                 /\ apiTokens[t.by].tenant \in {NoTenant, t.tenant}

TokensInv == apiTokens \in Seq(TokenRow) /\ \A k \in DOMAIN apiTokens : Minted(k)

\* Unless two bootstraps have looked at once, one at most has, and there is no root yet; or
\* there is one root at most.
OneRootInv ==
  /\ DOMAIN boot = Bootstraps
  /\ ~bootRaced =>
       /\ \A b, c \in Bootstraps : boot[b] /\ boot[c] => b = c
       /\ \A b \in Bootstraps : boot[b] => ~Bootstrapped
       /\ \A j, k \in DOMAIN apiTokens : apiTokens[j].by = 0 /\ apiTokens[k].by = 0 => j = k

\* A request: its token, and the tenant it is about.
AsRequest(r) ==
  /\ DOMAIN r = {"at", "token", "action", "named", "role", "other", "dead", "since"}
  /\ r.token \in DOMAIN apiTokens /\ r.action \in Actions
  /\ r.named \in TenantIds \cup {NoTenant} /\ r.role \in AllRoles

About(r) == IF r.named = NoTenant THEN apiTokens[r.token].tenant ELSE r.named

\* What is known of a request that is not decided yet: a token that was revoked when it
\* arrived still is, and the tenant is as it was then, unless it was moved since.
Arrived(r) ==
  /\ r.at \in {"token", "tenant", "check"}
  /\ IF r.at = "token" THEN r.dead => apiTokens[r.token].revoked ELSE ~r.dead
  /\ r.at = "tenant" => apiTokens[r.token].tenant # NoTenant
  /\ \/ r.since = "moved"
     \/ About(r) = NoTenant /\ r.since = "active"
     \/ About(r) # NoTenant /\ r.since = standing[About(r)]
  /\ r.at = "check" /\ About(r) = apiTokens[r.token].tenant => r.since \notin GONE

\* The right to an action on a tenant, by a token that was good on arrival.
Right(k, action, tenant, dead, since) ==
  LET t == apiTokens[k] IN
  /\ ~dead /\ t.role \in RolesOf[action]
  /\ t.tenant \in {NoTenant, tenant}
  /\ since = "suspended" => action \notin SEND_CAPABLE_ACTIONS
  /\ since \in GONE /\ tenant # NoTenant => t.role = PA /\ action \in OFFBOARDING_ACTIONS

Allowed(r) ==
  /\ Right(r.token, r.action, r.named, r.dead, r.since)
  /\ r.action \notin PlatformWide => r.named \in TenantIds

Minting(r) ==
  /\ r.role # PA /\ r.named \in TenantIds
  /\ permissions(r.role) \subseteq permissions(apiTokens[r.token].role)
  /\ apiTokens[r.token].tenant \in {NoTenant, r.named}

HandlerOk(r) ==
  \/ r.at = "rest" /\ DOMAIN r = {"at"}
  \/ AsRequest(r) /\ Arrived(r)
  \/ AsRequest(r) /\ r.at = "act" /\ Allowed(r)
  \/ AsRequest(r) /\ r.at = "insert" /\ Minting(r)
  \/ r.at \in {"write", "revoke"} /\ DOMAIN r = {"at", "named", "to"}

HandlersInv == DOMAIN handlerOf = Handlers /\ \A h \in Handlers : HandlerOk(handlerOf[h])

ServedInv ==
  \A s \in served : s.token \in DOMAIN apiTokens
                    /\ Right(s.token, s.action, s.tenant, s.dead, s.since)

AccessInv == TokensInv /\ OneRootInv /\ HandlersInv /\ ServedInv

-------------------------------------------------------------------------------
(* The table of roles. *)

LEMMA RolesTable ==
  /\ \A a \in PlatformWide : a \in Actions /\ RolesOf[a] = {PA}
  /\ \A a \in Actions : PA \in RolesOf[a] /\ RolesOf[a] \subseteq AllRoles
  /\ PlatformWide \cap SEND_CAPABLE_ACTIONS = {}
BY DEF RolesOf, Actions, PlatformWide, SEND_CAPABLE_ACTIONS, AllRoles, PA, TA, AP, VW, SV

LEMMA AdminHasAll == \A role : permissions(role) \subseteq permissions(PA)
BY RolesTable DEF permissions

LEMMA RolesDiffer == PA \in AllRoles /\ TA \in AllRoles /\ TA # PA
BY DEF AllRoles, PA, TA, AP, VW, SV

-------------------------------------------------------------------------------
(* The tokens. *)

LEMMA TokenLen ==
  ASSUME TokensInv
  PROVE  /\ Len(apiTokens) \in Nat /\ DOMAIN apiTokens = 1..Len(apiTokens)
         /\ \A k \in DOMAIN apiTokens : apiTokens[k] \in TokenRow
BY DEF TokensInv

\* A token never changes but to be revoked.
SameTokens ==
  /\ DOMAIN apiTokens \subseteq DOMAIN apiTokens'
  /\ \A k \in DOMAIN apiTokens :
       /\ apiTokens'[k].role = apiTokens[k].role /\ apiTokens'[k].tenant = apiTokens[k].tenant
       /\ apiTokens'[k].by = apiTokens[k].by
       /\ apiTokens[k].revoked => apiTokens'[k].revoked

LEMMA SameRights ==
  ASSUME SameTokens, NEW k \in DOMAIN apiTokens, NEW action, NEW tenant, NEW dead, NEW since,
         Right(k, action, tenant, dead, since)
  PROVE  Right(k, action, tenant, dead, since)'
BY DEF SameTokens, Right

LEMMA HandlerKept ==
  ASSUME SameTokens, standing' = standing, NEW r, HandlerOk(r)
  PROVE  HandlerOk(r)'
<1>1. ASSUME AsRequest(r) PROVE AsRequest(r)' /\ About(r)' = About(r)
  BY <1>1 DEF AsRequest, About, SameTokens
<1>2. ASSUME AsRequest(r), Arrived(r) PROVE Arrived(r)'
  BY <1>1, <1>2 DEF AsRequest, Arrived, SameTokens
<1>3. ASSUME AsRequest(r), Allowed(r) PROVE Allowed(r)'
  BY <1>3, SameRights DEF AsRequest, Allowed
<1>4. ASSUME AsRequest(r), Minting(r) PROVE Minting(r)'
  BY <1>4 DEF AsRequest, Minting, SameTokens
<1>5. QED
  BY <1>1, <1>2, <1>3, <1>4 DEF HandlerOk

LEMMA ServedKept ==
  ASSUME SameTokens, ServedInv, served' = served
  PROVE  ServedInv'
BY SameRights DEF ServedInv, SameTokens

\* A table that only has tokens revoked is as well minted as it was.
LEMMA RevokedKeeps ==
  ASSUME TokensInv, OneRootInv, SameTokens, DOMAIN apiTokens' = DOMAIN apiTokens,
         apiTokens' \in Seq(TokenRow), boot' = boot, bootRaced' = bootRaced
  PROVE  TokensInv' /\ OneRootInv'
<1>1. ASSUME NEW k \in DOMAIN apiTokens PROVE Minted(k)'
  <2>1. Minted(k) /\ apiTokens[k].by \in Nat /\ k \in 1..Len(apiTokens)
    BY TokenLen DEF TokensInv, TokenRow
  <2>2. apiTokens[k].by # 0 => apiTokens[k].by \in DOMAIN apiTokens
    BY <2>1, TokenLen DEF Minted
  <2>3. QED
    BY <2>1, <2>2 DEF Minted, SameTokens
<1>2. TokensInv'
  BY <1>1 DEF TokensInv
<1>3. Bootstrapped' <=> Bootstrapped
  BY DEF Bootstrapped, SameTokens
<1>4. OneRootInv'
  BY <1>3 DEF OneRootInv, SameTokens
<1>5. QED
  BY <1>2, <1>4

\* A token is added at the end.
LEMMA Added ==
  ASSUME TokensInv, NEW t \in TokenRow, apiTokens' = Append(apiTokens, t)
  PROVE  /\ apiTokens' \in Seq(TokenRow) /\ SameTokens
         /\ LET n == Len(apiTokens) + 1
            IN /\ DOMAIN apiTokens' = DOMAIN apiTokens \cup {n} /\ n \notin DOMAIN apiTokens
               /\ apiTokens'[n] = t
               /\ \A k \in DOMAIN apiTokens : k < n /\ apiTokens'[k] = apiTokens[k]
BY TokenLen DEF TokensInv, SameTokens

LEMMA AddedKeeps ==
  ASSUME TokensInv, NEW t \in TokenRow, apiTokens' = Append(apiTokens, t),
         t.role = PA <=> t.tenant = NoTenant, t.role = PA <=> t.by = 0,
         t.by # 0 => /\ t.by \in DOMAIN apiTokens
                     /\ permissions(t.role) \subseteq permissions(apiTokens[t.by].role)
                     /\ apiTokens[t.by].tenant \in {NoTenant, t.tenant}
  PROVE  TokensInv'
<1>0. PICK n : n = Len(apiTokens) + 1
  OBVIOUS
<1>1. /\ apiTokens' \in Seq(TokenRow) /\ DOMAIN apiTokens' = DOMAIN apiTokens \cup {n}
      /\ apiTokens'[n] = t
      /\ \A k \in DOMAIN apiTokens : k < n /\ apiTokens'[k] = apiTokens[k]
  BY <1>0, Added
<1>2. Minted(n)'
  BY <1>1 DEF Minted
<1>3. ASSUME NEW k \in DOMAIN apiTokens PROVE Minted(k)'
  <2>1. Minted(k) /\ apiTokens[k].by \in Nat /\ k \in 1..Len(apiTokens)
    BY TokenLen DEF TokensInv, TokenRow
  <2>2. apiTokens[k].by # 0 => apiTokens[k].by \in DOMAIN apiTokens
    BY <2>1, TokenLen DEF Minted
  <2>3. QED
    BY <1>1, <2>1, <2>2 DEF Minted
<1>4. QED
  BY <1>1, <1>2, <1>3 DEF TokensInv

-------------------------------------------------------------------------------
(* Every step. *)

\* A handler's request is replaced, and nothing else of a handler's changes.
LEMMA HandlerMoves ==
  ASSUME HandlersInv, SameTokens, standing' = standing, NEW h \in Handlers, NEW r,
         HandlerHas(h, r), HandlerOk(r)'
  PROVE  HandlersInv'
<1>1. \A g \in Handlers : g # h => handlerOf'[g] = handlerOf[g]
  BY DEF HandlerHas, HandlersInv
<1>2. handlerOf'[h] = r /\ DOMAIN handlerOf' = Handlers
  BY DEF HandlerHas, HandlersInv
<1>3. ASSUME NEW g \in Handlers PROVE HandlerOk(handlerOf[g])'
  <2>1. PICK q : q = handlerOf'[g]
    OBVIOUS
  <2>2. HandlerOk(q)'
    <3>1. CASE g = h
      BY <1>2, <2>1, <3>1
    <3>2. CASE g # h
      <4>1. q = handlerOf[g] /\ HandlerOk(q)
        BY <1>1, <2>1, <3>2 DEF HandlersInv
      <4>2. QED
        BY <4>1, HandlerKept
    <3>3. QED
      BY <3>1, <3>2
  <2>3. QED
    BY <2>1, <2>2
<1>4. QED
  BY <1>2, <1>3 DEF HandlersInv

LEMMA AtRestOk == HandlerOk(ATRest) /\ HandlerOk(ATRest)'
BY DEF HandlerOk, ATRest

LEMMA SameTable ==
  ASSUME UNCHANGED apiTokens
  PROVE  SameTokens /\ (TokensInv => TokensInv')
BY DEF SameTokens, TokensInv, Minted

\* One token's or no token's revocation, and the handler's end.
LEMMA SameRoots ==
  ASSUME OneRootInv, UNCHANGED <<apiTokens, boot, bootRaced>>
  PROVE  OneRootInv'
BY DEF OneRootInv, Bootstrapped

\* A step of one handler that leaves the tables alone.
LEMMA HandlerStep ==
  ASSUME AccessInv, NEW h \in Handlers, NEW r, HandlerHas(h, r), HandlerOk(r)',
         UNCHANGED <<apiTokens, standing, boot, bootRaced, served>>
  PROVE  AccessInv'
<1> USE DEF AccessInv
<1>1. SameTokens /\ TokensInv'
  BY SameTable
<1>2. HandlersInv'
  BY <1>1, HandlerMoves
<1>3. OneRootInv' /\ ServedInv'
  BY <1>1, SameRoots, ServedKept
<1>4. QED
  BY <1>1, <1>2, <1>3

LEMMA SameOk ==
  ASSUME UNCHANGED <<apiTokens, standing>>, NEW r
  PROVE  HandlerOk(r)' <=> HandlerOk(r)
<1>1. (AsRequest(r)' <=> AsRequest(r)) /\ About(r)' = About(r)
  BY DEF AsRequest, About
<1>2. Arrived(r)' <=> Arrived(r)
  BY <1>1 DEF Arrived
<1>3. (Allowed(r)' <=> Allowed(r)) /\ (Minting(r)' <=> Minting(r))
  BY DEF Allowed, Right, Minting
<1>4. QED
  BY <1>1, <1>2, <1>3 DEF HandlerOk

\* A request at a label, with all that its record says but the label.
Relabelled(r, q, label) ==
  /\ q.at = label /\ DOMAIN q = DOMAIN r
  /\ q.token = r.token /\ q.action = r.action /\ q.named = r.named /\ q.role = r.role
  /\ q.other = r.other /\ q.dead = r.dead /\ q.since = r.since

LEMMA Relabel ==
  ASSUME NEW r, AsRequest(r), NEW label
  PROVE  Relabelled(r, [r EXCEPT !.at = label], label)
BY DEF AsRequest, Relabelled

LEMMA RelabelAsked ==
  ASSUME NEW r, AsRequest(r), NEW label, NEW q, Relabelled(r, q, label)
  PROVE  AsRequest(q) /\ About(q) = About(r)
BY DEF AsRequest, Relabelled, About

LEMMA AskOk ==
  ASSUME AccessInv, NEW k \in DOMAIN apiTokens, NEW action \in Wanted,
         NEW named \in TenantIds \cup {NoTenant}, NEW role \in AllRoles, NEW other,
         Ask(k, action, named, role, other)
  PROVE  AccessInv'
<1> USE DEF AccessInv
<1> DEFINE idle  == {g \in Handlers : handlerOf[g] = ATRest}
           about == IF named = NoTenant THEN apiTokens[k].tenant ELSE named
           since == IF about = NoTenant THEN "active" ELSE standing[about]
           dead  == apiTokens[k].revoked
           r     == [at |-> "token", token |-> k, action |-> action, named |-> named, role |-> role,
                     other |-> other, dead |-> dead, since |-> since]
<1>1. PICK h \in Handlers : HandlerHas(h, r)
  <2>1. idle # {} /\ HandlerHas(CHOOSE g \in idle : TRUE, r)
    BY DEF Ask
  <2>2. (CHOOSE g \in idle : TRUE) \in Handlers
    BY <2>1
  <2>3. QED
    BY <2>1, <2>2
<1>2. UNCHANGED <<apiTokens, standing, boot, served, bootRaced>>
  BY DEF Ask
<1>3. /\ r.at = "token" /\ r.token = k /\ r.action = action /\ r.named = named /\ r.role = role
      /\ r.dead = dead /\ r.since = since
      /\ DOMAIN r = {"at", "token", "action", "named", "role", "other", "dead", "since"}
  OBVIOUS
<1> HIDE DEF r
<1>4. AsRequest(r) /\ About(r) = about
  BY <1>3, AccessAssumption DEF AsRequest, About
<1>5. Arrived(r)
  BY <1>3, <1>4 DEF Arrived
<1>6. HandlerOk(r)
  BY <1>4, <1>5 DEF HandlerOk
<1>7. PICK q : q = r
  OBVIOUS
<1>8. HandlerOk(q)'
  BY <1>2, <1>6, <1>7, SameOk
<1>9. QED
  BY <1>1, <1>2, <1>7, <1>8, HandlerStep

LEMMA RefuseOk ==
  ASSUME AccessInv, NEW h \in Handlers, Refuse(h),
         UNCHANGED <<apiTokens, standing, boot, served, bootRaced>>
  PROVE  AccessInv'
BY AtRestOk, HandlerStep DEF Refuse

LEMMA ReadTokenOk ==
  ASSUME AccessInv, NEW h \in Handlers, ReadToken(h)
  PROVE  AccessInv'
<1> USE DEF AccessInv
<1> DEFINE r     == handlerOf[h]
           label == IF TokenOf(h).tenant = NoTenant THEN "check" ELSE "tenant"
<1>1. UNCHANGED <<apiTokens, standing, boot, served, bootRaced>> /\ r.at = "token"
  BY DEF ReadToken
<1>2. CASE TokenOf(h).revoked
  BY <1>1, <1>2, RefuseOk DEF ReadToken
<1>3. CASE ~TokenOf(h).revoked
  <2>1. HandlerHas(h, [r EXCEPT !.at = label])
    BY <1>3 DEF ReadToken
  <2>2. AsRequest(r) /\ Arrived(r)
    BY <1>1 DEF HandlersInv, HandlerOk, Arrived
  <2>3. PICK q : q = [r EXCEPT !.at = label]
    OBVIOUS
  <2>4. Relabelled(r, q, label)
    BY <2>2, <2>3, Relabel
  <2>5. AsRequest(q) /\ About(q) = About(r)
    BY <2>2, <2>4, RelabelAsked
  <2>6. TokenOf(h) = apiTokens[q.token] /\ ~q.dead
    BY <1>1, <1>3, <2>2, <2>4 DEF TokenOf, Relabelled, Arrived
  <2>7. Arrived(q)
    <3>1. label \in {"tenant", "check"} /\ (label = "tenant" => TokenOf(h).tenant # NoTenant)
      OBVIOUS
    <3>2. q.at = "check" /\ About(q) = apiTokens[q.token].tenant => q.since \notin GONE
      <4>1. label = "check" => TokenOf(h).tenant = NoTenant
        OBVIOUS
      <4>2. q.at = "check" /\ About(q) = apiTokens[q.token].tenant => q.since \in {"moved", "active"}
        BY <2>2, <2>4, <2>5, <2>6, <4>1 DEF Arrived, Relabelled
      <4>3. QED
        BY <4>2 DEF GONE
    <3>3. QED
      BY <2>2, <2>4, <2>5, <2>6, <3>1, <3>2 DEF Arrived, Relabelled
  <2>8. HandlerOk(q)'
    BY <1>1, <2>5, <2>7, SameOk DEF HandlerOk
  <2>9. QED
    BY <1>1, <2>1, <2>3, <2>8, HandlerStep
<1>4. QED
  BY <1>2, <1>3

LEMMA ReadTenantOk ==
  ASSUME AccessInv, NEW h \in Handlers, ReadTenant(h)
  PROVE  AccessInv'
<1> USE DEF AccessInv
<1> DEFINE r == handlerOf[h]
<1>1. UNCHANGED <<apiTokens, standing, boot, served, bootRaced>> /\ r.at = "tenant"
  BY DEF ReadTenant
<1>2. CASE standing[TokenOf(h).tenant] \in GONE
  BY <1>1, <1>2, RefuseOk DEF ReadTenant
<1>3. CASE standing[TokenOf(h).tenant] \notin GONE
  <2>1. HandlerHas(h, [r EXCEPT !.at = "check"])
    BY <1>3 DEF ReadTenant
  <2>2. AsRequest(r) /\ Arrived(r)
    BY <1>1 DEF HandlersInv, HandlerOk, Arrived
  <2>3. PICK q : q = [r EXCEPT !.at = "check"]
    OBVIOUS
  <2>4. Relabelled(r, q, "check")
    BY <2>2, <2>3, Relabel
  <2>5. AsRequest(q) /\ About(q) = About(r)
    BY <2>2, <2>4, RelabelAsked
  <2>6. TokenOf(h) = apiTokens[q.token] /\ apiTokens[q.token].tenant # NoTenant /\ ~q.dead
    BY <1>1, <2>2, <2>4 DEF TokenOf, Relabelled, Arrived
  <2>7. Arrived(q)
    <3>1. About(q) = apiTokens[q.token].tenant => q.since \notin GONE
      <4>1. "moved" \notin GONE
        BY DEF GONE
      <4>2. QED
        BY <1>3, <2>2, <2>4, <2>5, <2>6, <4>1 DEF Arrived, Relabelled
    <3>2. QED
      BY <2>2, <2>4, <2>5, <2>6, <3>1 DEF Arrived, Relabelled
  <2>8. HandlerOk(q)'
    BY <1>1, <2>5, <2>7, SameOk DEF HandlerOk
  <2>9. QED
    BY <1>1, <2>1, <2>3, <2>8, HandlerStep
<1>4. QED
  BY <1>2, <1>3

\* What the checks establish: the right to the action on the tenant of the resource.
LEMMA CheckAllows ==
  ASSUME TokensInv, NEW h \in Handlers, handlerOf[h].at = "check",
         AsRequest(handlerOf[h]), Arrived(handlerOf[h]), authorize(h),
         Resource(h) # NoTenant => StandingAllows(handlerOf[h].action, standing[Resource(h)])
  PROVE  LET r == handlerOf[h] IN
         /\ Resource(h) \in TenantIds \cup {NoTenant}
         /\ Right(r.token, r.action, Resource(h), r.dead, r.since)
         /\ r.action \notin PlatformWide => Resource(h) \in TenantIds
<1> DEFINE r   == handlerOf[h]
           t   == apiTokens[r.token]
           res == Resource(h)
<1>1. /\ r.token \in DOMAIN apiTokens /\ r.action \in Actions
      /\ r.named \in TenantIds \cup {NoTenant}
  BY DEF AsRequest
<1>2. t.tenant \in TenantIds \cup {NoTenant} /\ (t.role = PA <=> t.tenant = NoTenant)
  BY <1>1, TokenLen DEF TokensInv, TokenRow, Minted
<1>3. ~r.dead /\ t.role \in RolesOf[r.action]
  BY <1>1 DEF authorize, TokenOf, Arrived
<1>4. CASE r.action \notin PlatformWide
  <2>1. res # NoTenant /\ res = IF t.role = PA THEN r.named ELSE t.tenant
    BY <1>4 DEF authorize, Resource, TokenOf
  <2>2. res \in TenantIds /\ About(r) = res /\ t.tenant \in {NoTenant, res}
    BY <1>1, <1>2, <2>1, AccessAssumption DEF authorize, TokenOf, About
  <2>3. r.since = "moved" \/ r.since = standing[res]
    BY <2>1, <2>2 DEF Arrived
  <2>4. StandingAllows(r.action, standing[res])
    BY <2>1
  <2>5. r.since \in GONE => t.role = PA
    <3>1. t.role # PA => About(r) = t.tenant
      BY <2>1, <2>2
    <3>2. QED
      BY <3>1 DEF Arrived
  <2>6. r.since = "suspended" => r.action \notin SEND_CAPABLE_ACTIONS
    BY <2>3, <2>4 DEF StandingAllows
  <2>7. r.since \in GONE => r.action \in OFFBOARDING_ACTIONS
    BY <2>3, <2>4 DEF StandingAllows, GONE
  <2>8. QED
    BY <1>3, <2>2, <2>5, <2>6, <2>7 DEF Right
<1>5. CASE r.action \in PlatformWide
  <2>1. t.role = PA
    BY <1>3, <1>5, RolesTable
  <2>2. res = NoTenant /\ t.tenant = NoTenant
    BY <1>2, <1>5, <2>1 DEF Resource, TokenOf
  <2>3. r.action \notin SEND_CAPABLE_ACTIONS
    BY <1>5, RolesTable
  <2>4. QED
    BY <1>3, <1>5, <2>2, <2>3 DEF Right
<1>6. QED
  BY <1>4, <1>5

LEMMA CheckOk ==
  ASSUME AccessInv, NEW h \in Handlers, Check(h)
  PROVE  AccessInv'
<1> USE DEF AccessInv
<1> DEFINE r  == handlerOf[h]
           ok == /\ authorize(h)
                 /\ Resource(h) # NoTenant => StandingAllows(r.action, standing[Resource(h)])
<1>1. UNCHANGED <<apiTokens, standing, boot, served, bootRaced>> /\ r.at = "check"
  BY DEF Check
<1>2. CASE ~ok
  BY <1>1, <1>2, RefuseOk DEF Check
<1>3. CASE ok
  <2>1. HandlerHas(h, [r EXCEPT !.at = "act", !.named = Resource(h)])
    BY <1>3 DEF Check
  <2>2. AsRequest(r) /\ Arrived(r)
    BY <1>1 DEF HandlersInv, HandlerOk, Arrived
  <2>3. /\ Resource(h) \in TenantIds \cup {NoTenant}
        /\ Right(r.token, r.action, Resource(h), r.dead, r.since)
        /\ r.action \notin PlatformWide => Resource(h) \in TenantIds
    BY <1>1, <1>3, <2>2, CheckAllows
  <2>4. PICK p : p = [r EXCEPT !.at = "act"]
    OBVIOUS
  <2>5. Relabelled(r, p, "act")
    BY <2>2, <2>4, Relabel
  <2>6. PICK res : res = Resource(h)
    OBVIOUS
  <2>7. PICK q : q = [p EXCEPT !.named = res]
    OBVIOUS
  <2>8. HandlerHas(h, q)
    BY <2>1, <2>4, <2>6, <2>7
  <2>9. AsRequest(p)
    BY <2>2, <2>5, RelabelAsked
  <2>10. /\ q.at = "act" /\ DOMAIN q = DOMAIN p /\ q.named = res /\ q.token = r.token
         /\ q.action = r.action /\ q.role = r.role /\ q.dead = r.dead /\ q.since = r.since
    BY <2>5, <2>7, <2>9 DEF AsRequest, Relabelled
  <2>11. AsRequest(q) /\ Allowed(q)
    BY <2>2, <2>3, <2>5, <2>6, <2>10 DEF AsRequest, Allowed, Relabelled
  <2>12. HandlerOk(q)'
    BY <1>1, <2>10, <2>11, SameOk DEF HandlerOk
  <2>13. QED
    BY <1>1, <2>8, <2>12, HandlerStep
<1>4. QED
  BY <1>2, <1>3

-------------------------------------------------------------------------------
(* What an allowed request does. *)

LEMMA ActingIsAllowed ==
  ASSUME HandlersInv, NEW h \in Handlers, handlerOf[h].at = "act"
  PROVE  AsRequest(handlerOf[h]) /\ Allowed(handlerOf[h])
BY DEF HandlersInv, HandlerOk, Arrived

\* A request that is served had the right, and has it whatever happened since.
LEMMA ServedAdds ==
  ASSUME HandlersInv, ServedInv, SameTokens, NEW h \in Handlers, handlerOf[h].at = "act", Serve(h)
  PROVE  ServedInv'
<1> DEFINE r == handlerOf[h]
<1>1. r.token \in DOMAIN apiTokens /\ Right(r.token, r.action, r.named, r.dead, r.since)
  BY ActingIsAllowed DEF AsRequest, Allowed
<1>2. PICK s : s = [token |-> r.token, action |-> r.action, tenant |-> r.named,
                    dead |-> r.dead, since |-> r.since]
  OBVIOUS
<1>3. served' = served \cup {s}
  BY <1>2 DEF Serve
<1>4. s.token \in DOMAIN apiTokens /\ Right(s.token, s.action, s.tenant, s.dead, s.since)
  BY <1>1, <1>2
<1>5. \A x \in served' : x.token \in DOMAIN apiTokens
                         /\ Right(x.token, x.action, x.tenant, x.dead, x.since)
  BY <1>3, <1>4 DEF ServedInv
<1>6. ASSUME NEW x \in served'
      PROVE  x.token \in DOMAIN apiTokens' /\ Right(x.token, x.action, x.tenant, x.dead, x.since)'
  BY <1>5, SameRights DEF SameTokens
<1>7. QED
  BY <1>6 DEF ServedInv

LEMMA ActStep ==
  ASSUME AccessInv, NEW h \in Handlers, handlerOf[h].at = "act", Serve(h), NEW r,
         HandlerHas(h, r), HandlerOk(r)', UNCHANGED <<apiTokens, standing, boot, bootRaced>>
  PROVE  AccessInv'
<1> USE DEF AccessInv
<1>1. SameTokens /\ TokensInv'
  BY SameTable
<1>2. HandlersInv'
  BY <1>1, HandlerMoves
<1>3. OneRootInv' /\ ServedInv'
  BY <1>1, SameRoots, ServedAdds
<1>4. QED
  BY <1>1, <1>2, <1>3

LEMMA ActOtherwiseOk ==
  ASSUME AccessInv, NEW h \in Handlers, ActOtherwise(h)
  PROVE  AccessInv'
BY AtRestOk, ActStep DEF ActOtherwise, Refuse

LEMMA ActOnStatusOk ==
  ASSUME AccessInv, NEW h \in Handlers, ActOnStatus(h)
  PROVE  AccessInv'
<1> DEFINE r  == handlerOf[h]
           to == NextStanding(r.action, standing[r.named])
<1>1. r.at = "act" /\ Serve(h) /\ UNCHANGED <<apiTokens, standing, boot, bootRaced>>
  BY DEF ActOnStatus
<1>2. CASE to = "refused"
  BY <1>1, <1>2, AtRestOk, ActStep DEF ActOnStatus, Refuse
<1>3. CASE to # "refused"
  <2>1. PICK named : named = r.named
    OBVIOUS
  <2>2. PICK next : next = to
    OBVIOUS
  <2>3. PICK q : q = [at |-> "write", named |-> named, to |-> next]
    OBVIOUS
  <2>4. HandlerHas(h, q)
    BY <1>3, <2>1, <2>2, <2>3 DEF ActOnStatus
  <2>5. q.at = "write" /\ DOMAIN q = {"at", "named", "to"}
    BY <2>3
  <2>6. HandlerOk(q)'
    BY <2>5 DEF HandlerOk
  <2>7. QED
    BY <1>1, <2>4, <2>6, ActStep
<1>4. QED
  BY <1>2, <1>3

\* The insert that follows is of a token that has no right its minter lacks.
LEMMA MayMintMints ==
  ASSUME TokensInv, NEW h \in Handlers, handlerOf[h].action = "tokens.create",
         AsRequest(handlerOf[h]), Allowed(handlerOf[h]), MayMint(h)
  PROVE  Minting(handlerOf[h])
<1> DEFINE r == handlerOf[h]
           t == apiTokens[r.token]
<1>1. r.named \in TenantIds
  BY DEF Allowed, PlatformWide
<1>2. r.role # PA /\ permissions(r.role) \subseteq permissions(t.role)
  BY DEF MayMint, can_grant, TokenOf
<1>3. t.tenant \in {NoTenant, r.named}
  BY DEF Allowed, Right
<1>4. QED
  BY <1>1, <1>2, <1>3 DEF Minting

LEMMA ActOnTokenOk ==
  ASSUME AccessInv, NEW h \in Handlers, ActOnToken(h)
  PROVE  AccessInv'
<1> DEFINE r == handlerOf[h]
<1>1. /\ r.at = "act" /\ r.action = "tokens.create" /\ Serve(h)
      /\ UNCHANGED <<apiTokens, standing, boot, bootRaced>>
  BY DEF ActOnToken
<1>2. CASE ~MayMint(h)
  BY <1>1, <1>2, AtRestOk, ActStep DEF ActOnToken, Refuse
<1>3. CASE MayMint(h)
  <2>1. AsRequest(r) /\ Allowed(r)
    BY <1>1, ActingIsAllowed DEF AccessInv
  <2>2. Minting(r)
    BY <1>1, <1>3, <2>1, MayMintMints DEF AccessInv
  <2>3. PICK q : q = [r EXCEPT !.at = "insert"]
    OBVIOUS
  <2>4. HandlerHas(h, q)
    BY <1>3, <2>3 DEF ActOnToken
  <2>5. Relabelled(r, q, "insert")
    BY <2>1, <2>3, Relabel
  <2>6. AsRequest(q) /\ Minting(q) /\ q.at = "insert"
    BY <2>1, <2>2, <2>5, RelabelAsked DEF Minting, Relabelled
  <2>7. HandlerOk(q)'
    BY <1>1, <2>6, SameOk DEF HandlerOk
  <2>8. QED
    BY <1>1, <2>4, <2>7, ActStep
<1>4. QED
  BY <1>2, <1>3

-------------------------------------------------------------------------------
(* What changes the table of tokens. *)

LEMMA RowRevoked ==
  ASSUME NEW t \in TokenRow, NEW b \in BOOLEAN, NEW u, u = [t EXCEPT !.revoked = b]
  PROVE  /\ u \in TokenRow /\ u.role = t.role /\ u.tenant = t.tenant /\ u.by = t.by
         /\ u.revoked = b
BY DEF TokenRow

LEMMA ActRevokeOk ==
  ASSUME AccessInv, NEW h \in Handlers, ActRevoke(h)
  PROVE  AccessInv'
<1> USE DEF AccessInv
<1> DEFINE r == handlerOf[h]
<1>1. /\ r.at = "act" /\ Serve(h) /\ Refuse(h)
      /\ UNCHANGED <<standing, boot, bootRaced>>
  BY DEF ActRevoke
<1>2. CASE r.other \in DOMAIN apiTokens /\ apiTokens[r.other].tenant = r.named
  <2>1. PICK o \in DOMAIN apiTokens : o = r.other
    BY <1>2
  <2>2. PICK u : u = [apiTokens[o] EXCEPT !.revoked = TRUE]
    OBVIOUS
  <2>3. apiTokens' = [apiTokens EXCEPT ![o] = u]
    BY <1>2, <2>1, <2>2 DEF ActRevoke
  <2>4. /\ u \in TokenRow /\ u.role = apiTokens[o].role /\ u.tenant = apiTokens[o].tenant
        /\ u.by = apiTokens[o].by /\ u.revoked = TRUE
    <3>1. apiTokens[o] \in TokenRow
      BY TokenLen
    <3>2. QED
      BY <2>2, <3>1 DEF TokenRow
  <2>5. DOMAIN apiTokens' = DOMAIN apiTokens /\ apiTokens' \in Seq(TokenRow)
    BY <2>3, <2>4 DEF TokensInv
  <2>6. \A k \in DOMAIN apiTokens : apiTokens'[k] = IF k = o THEN u ELSE apiTokens[k]
    BY <2>3
  <2>7. SameTokens
    BY <2>4, <2>5, <2>6 DEF SameTokens
  <2>8. TokensInv' /\ OneRootInv'
    BY <1>1, <2>5, <2>7, RevokedKeeps
  <2>9. HandlersInv' /\ ServedInv'
    BY <1>1, <2>7, AtRestOk, HandlerMoves, ServedAdds DEF Refuse
  <2>10. QED
    BY <2>8, <2>9
<1>3. CASE ~(r.other \in DOMAIN apiTokens /\ apiTokens[r.other].tenant = r.named)
  BY <1>1, <1>3, AtRestOk, ActStep DEF ActRevoke, Refuse
<1>4. QED
  BY <1>2, <1>3

LEMMA RevokeAllOk ==
  ASSUME AccessInv, NEW h \in Handlers, RevokeAll(h)
  PROVE  AccessInv'
<1> USE DEF AccessInv
<1>1. /\ Refuse(h) /\ UNCHANGED <<standing, boot, served, bootRaced>>
  BY DEF RevokeAll
<1>2. PICK named : named = handlerOf[h].named
  OBVIOUS
<1>3. apiTokens' = [k \in DOMAIN apiTokens |->
        [apiTokens[k] EXCEPT !.revoked = @ \/ apiTokens[k].tenant = named]]
  BY <1>2 DEF RevokeAll
<1>4. ASSUME NEW k \in DOMAIN apiTokens
      PROVE  /\ apiTokens'[k] \in TokenRow
             /\ apiTokens'[k].role = apiTokens[k].role /\ apiTokens'[k].tenant = apiTokens[k].tenant
             /\ apiTokens'[k].by = apiTokens[k].by
             /\ apiTokens[k].revoked => apiTokens'[k].revoked
  <2>1. apiTokens[k] \in TokenRow
    BY TokenLen
  <2>2. PICK b \in BOOLEAN : b = (apiTokens[k].revoked \/ apiTokens[k].tenant = named)
    OBVIOUS
  <2>3. apiTokens'[k] = [apiTokens[k] EXCEPT !.revoked = b]
    BY <1>3, <2>2
  <2>4. apiTokens[k].revoked => b
    BY <2>2
  <2>5. PICK u : u = apiTokens'[k]
    OBVIOUS
  <2>6. u \in TokenRow /\ u.role = apiTokens[k].role /\ u.tenant = apiTokens[k].tenant
        /\ u.by = apiTokens[k].by /\ u.revoked = b
    BY <2>1, <2>3, <2>5, RowRevoked
  <2>7. QED
    BY <2>4, <2>5, <2>6
<1>5. DOMAIN apiTokens' = DOMAIN apiTokens
  BY <1>3
<1>6. apiTokens' \in Seq(TokenRow)
  <2>1. apiTokens' \in [1..Len(apiTokens) -> TokenRow]
    BY <1>3, <1>4, <1>5, TokenLen
  <2>2. QED
    BY <2>1, TokenLen, SeqDef
<1>7. SameTokens
  BY <1>4, <1>5 DEF SameTokens
<1>8. TokensInv' /\ OneRootInv'
  BY <1>1, <1>5, <1>6, <1>7, RevokedKeeps
<1>9. HandlersInv' /\ ServedInv'
  BY <1>1, <1>7, AtRestOk, HandlerMoves, ServedKept DEF Refuse
<1>10. QED
  BY <1>8, <1>9

LEMMA InsertTokenOk ==
  ASSUME AccessInv, NEW h \in Handlers, InsertToken(h)
  PROVE  AccessInv'
<1> USE DEF AccessInv
<1> DEFINE r == handlerOf[h]
<1>1. r.at = "insert" /\ Refuse(h) /\ UNCHANGED <<standing, boot, served, bootRaced>>
  BY DEF InsertToken
<1>2. AsRequest(r) /\ Minting(r)
  BY <1>1 DEF HandlersInv, HandlerOk, Arrived
<1>3. PICK t : t = Token(r.role, r.named, r.token)
  OBVIOUS
<1>4. apiTokens' = Append(apiTokens, t)
  BY <1>3 DEF InsertToken
<1>5. r.token \in Nat \ {0}
  BY <1>2, TokenLen DEF AsRequest
<1>6. /\ t \in TokenRow /\ t.role = r.role /\ t.tenant = r.named /\ t.by = r.token
  BY <1>2, <1>3, <1>5 DEF Token, TokenRow, AsRequest
<1>7. t.role # PA /\ t.tenant # NoTenant /\ t.by # 0
  BY <1>2, <1>5, <1>6, AccessAssumption DEF Minting
<1>8. TokensInv'
  <2>1. /\ t.by \in DOMAIN apiTokens
        /\ permissions(t.role) \subseteq permissions(apiTokens[t.by].role)
        /\ apiTokens[t.by].tenant \in {NoTenant, t.tenant}
    BY <1>2, <1>6 DEF AsRequest, Minting
  <2>2. QED
    BY <1>4, <1>6, <1>7, <2>1, AddedKeeps
<1>9. PICK n : n = Len(apiTokens) + 1
  OBVIOUS
<1>10. /\ SameTokens /\ DOMAIN apiTokens' = DOMAIN apiTokens \cup {n} /\ n \notin DOMAIN apiTokens
       /\ apiTokens'[n] = t /\ \A k \in DOMAIN apiTokens : apiTokens'[k] = apiTokens[k]
  BY <1>4, <1>6, <1>9, Added
<1>11. OneRootInv'
  <2>1. Bootstrapped' <=> Bootstrapped
    BY <1>7, <1>10 DEF Bootstrapped
  <2>2. QED
    BY <1>1, <1>7, <1>10, <2>1 DEF OneRootInv
<1>12. HandlersInv' /\ ServedInv'
  BY <1>1, <1>10, AtRestOk, HandlerMoves, ServedKept DEF Refuse
<1>13. QED
  BY <1>8, <1>11, <1>12

-------------------------------------------------------------------------------
(* The bootstraps, and the status of a tenant. *)

\* Nothing that handlers do, and no token.
LEMMA HandlersSame ==
  ASSUME HandlersInv, SameTokens, UNCHANGED <<standing, handlerOf>>
  PROVE  HandlersInv'
<1>1. ASSUME NEW h \in Handlers PROVE HandlerOk(handlerOf[h])'
  <2>1. PICK q : q = handlerOf[h]
    OBVIOUS
  <2>2. HandlerOk(q)'
    BY <2>1, HandlerKept DEF HandlersInv
  <2>3. QED
    BY <2>1, <2>2
<1>2. QED
  BY <1>1 DEF HandlersInv

LEMMA BootLooksOk ==
  ASSUME AccessInv, NEW b \in Bootstraps, BootLooks(b)
  PROVE  AccessInv'
<1> USE DEF AccessInv
<1>1. /\ ~Bootstrapped /\ boot' = [boot EXCEPT ![b] = TRUE]
      /\ UNCHANGED <<apiTokens, standing, handlerOf, served>>
      /\ ~bootRaced' => ~bootRaced /\ \A c \in Bootstraps : ~boot[c]
  BY DEF BootLooks
<1>2. SameTokens /\ TokensInv'
  BY <1>1, SameTable
<1>3. HandlersInv' /\ ServedInv'
  BY <1>1, <1>2, HandlersSame, ServedKept
<1>4. OneRootInv'
  <2>1. DOMAIN boot' = Bootstraps /\ \A c \in Bootstraps : c # b => boot'[c] = boot[c]
    BY <1>1 DEF OneRootInv
  <2>2. ~Bootstrapped'
    BY <1>1 DEF Bootstrapped
  <2>3. QED
    BY <1>1, <2>1, <2>2 DEF OneRootInv
<1>5. QED
  BY <1>2, <1>3, <1>4

LEMMA BootMintsOk ==
  ASSUME AccessInv, NEW b \in Bootstraps, BootMints(b)
  PROVE  AccessInv'
<1> USE DEF AccessInv
<1>1. /\ boot[b] /\ boot' = [boot EXCEPT ![b] = FALSE]
      /\ UNCHANGED <<standing, handlerOf, served, bootRaced>>
  BY DEF BootMints
<1>2. PICK t : t = Token(PA, NoTenant, 0)
  OBVIOUS
<1>3. apiTokens' = Append(apiTokens, t)
  BY <1>2 DEF BootMints
<1>4. t \in TokenRow /\ t.role = PA /\ t.tenant = NoTenant /\ t.by = 0
  BY <1>2 DEF Token, TokenRow, AllRoles
<1>5. TokensInv'
  BY <1>3, <1>4, AddedKeeps
<1>6. PICK n : n = Len(apiTokens) + 1
  OBVIOUS
<1>7. /\ SameTokens /\ DOMAIN apiTokens' = DOMAIN apiTokens \cup {n} /\ n \notin DOMAIN apiTokens
      /\ \A k \in DOMAIN apiTokens : apiTokens'[k] = apiTokens[k]
  BY <1>3, <1>4, <1>6, Added
<1>8. OneRootInv'
  <2>1. DOMAIN boot' = Bootstraps /\ ~boot'[b] /\ \A c \in Bootstraps : c # b => boot'[c] = boot[c]
    BY <1>1 DEF OneRootInv
  <2>2. ~bootRaced => \A c \in Bootstraps : ~boot'[c]
    BY <1>1, <2>1 DEF OneRootInv
  <2>3. ~bootRaced => \A k \in DOMAIN apiTokens : apiTokens[k].by # 0
    BY <1>1 DEF OneRootInv, Bootstrapped, TokensInv, Minted
  <2>4. QED
    BY <1>1, <1>7, <2>1, <2>2, <2>3 DEF OneRootInv
<1>9. HandlersInv' /\ ServedInv'
  BY <1>1, <1>7, HandlersSame, ServedKept
<1>10. QED
  BY <1>5, <1>8, <1>9

\* A request that has arrived is of a tenant that has moved, and stays as it is.
LEMMA MovedOk ==
  ASSUME SameTokens, UNCHANGED apiTokens, NEW r, HandlerOk(r), NEW q,
         q = IF "since" \in DOMAIN r THEN [r EXCEPT !.since = "moved"] ELSE r
  PROVE  HandlerOk(q)'
<1>1. CASE "since" \notin DOMAIN r
  BY <1>1 DEF HandlerOk, AsRequest
<1>2. CASE "since" \in DOMAIN r
  <2>1. AsRequest(r)
    BY <1>2 DEF HandlerOk
  <2>2. q = [r EXCEPT !.since = "moved"]
    BY <1>2
  <2>3. /\ DOMAIN q = DOMAIN r /\ q.since = "moved" /\ q.at = r.at /\ q.token = r.token
        /\ q.action = r.action /\ q.named = r.named /\ q.role = r.role /\ q.dead = r.dead
    BY <2>1, <2>2 DEF AsRequest
  <2>4. AsRequest(q)' /\ About(q)' = About(r)
    BY <2>1, <2>3 DEF AsRequest, About
  <2>5. "moved" # "suspended" /\ "moved" \notin GONE
    BY DEF GONE
  <2>6. Arrived(r) => Arrived(q)'
    BY <2>3, <2>4, <2>5 DEF Arrived
  <2>7. Allowed(r) => Allowed(q)'
    BY <2>3, <2>5 DEF Allowed, Right
  <2>8. Minting(r) => Minting(q)'
    BY <2>3 DEF Minting
  <2>9. QED
    BY <2>1, <2>3, <2>4, <2>6, <2>7, <2>8 DEF HandlerOk, AsRequest
<1>3. QED
  BY <1>1, <1>2

LEMMA WriteStatusOk ==
  ASSUME AccessInv, NEW h \in Handlers, WriteStatus(h)
  PROVE  AccessInv'
<1> USE DEF AccessInv
<1> DEFINE r == handlerOf[h]
<1>1. r.at = "write" /\ UNCHANGED <<apiTokens, boot, served, bootRaced>>
  BY DEF WriteStatus
<1>2. handlerOf' = [g \in Handlers |->
        IF g = h THEN IF r.to = "offboarding" THEN [r EXCEPT !.at = "revoke"] ELSE ATRest
        ELSE IF "since" \in DOMAIN handlerOf[g] THEN [handlerOf[g] EXCEPT !.since = "moved"]
        ELSE handlerOf[g]]
  BY DEF WriteStatus
<1>3. SameTokens /\ TokensInv'
  BY <1>1, SameTable
<1>4. OneRootInv' /\ ServedInv'
  BY <1>1, <1>3, SameRoots, ServedKept
<1>5. DOMAIN r = {"at", "named", "to"}
  BY <1>1 DEF HandlersInv, HandlerOk, Arrived
<1>6. ASSUME NEW g \in Handlers PROVE HandlerOk(handlerOf[g])'
  <2>1. PICK q : q = handlerOf'[g]
    OBVIOUS
  <2>2. CASE g = h
    <3>1. CASE r.to = "offboarding"
      <4>1. q = [r EXCEPT !.at = "revoke"]
        BY <1>2, <2>1, <2>2, <3>1
      <4>2. q.at = "revoke" /\ DOMAIN q = {"at", "named", "to"}
        BY <1>5, <4>1
      <4>3. HandlerOk(q)'
        BY <4>2 DEF HandlerOk
      <4>4. QED
        BY <2>1, <4>3
    <3>2. CASE r.to # "offboarding"
      <4>1. q = ATRest
        BY <1>2, <2>1, <2>2, <3>2
      <4>2. HandlerOk(q)'
        BY <4>1, AtRestOk
      <4>3. QED
        BY <2>1, <4>2
    <3>3. QED
      BY <3>1, <3>2
  <2>3. CASE g # h
    <3>1. PICK p : p = handlerOf[g]
      OBVIOUS
    <3>2. HandlerOk(p)
      BY <3>1 DEF HandlersInv
    <3>3. q = IF "since" \in DOMAIN p THEN [p EXCEPT !.since = "moved"] ELSE p
      BY <1>2, <2>1, <2>3, <3>1
    <3>4. HandlerOk(q)'
      BY <1>1, <1>3, <3>2, <3>3, MovedOk
    <3>5. QED
      BY <2>1, <3>4
  <2>4. QED
    BY <2>2, <2>3
<1>7. HandlersInv'
  BY <1>2, <1>6 DEF HandlersInv
<1>8. QED
  BY <1>3, <1>4, <1>7

-------------------------------------------------------------------------------
(* The invariant, and what follows from it. *)

LEMMA AccessInit ==
  ASSUME ACInit
  PROVE  AccessInv
<1>1. PICK t \in TenantIds : apiTokens \in {<<>>, <<Token(PA, NoTenant, 0), Token(TA, t, 1)>>}
  BY AccessAssumption DEF ACInit
<1>2. TokensInv /\ \A j, k \in DOMAIN apiTokens : apiTokens[j].by = 0 /\ apiTokens[k].by = 0 => j = k
  <2>1. CASE apiTokens = <<>>
    BY <2>1 DEF TokensInv
  <2>2. CASE apiTokens = <<Token(PA, NoTenant, 0), Token(TA, t, 1)>>
    <3>1. PICK u : u = Token(PA, NoTenant, 0)
      OBVIOUS
    <3>2. PICK v : v = Token(TA, t, 1)
      OBVIOUS
    <3>3. u \in TokenRow /\ u.role = PA /\ u.tenant = NoTenant /\ u.by = 0
      BY <3>1 DEF Token, TokenRow, AllRoles
    <3>4. v \in TokenRow /\ v.role = TA /\ v.tenant = t /\ v.by = 1
      BY <3>2 DEF Token, TokenRow, AllRoles
    <3>5. apiTokens = <<u, v>>
      BY <2>2, <3>1, <3>2
    <3>6. apiTokens \in Seq(TokenRow)
      BY <3>3, <3>4, <3>5
    <3>7. DOMAIN apiTokens = {1, 2} /\ apiTokens[1] = u /\ apiTokens[2] = v
      BY <3>5
    <3>8. Minted(1) /\ Minted(2)
      BY <3>3, <3>4, <3>7, AdminHasAll, RolesDiffer, AccessAssumption DEF Minted
    <3>9. QED
      BY <3>3, <3>4, <3>6, <3>7, <3>8 DEF TokensInv
  <2>3. QED
    BY <1>1, <2>1, <2>2
<1>3. OneRootInv
  BY <1>2 DEF OneRootInv, ACInit
<1>4. HandlersInv
  BY AtRestOk DEF HandlersInv, ACInit
<1>5. ServedInv
  BY DEF ServedInv, ACInit
<1>6. QED
  BY <1>2, <1>3, <1>4, <1>5 DEF AccessInv

LEMMA AccessStep ==
  ASSUME AccessInv, [ACNext]_accvars
  PROVE  AccessInv'
<1>1. CASE \E b \in Bootstraps : BootLooks(b) \/ BootMints(b)
  BY <1>1, BootLooksOk, BootMintsOk
<1>2. CASE \E k \in DOMAIN apiTokens, a \in Wanted, t \in TenantIds \cup {NoTenant} :
             \/ a \notin {"tokens.create", "tokens.revoke"} /\ Ask(k, a, t, PA, 0)
             \/ a = "tokens.create" /\ t # NoTenant
                  /\ \E role \in RolesAsked : Ask(k, a, t, role, 0)
             \/ a = "tokens.revoke" /\ t # NoTenant
                  /\ \E o \in DOMAIN apiTokens : Ask(k, a, t, PA, o)
  <2>1. PICK k \in DOMAIN apiTokens, a \in Wanted, t \in TenantIds \cup {NoTenant} :
          \E role \in AllRoles : \E o : Ask(k, a, t, role, o)
    BY <1>2, AccessAssumption, RolesDiffer DEF AllRoles
  <2>2. PICK role \in AllRoles : \E o : Ask(k, a, t, role, o)
    BY <2>1
  <2>3. PICK o : Ask(k, a, t, role, o)
    BY <2>2
  <2>4. QED
    BY <2>3, AskOk
<1>3. CASE \E h \in Handlers :
             \/ ReadToken(h) \/ ReadTenant(h) \/ Check(h) \/ ActOnToken(h) \/ InsertToken(h)
             \/ ActRevoke(h) \/ ActOnStatus(h) \/ WriteStatus(h) \/ RevokeAll(h) \/ ActOtherwise(h)
  BY <1>3, ReadTokenOk, ReadTenantOk, CheckOk, ActOnTokenOk, InsertTokenOk, ActRevokeOk,
     ActOnStatusOk, WriteStatusOk, RevokeAllOk, ActOtherwiseOk
<1>4. CASE UNCHANGED accvars
  <2>1. SameTokens /\ TokensInv' /\ OneRootInv'
    BY <1>4, SameTable, SameRoots DEF accvars, AccessInv
  <2>2. HandlersInv' /\ ServedInv'
    BY <1>4, <2>1, HandlersSame, ServedKept DEF accvars, AccessInv
  <2>3. QED
    BY <2>1, <2>2 DEF AccessInv
<1>5. QED
  BY <1>1, <1>2, <1>3, <1>4 DEF ACNext

LEMMA AccessIsInductive == ACSpec => []AccessInv
<1>1. ACInit => AccessInv
  BY AccessInit
<1>2. AccessInv /\ [ACNext]_accvars => AccessInv'
  BY AccessStep
<1>3. QED
  BY <1>1, <1>2, PTL DEF ACSpec

LEMMA InvGivesHolds ==
  ASSUME AccessInv
  PROVE  AccessHolds
<1> DEFINE roots == {k \in DOMAIN apiTokens : apiTokens[k].by = 0}
<1>1. ServedHadTheRight
  BY DEF AccessInv, ServedInv, Right, ServedHadTheRight
<1>2. bootRaced \/ Cardinality(roots) <= 1
  <2>1. CASE roots = {}
    <3>1. Cardinality(roots) = 0
      BY <2>1, FS_EmptySet
    <3>2. QED
      BY <3>1
  <2>2. CASE roots # {} /\ ~bootRaced
    <3>1. PICK j \in roots : TRUE
      BY <2>2
    <3>2. roots = {j}
      BY <2>2, <3>1 DEF AccessInv, OneRootInv
    <3>3. Cardinality(roots) = 1
      BY <3>2, FS_Singleton
    <3>4. QED
      BY <3>3
  <2>3. QED
    BY <2>1, <2>2
<1>3. RightsOnlyShrink
  BY <1>2 DEF RightsOnlyShrink, AccessInv, TokensInv, Minted
<1>4. QED
  BY <1>1, <1>3 DEF AccessHolds

\* Nobody gains a right by what happens between the checks of a request and what it does
\* (principals.py:74-131, access.py:63-106): whatever the routes, the command line and the
\* bootstraps do in between, every token traces back to a root whose rights and tenant hold
\* its own, there is one root unless two bootstraps looked at once, and whoever was served
\* had the right, in its own tenant, by a token that was good when the request arrived.
THEOREM AccessIsKept == ACSpec => []AccessHolds
BY AccessIsInductive, InvGivesHolds, PTL

===============================================================================
