----------------------------- MODULE TenantConfig -----------------------------
(* The stored configuration of one tenant (app/tenant_config.py): a row of     *)
(* behaviour fields and encrypted secrets, written by the admin routes and by  *)
(* the command line, each from a process of its own, and read for every run.   *)
(* A writer merges what it was given into the row it reads, between BEGIN      *)
(* IMMEDIATE and COMMIT.  A value is the set of what matters about it: one     *)
(* word, the domains of a list, or "junk" that does not parse.                 *)
EXTENDS Naturals, FiniteSets

CONSTANTS
  Writers,     \* processes that write the configuration
  FernetKeys,  \* values PAYPILOT_TENANT_KEY takes
  NoFernetKey, \* the variable is not set
  Edits,       \* behaviours the tenant's admin sends
  Grants,      \* behaviours the platform's operator sends
  MaxConfigOps \* bound: commands and key changes

\* Any list of domains parses.
ASSUME EditsAssumption ==
  \A f \in Edits \cup Grants :
    "allowed_from_domains" \in DOMAIN f => f["allowed_from_domains"] # {"junk"}

VARIABLES
  confRow,     \* the tenant_config row: behaviour, a secret, the key it is under
  confLock,    \* the writer that holds the database's write lock
  writer,      \* writer -> its command and what it read
  fernet,      \* PAYPILOT_TENANT_KEY of the processes
  said,        \* what the commands so far said, each applied whole when it committed
  confOps

tcvars == <<confRow, confLock, writer, fernet, said, confOps>>

Nobody == "nobody"
ASSUME WritersAssumption == Nobody \notin Writers

NoConf == [behaviour |-> <<>>, secret |-> 0, under |-> NoFernetKey]
AtRest == [at |-> "rest"]

\* The fields of f, and those of g that f does not have.
Merged(f, g) ==
  [x \in DOMAIN f \cup DOMAIN g |-> IF x \in DOMAIN f THEN f[x] ELSE g[x]]

\* Fields only the operator may set.
PlatformOnlyFields == {"send_enabled", "allowed_from_domains", "llm_budget_usd"}

TCInit ==
  /\ confRow = NoConf /\ confLock = Nobody
  /\ writer = [w \in Writers |-> AtRest]
  /\ fernet \in FernetKeys /\ said = [behaviour |-> <<>>, secret |-> 0] /\ confOps = 0

\* No blob decrypts under another key than its own, one without secrets included; a
\* row that only the operator wrote has no blob.
CanDecrypt(conf) == conf.under \in {NoFernetKey, fernet}

\* save_tenant_config and set_platform_fields up to the transaction: a platform
\* field from a tenant is refused.
Command(w, kind, fields, secret) ==
  /\ writer[w] = AtRest /\ confOps < MaxConfigOps /\ confOps' = confOps + 1
  /\ kind = "save" => DOMAIN fields \cap PlatformOnlyFields = {}
  /\ writer' = [writer EXCEPT ![w] =
       [at |-> "asked", kind |-> kind, fields |-> fields, secret |-> secret, read |-> confRow]]
  /\ UNCHANGED <<confRow, confLock, fernet, said>>

\* A writer that keeps the row it saw before it had the lock.
RowReadBefore(w) == writer[w].read

\* The row is read inside the transaction.
RowRead(w) == confRow

\* BEGIN IMMEDIATE, then the read.
BeginWrite(w) ==
  /\ writer[w].at = "asked" /\ confLock = Nobody
  /\ confLock' = w
  /\ writer' = [writer EXCEPT ![w] = [@ EXCEPT !.at = "writing", !.read = RowRead(w)]]
  /\ UNCHANGED <<confRow, fernet, said, confOps>>

\* A save decrypts and encrypts; the operator's fields need no key.
CommitWrite(w) ==
  /\ writer[w].at = "writing"
  /\ LET c == writer[w]
         secret == IF c.secret # 0 THEN c.secret ELSE c.read.secret
     IN /\ c.kind = "save" => CanDecrypt(c.read) /\ fernet # NoFernetKey
        /\ confRow' = [behaviour |-> Merged(c.fields, c.read.behaviour),
                       secret |-> secret,
                       under  |-> IF c.kind = "save" THEN fernet ELSE c.read.under]
        /\ said' = [behaviour |-> Merged(c.fields, said.behaviour),
                    secret |-> IF c.secret # 0 THEN c.secret ELSE said.secret]
  /\ confLock' = Nobody /\ writer' = [writer EXCEPT ![w] = AtRest]
  /\ UNCHANGED <<fernet, confOps>>

\* Anything raised inside rolls back, the refusal for the key among it; so does
\* the death of the process.
RollBackWrite(w) ==
  /\ writer[w].at = "writing"
  /\ confLock' = Nobody /\ writer' = [writer EXCEPT ![w] = AtRest]
  /\ UNCHANGED <<confRow, fernet, said, confOps>>

\* The operator deploys another key, or none.
ChangeKey(k) ==
  /\ k # fernet /\ confOps < MaxConfigOps /\ confOps' = confOps + 1
  /\ confLock = Nobody /\ fernet' = k
  /\ UNCHANGED <<confRow, confLock, writer, said>>

TCNext ==
  \/ \E w \in Writers :
       \/ \E f \in Edits : Command(w, "save", f, 0)
       \/ \E s \in 1..2 : Command(w, "save", <<>>, s)
       \/ \E f \in Grants : Command(w, "platform", f, 0)
       \/ BeginWrite(w) \/ CommitWrite(w) \/ RollBackWrite(w)
  \/ \E k \in FernetKeys \cup {NoFernetKey} : ChangeKey(k)

TCSpec == TCInit /\ [][TCNext]_tcvars

-----------------------------------------------------------------------------
\* What a value that does not parse becomes: no sending, no money, every mail
\* approved (_switch_on, _budget, _approval_mode).
Closed == [send_enabled |-> {"off"}, llm_budget_usd |-> {"0"}, approval_mode |-> {"email"}]

Coerce(f, v) == IF v = {"junk"} THEN Closed[f] ELSE v

PlatformBase ==
  [approval_mode |-> {"email"}, from_address |-> {"platform"}, send_enabled |-> {"off"},
   allowed_from_domains |-> {}, llm_budget_usd |-> {"no ceiling"}]

\* The sender a row states, whatever the platform allows it.
SenderStated(c) == c

\* A sender outside the domains the platform allows falls back to the platform's.
SenderAllowed(c) ==
  IF c.from_address \subseteq c.allowed_from_domains THEN c
  ELSE [c EXCEPT !.from_address = PlatformBase.from_address]

\* The demo tenant never sends.
Finished(c, demo) == IF demo THEN [c EXCEPT !.send_enabled = {"off"}] ELSE c

\* config_for: the row over the platform's defaults; without a row, or with
\* secrets that do not decrypt, there is no configuration to run with.
ConfigFor(demo) ==
  LET set == [f \in DOMAIN confRow.behaviour |-> Coerce(f, confRow.behaviour[f])]
  IN  Finished(SenderAllowed(Merged(set, PlatformBase)), demo)

Configured == confRow # NoConf /\ CanDecrypt(confRow)

-----------------------------------------------------------------------------
\* No command of one process is lost under a command of another: the row holds
\* the last committed value of every field and of the secret, and a command that
\* was refused or died left nothing (tenant_config.py:466-483).
RowHoldsEveryCommand ==
  confRow.behaviour = said.behaviour /\ confRow.secret = said.secret

\* Whatever a tenant's admin wrote, and in whatever order the operator's grants
\* came and went, the configuration in force sends only when the operator's last
\* word was to send, as a sender of a domain that is granted now, and never more
\* than the budget of the operator's last word.
InForceIsGranted ==
  Configured => \A demo \in BOOLEAN :
    LET c == ConfigFor(demo)
        Last(f) == IF f \in DOMAIN said.behaviour THEN said.behaviour[f] ELSE PlatformBase[f]
    IN /\ c.send_enabled = {"on"} => Last("send_enabled") = {"on"} /\ ~demo
       /\ c.from_address # PlatformBase.from_address =>
            c.from_address \subseteq Last("allowed_from_domains")
       /\ c.llm_budget_usd = {"no ceiling"} => Last("llm_budget_usd") = {"no ceiling"}

\* No command is lost, and none gives a tenant more than it was granted.
ConfigHolds == RowHoldsEveryCommand /\ InForceIsGranted
=============================================================================
