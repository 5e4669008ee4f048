------------------------------ MODULE Records ------------------------------
(***************************************************************************)
(* The database transactions of the API that end with an audit entry:       *)
(* portfolio.service.ts, client.service.ts, kill-switch.service.ts,         *)
(* access-control.ts; and the hash chain of audit.service.ts.               *)
(*                                                                         *)
(* Statements of concurrent transactions interleave under READ COMMITTED:   *)
(* an UPDATE holds its row until the end, pg_advisory_xact_lock holds the   *)
(* chain until the end, and what was written shows only after the commit.   *)
(* A hash is the sequence of payloads it covers: equal only if they are.    *)
(***************************************************************************)
EXTENDS Integers, Sequences, FiniteSets

CONSTANTS
  Portfolios,      \* ids of portfolios, all of one environment
  PortfolioNames,  \* their names
  References,      \* values of externalRef
  Requests,        \* requests in progress
  Patches,         \* bodies of PATCH /portfolios/:id, by the fields they name
  Horizon,         \* limit of verifyChain
  MaxLog           \* bound: audit entries

ExecutionMode == {"OBSERVE", "MANUAL_APPROVAL", "LIMITED_AUTO", "FULL_AUTO"}
Settings      == {"name", "executionMode", "isActive"}

(* The fields of updatePortfolioSchema, all optional.                       *)
ASSUME RecordsAssumption ==
  /\ Horizon \in Nat \ {0} /\ MaxLog \in Nat
  /\ "client" \notin Portfolios
  /\ \A patch \in Patches :
       \E D \in SUBSET Settings :
         patch \in [D -> PortfolioNames \cup ExecutionMode \cup {"yes", "no"}]

VARIABLES
  portfolio,    \* committed rows, by id
  clients,      \* externalRef of the committed clients
  auditLog,     \* committed entries in order of seq
  tx,           \* per request: its transaction
  rowLock,      \* per portfolio: the transactions that have updated it
  chainLock,    \* the transactions that hold AUDIT_CHAIN_LOCK
  damage        \* history: how and where storage was altered

tables      == <<portfolio, clients, auditLog, damage>>
recordsVars == <<tables, tx, rowLock, chainLock>>

Fields   == Settings \cup {"tradingState"}
NoRecord == [f \in {} |-> 0]                 \* no such row, or nothing recorded
Created(name) == [name |-> name, executionMode |-> "MANUAL_APPROVAL", isActive |-> "yes",
                  tradingState |-> "ACTIVE"]
Ended    == [kind |-> "none", todo |-> <<>>, id |-> "none", patch |-> NoRecord,
             next |-> NoRecord, entry |-> NoRecord]
Intact   == [how |-> "none", at |-> 0]

(* The transactions that write the row of their portfolio.                  *)
OfRow == {"PORTFOLIO_MODIFIED", "PORTFOLIO_CREATED", "KILL_SWITCH_ACTIVATED", "KILL_SWITCH_RELEASED"}

Exists(p)    == portfolio[p] # NoRecord
Unused(p)    == ~Exists(p) /\ \A r \in Requests : tx[r].id # p
Open         == {r \in Requests : tx[r] # Ended}
Doing(r, s)  == tx[r] # Ended /\ Head(tx[r].todo) = s
Patched(row, patch) == [f \in Fields |-> IF f \in DOMAIN patch THEN patch[f] ELSE row[f]]
-----------------------------------------------------------------------------
(* The chain.                                                               *)

Genesis == <<>>
HashAuditPayload(prevHash, payload) == Append(prevHash, payload)
LastHash == IF auditLog = <<>> THEN Genesis ELSE auditLog[Len(auditLog)].hash

LinkHolds(l, i) ==
  /\ l[i].prevHash = (IF i = 1 THEN Genesis ELSE l[i - 1].hash)
  /\ l[i].hash = HashAuditPayload(l[i].prevHash, l[i].payload)

(* Mutant of VerifyChain: each row is hashed with its own prevHash only.    *)
VerifyChainUnlinked(l) ==
  \A i \in 1 .. Len(l) :
    i <= Horizon => l[i].hash = HashAuditPayload(l[i].prevHash, l[i].payload)

(* verifyChain(): the first Horizon rows.                                   *)
VerifyChain(l) == \A i \in 1 .. Len(l) : i <= Horizon => LinkHolds(l, i)
-----------------------------------------------------------------------------
(* Requests up to their transaction.                                        *)

(* Of the columns that a request names, these are in a unique index.        *)
Indexes(patch) == DOMAIN patch \cap {"name", "externalRef"} # {}

(* Mutant of Statements: engage() records the halt before it writes it.     *)
StatementsHaltToldFirst(kind, patch) ==
  CASE kind = "KILL_SWITCH_ACTIVATED" -> <<"record", "insert", "row", "commit">>
    [] kind \in OfRow \ {"KILL_SWITCH_ACTIVATED"} /\ Indexes(patch) ->
         <<"row", "index", "record", "insert", "commit">>
    [] kind \in OfRow \ {"KILL_SWITCH_ACTIVATED"} /\ ~Indexes(patch) ->
         <<"row", "record", "insert", "commit">>
    [] kind \notin OfRow -> <<"record", "insert", "commit">>

(* An UPDATE or INSERT takes the row, then meets the unique index; append() *)
(* takes the chain and reads it, then inserts.                              *)
Statements(kind, patch) ==
  CASE kind \in OfRow /\ Indexes(patch)     -> <<"row", "index", "record", "insert", "commit">>
    [] kind \in OfRow /\ ~Indexes(patch)    -> <<"row", "record", "insert", "commit">>
    [] kind \notin OfRow /\ Indexes(patch)  -> <<"index", "record", "insert", "commit">>
    [] kind \notin OfRow /\ ~Indexes(patch) -> <<"record", "insert", "commit">>

Begins(r, kind, id, patch) ==
  /\ tx[r] = Ended
  /\ Len(auditLog) + Cardinality(Open) < MaxLog
  /\ tx' = [tx EXCEPT ![r] =
       [Ended EXCEPT !.kind = kind, !.todo = Statements(kind, patch), !.id = id, !.patch = patch]]
  /\ UNCHANGED <<tables, rowLock, chainLock>>

(* assertPortfolioAccess() looks at the row outside the transaction.        *)
Update(r, p) ==
  Exists(p) /\ \E patch \in Patches : Begins(r, "PORTFOLIO_MODIFIED", p, patch)

EngageKillSwitch(r, p) ==
  Exists(p) /\ Begins(r, "KILL_SWITCH_ACTIVATED", p, [f \in {"tradingState"} |-> "HALTED"])

(* release() returns at once when the portfolio is trading.                 *)
ReleaseKillSwitch(r, p) ==
  /\ Exists(p) /\ portfolio[p].tradingState = "HALTED"
  /\ Begins(r, "KILL_SWITCH_RELEASED", p, [f \in {"tradingState"} |-> "ACTIVE"])

(* create(): the row gets a fresh id and, in the same transaction, its      *)
(* first risk limit and its client link.                                    *)
CreatePortfolio(r, p, name) ==
  Unused(p) /\ Begins(r, "PORTFOLIO_CREATED", p, Created(name))

(* The new row is locked by nobody else; its externalRef is optional.       *)
CreateClient(r, D) ==
  \E patch \in [D -> References] : Begins(r, "CLIENT_CREATED", "client", patch)

(* assertPortfolioAccess() for a portfolio out of scope: recordSafe() in a  *)
(* transaction of its own, then 404 whatever became of the entry.           *)
DenyAccess(r, p) == Exists(p) /\ Begins(r, "PORTFOLIO_ACCESS_DENIED", p, NoRecord)
-----------------------------------------------------------------------------
(* Whom a statement waits for.                                              *)

(* An UPDATE that changes the name changes a key of the table: it takes the *)
(* row for itself, where others share it with foreign keys that point to it.*)
Renames(t) == /\ t.kind = "PORTFOLIO_MODIFIED" /\ "name" \in DOMAIN t.patch
              /\ t.patch.name # portfolio[t.id].name

(* Entries inserted and not committed share the row of their portfolio.     *)
Sharing(p) == {q \in Requests : Doing(q, "commit") /\ tx[q].id = p}

RowBlockers(r) ==
  rowLock[tx[r].id] \cup (IF Renames(tx[r]) THEN Sharing(tx[r].id) ELSE {})

(* The unique values a transaction puts into the indexes portfolios(name,   *)
(* environment) and clients(externalRef), and the one it takes out.         *)
Claims(t) ==
  CASE t.kind = "CLIENT_CREATED"    -> {t.patch[f] : f \in DOMAIN t.patch}
    [] t.kind = "PORTFOLIO_CREATED" -> {t.patch.name}
    [] Renames(t)                   -> {t.patch.name}
    [] OTHER                        -> {}

Indexed(q) == \E s \in {"record", "insert", "commit"} : Doing(q, s)
Held(q)    == tx[q].kind \in OfRow /\ q \in rowLock[tx[q].id]

IndexBlockers(r) ==
  {q \in Requests \ {r} :
     \/ Indexed(q) /\ Claims(tx[r]) \cap Claims(tx[q]) # {}
     \/ Held(q) /\ Renames(tx[q]) /\ portfolio[tx[q].id].name \in Claims(tx[r])}

(* The foreign key of an entry needs the row of its portfolio to keep its   *)
(* keys: it waits for a rename by somebody else.                            *)
KeyBlockers(r) == {q \in Requests \ {r} : Held(q) /\ Renames(tx[q]) /\ tx[q].id = tx[r].id}
-----------------------------------------------------------------------------
(* Statements.                                                              *)

Advance(r, record) == tx' = [tx EXCEPT ![r] = [record EXCEPT !.todo = Tail(@)]]

(* Mutant of WriteRow: the row is saved as a whole, as it was read.         *)
WriteWholeRow(r) ==
  LET t == tx[r] IN
  /\ Doing(r, "row")
  /\ rowLock' = [rowLock EXCEPT ![t.id] = @ \cup {r}]
  /\ Advance(r, [t EXCEPT !.next = Patched(portfolio[t.id], t.patch)])
  /\ UNCHANGED <<tables, chainLock>>

(* tx.portfolio.update() or create(): waits for the row, then sees what the *)
(* transaction it waited for has committed.                                 *)
WriteRow(r) ==
  LET t == tx[r] IN
  /\ Doing(r, "row") /\ RowBlockers(r) = {}
  /\ rowLock' = [rowLock EXCEPT ![t.id] = {r}]
  /\ Advance(r, [t EXCEPT !.next = Patched(portfolio[t.id], t.patch)])
  /\ UNCHANGED <<tables, chainLock>>

(* A value that is taken is an error, one that is being written or replaced *)
(* is waited for, with the row held.                                        *)
Taken == clients \cup {portfolio[p].name : p \in {q \in Portfolios : Exists(q)}}

ClaimUnique(r) ==
  /\ Doing(r, "index") /\ IndexBlockers(r) = {} /\ Claims(tx[r]) \cap Taken = {}
  /\ Advance(r, tx[r])
  /\ UNCHANGED <<tables, rowLock, chainLock>>

(* The `after` of each entry.                                               *)
AfterValue(t) ==
  CASE t.kind = "PORTFOLIO_MODIFIED" -> [f \in Settings |-> t.next[f]]
    [] t.kind = "PORTFOLIO_CREATED"  -> [f \in {"name", "executionMode"} |-> t.next[f]]
    [] OTHER -> t.patch

Entry(t) ==
  LET payload == [action |-> t.kind, entityId |-> t.id, after |-> AfterValue(t)]
  IN  [prevHash |-> LastHash, payload |-> payload,
       hash |-> HashAuditPayload(LastHash, payload)]

(* Mutant of Record: the lock is tried, and its answer ignored.             *)
RecordUnlocked(r) ==
  /\ Doing(r, "record")
  /\ chainLock' = chainLock \cup {r}
  /\ Advance(r, [tx[r] EXCEPT !.entry = Entry(tx[r])])
  /\ UNCHANGED <<tables, rowLock>>

(* append(): waits for the chain's lock, then reads the last entry that is  *)
(* committed.                                                               *)
Record(r) ==
  /\ Doing(r, "record") /\ chainLock = {}
  /\ chainLock' = {r}
  /\ Advance(r, [tx[r] EXCEPT !.entry = Entry(tx[r])])
  /\ UNCHANGED <<tables, rowLock>>

(* append(): the INSERT, with its foreign key to the portfolio.             *)
InsertEntry(r) ==
  /\ Doing(r, "insert") /\ KeyBlockers(r) = {}
  /\ Advance(r, tx[r])
  /\ UNCHANGED <<tables, rowLock, chainLock>>

Finish(r) ==
  /\ tx' = [tx EXCEPT ![r] = Ended]
  /\ rowLock' = [p \in Portfolios |-> rowLock[p] \ {r}]
  /\ chainLock' = chainLock \ {r}

Commit(r) ==
  LET t == tx[r] IN
  /\ Doing(r, "commit")
  /\ portfolio' = IF t.kind \in OfRow THEN [portfolio EXCEPT ![t.id] = t.next] ELSE portfolio
  /\ clients' = IF t.kind = "CLIENT_CREATED" THEN clients \cup Claims(t) ELSE clients
  /\ auditLog' = Append(auditLog, t.entry)
  /\ Finish(r) /\ UNCHANGED damage

(* Any statement may fail, time out, lose its connection or be the one that *)
(* the database aborts to end a deadlock.                                   *)
Rollback(r) ==
  tx[r] # Ended /\ Finish(r) /\ UNCHANGED tables

(* Once, storage is altered past the database's triggers: a row's content,  *)
(* a row's content with its own hash, or a row removed.                     *)
Alter(how, i) ==
  LET l == auditLog
      changed == [l[i] EXCEPT !.payload.action = "ALTERED"]
  IN
  /\ damage = Intact
  /\ damage' = [how |-> how, at |-> IF how = "edited" THEN i
                                    ELSE IF i = Len(l) THEN 0
                                    ELSE IF how = "rehashed" THEN i + 1 ELSE i]
  /\ auditLog' =
       CASE how = "edited"   -> [l EXCEPT ![i] = changed]
         [] how = "rehashed" -> [l EXCEPT ![i] =
              [changed EXCEPT !.hash = HashAuditPayload(changed.prevHash, changed.payload)]]
         [] how = "removed"  -> SubSeq(l, 1, i - 1) \o SubSeq(l, i + 1, Len(l))
  /\ UNCHANGED <<portfolio, clients, tx, rowLock, chainLock>>
-----------------------------------------------------------------------------
RecordsInit ==
  /\ portfolio \in [Portfolios -> {NoRecord} \cup {Created(name) : name \in PortfolioNames}]
  /\ \A p, q \in Portfolios : p # q /\ Exists(p) => portfolio[p] # portfolio[q]
  /\ clients = {} /\ auditLog = <<>> /\ damage = Intact
  /\ tx = [r \in Requests |-> Ended]
  /\ rowLock = [p \in Portfolios |-> {}] /\ chainLock = {}

RecordsNext ==
  \/ \E r \in Requests :
       \/ \E p \in Portfolios :
            Update(r, p) \/ EngageKillSwitch(r, p) \/ ReleaseKillSwitch(r, p) \/ DenyAccess(r, p)
       \/ \E p \in Portfolios, name \in PortfolioNames : CreatePortfolio(r, p, name)
       \/ \E D \in SUBSET {"externalRef"} : CreateClient(r, D)
       \/ WriteRow(r) \/ ClaimUnique(r) \/ Record(r) \/ InsertEntry(r)
       \/ Commit(r) \/ Rollback(r)
  \/ \E how \in {"edited", "rehashed", "removed"}, i \in DOMAIN auditLog : Alter(how, i)

RecordsSpec == RecordsInit /\ [][RecordsNext]_recordsVars
-----------------------------------------------------------------------------
(* "Each row's hash covers the previous row's hash": however transactions   *)
(* overlap, commit out of order or roll back, the committed entries form    *)
(* one chain.                                                               *)
ChainLinear == damage = Intact => \A i \in DOMAIN auditLog : LinkHolds(auditLog, i)

(* verifyChain() accepts the log as written, and reports every alteration   *)
(* it can reach: of content within the horizon, and of a row or its hash    *)
(* when a later row within the horizon was chained to it.                   *)
TamperEvident ==
  /\ damage = Intact => VerifyChain(auditLog)
  /\ damage.at \in 1 .. Horizon => ~VerifyChain(auditLog)

(* The newest entry that names a field of a portfolio gives its present     *)
(* value, in whatever order concurrent updates and halts got their locks.   *)
LastAuditIsCurrent ==
  damage = Intact =>
    \A p \in Portfolios, f \in Fields :
      LET told == {i \in DOMAIN auditLog : /\ auditLog[i].payload.entityId = p
                                           /\ f \in DOMAIN auditLog[i].payload.after}
      IN  \A i \in told : (\A j \in told : j <= i)
                          => auditLog[i].payload.after[f] = portfolio[p][f]

Blockers(r) == CASE Doing(r, "row")    -> RowBlockers(r)
                 [] Doing(r, "index")  -> IndexBlockers(r)
                 [] Doing(r, "record") -> chainLock
                 [] Doing(r, "insert") -> KeyBlockers(r)
                 [] OTHER              -> {}

(* Transactions that wait for one another in a circle include one that      *)
(* holds the row it has renamed: halts, releases, creations and settings    *)
(* take their locks in one order, and only the foreign key of an entry or a *)
(* unique name, behind a rename, turns it round.                            *)
DeadlockNeedsRename ==
  \A S \in SUBSET Open :
    S # {} /\ (\A r \in S : Blockers(r) \cap S # {}) => \E r \in S : Held(r) /\ Renames(tx[r])
=============================================================================
