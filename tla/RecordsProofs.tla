--------------------------- MODULE RecordsProofs ---------------------------
(* Theorems about Records, for any portfolios, patches, concurrent requests *)
(* and any horizon of the verification.                                     *)
EXTENDS Records, SequenceTheorems, TLAPS

Kinds == OfRow \cup {"CLIENT_CREATED", "PORTFOLIO_ACCESS_DENIED"}
Ids   == Portfolios \cup {"client"}
Todos == {<<"row", "index", "record", "insert", "commit">>, <<"row", "record", "insert", "commit">>,
          <<"index", "record", "insert", "commit">>, <<"record", "insert", "commit">>,
          <<"insert", "commit">>, <<"commit">>}

Values   == PortfolioNames \cup References \cup ExecutionMode \cup {"yes", "no", "ACTIVE", "HALTED"}
Rows     == [Fields -> Values]
NewRows  == {Created(name) : name \in PortfolioNames}
Afters   == UNION {[D -> Values] : D \in SUBSET (Fields \cup {"externalRef"})}
Payloads == [action : Kinds \cup {"ALTERED"}, entityId : Ids, after : Afters]
Hashes   == Seq(Payloads)
Entries  == [prevHash : Hashes, payload : Payloads, hash : Hashes]
OpenTxs  == [kind : Kinds, todo : Todos, id : Ids, patch : Afters,
             next : Rows \cup {NoRecord}, entry : Entries \cup {NoRecord}]

(* An entry that continues the committed chain.                             *)
Continues(e) ==
  /\ e.prevHash = LastHash
  /\ e.hash = HashAuditPayload(e.prevHash, e.payload)
  /\ e.payload.action # "ALTERED"

(* What a transaction may rely on at each of its statements.                *)
OpenSound(r) ==
  LET t == tx[r] IN
  /\ t \in OpenTxs
  /\ t.kind \in OfRow => t.id \in Portfolios
  /\ Head(t.todo) = "row" => t.kind \in OfRow
  /\ t.id \in Portfolios => portfolio[t.id] # NoRecord \/ t.patch \in NewRows
  /\ t.kind \in OfRow /\ Head(t.todo) # "row" => t.next \in Rows
  /\ Head(t.todo) \in {"insert", "commit"}
       => /\ chainLock = {r} /\ t.entry \in Entries
          /\ damage = Intact => Continues(t.entry)

Sound(r) == tx[r] = Ended \/ OpenSound(r)

(* Who holds a lock has done the statement that takes it.                   *)
LocksHeld ==
  /\ \A r \in chainLock : r \in Requests /\ (Doing(r, "insert") \/ Doing(r, "commit"))
  /\ \A p \in Portfolios : \A r \in rowLock[p] :
       r \in Requests /\ \E s \in {"index", "record", "insert", "commit"} : Doing(r, s)

(* Once storage was altered, the first link it broke stays broken.          *)
DamageStays ==
  damage = Intact \/ damage.at = 0
  \/ (damage.at \in DOMAIN auditLog /\ ~LinkHolds(auditLog, damage.at))

RecordsTyped ==
  /\ portfolio \in [Portfolios -> Rows \cup {NoRecord}]
  /\ auditLog \in Seq(Entries)
  /\ DOMAIN tx = Requests
  /\ DOMAIN rowLock = Portfolios
  /\ damage \in [how : {"none", "edited", "rehashed", "removed"}, at : Nat]

LogUnaltered == damage = Intact => \A i \in DOMAIN auditLog : auditLog[i].payload.action # "ALTERED"

RecordsInv ==
  /\ RecordsTyped /\ LocksHeld
  /\ \A r \in Requests : Sound(r)
  /\ ChainLinear /\ LogUnaltered /\ DamageStays
-----------------------------------------------------------------------------
(* What is left to do after a statement.                                    *)
LEMMA TodoFacts ==
  ASSUME NEW todo \in Todos
  PROVE  /\ Head(todo) \in {"row", "index", "record", "insert", "commit"}
         /\ Head(todo) # "commit" => Tail(todo) \in Todos
         /\ Head(todo) = "row" => Head(Tail(todo)) \in {"index", "record"}
         /\ Head(todo) = "index" => Head(Tail(todo)) = "record"
         /\ Head(todo) = "record" => Head(Tail(todo)) = "insert"
         /\ Head(todo) = "insert" => Head(Tail(todo)) = "commit"
<1> DEFINE t1 == <<"commit">>
           t2 == <<"insert", "commit">>
           t3 == <<"record", "insert", "commit">>
           t4 == <<"index", "record", "insert", "commit">>
           t5 == <<"row", "record", "insert", "commit">>
           t6 == <<"row", "index", "record", "insert", "commit">>
<1>1. /\ Head(t1) = "commit" /\ Head(t2) = "insert" /\ Head(t3) = "record"
      /\ Head(t4) = "index" /\ Head(t5) = "row" /\ Head(t6) = "row"
  OBVIOUS
<1>2. Tail(t2) = t1
  OBVIOUS
<1>3. Tail(t3) = t2
  OBVIOUS
<1>4. Tail(t4) = t3
  OBVIOUS
<1>5. Tail(t5) = t3
  OBVIOUS
<1>6. Tail(t6) = t4
  OBVIOUS
<1>7. Todos = {t1, t2, t3, t4, t5, t6}
  BY DEF Todos
<1> HIDE DEF t1, t2, t3, t4, t5, t6
<1> QED
  BY <1>1, <1>2, <1>3, <1>4, <1>5, <1>6, <1>7

LEMMA StatementsFacts ==
  ASSUME NEW kind, NEW patch
  PROVE  /\ Statements(kind, patch) \in Todos
         /\ Head(Statements(kind, patch)) \in {"row", "index", "record"}
         /\ Head(Statements(kind, patch)) = "row" <=> kind \in OfRow
BY DEF Statements, Todos

LEMMA NoRecordFacts == NoRecord \notin Rows /\ NoRecord \in Afters /\ DOMAIN NoRecord = {}
<1>1. DOMAIN NoRecord = {} /\ NoRecord \in [{} -> Values]
  BY DEF NoRecord
<1>2. "tradingState" \in Fields
  BY DEF Fields
<1>3. \A f \in Rows : DOMAIN f = Fields
  BY DEF Rows
<1>4. {} \in SUBSET (Fields \cup {"externalRef"})
  OBVIOUS
<1> QED
  BY <1>1, <1>2, <1>3, <1>4 DEF Afters

LEMMA CreatedFacts ==
  ASSUME NEW row \in NewRows
  PROVE  row \in Rows /\ row \in Afters /\ DOMAIN row = Fields
<1>1. row \in [Fields -> Values]
  BY DEF NewRows, Created, Fields, Settings, Values, ExecutionMode
<1>2. Fields \in SUBSET (Fields \cup {"externalRef"})
  OBVIOUS
<1> QED
  BY <1>1, <1>2 DEF Rows, Afters

LEMMA PatchFacts == Patches \subseteq Afters
<1> SUFFICES ASSUME NEW patch \in Patches PROVE patch \in Afters
  OBVIOUS
<1>1. PICK D \in SUBSET Settings : patch \in [D -> Values]
  BY RecordsAssumption DEF Values
<1>2. D \in SUBSET (Fields \cup {"externalRef"})
  BY DEF Fields
<1> QED
  BY <1>1, <1>2 DEF Afters

LEMMA ReferenceFacts ==
  ASSUME NEW D \in SUBSET {"externalRef"}, NEW patch \in [D -> References]
  PROVE  patch \in Afters /\ DOMAIN patch \cap Fields = {}
<1>1. patch \in [D -> Values] /\ D \in SUBSET (Fields \cup {"externalRef"})
  BY DEF Values
<1>2. DOMAIN patch \cap Fields = {}
  BY DEF Fields, Settings
<1> QED
  BY <1>1, <1>2 DEF Afters

LEMMA PatchedTyped ==
  ASSUME NEW row \in Rows \cup {NoRecord}, NEW patch \in Afters,
         row \in Rows \/ patch \in NewRows
  PROVE  Patched(row, patch) \in Rows
<1>1. \A f \in DOMAIN patch : patch[f] \in Values
  BY DEF Afters
<1>2. ASSUME NEW f \in Fields PROVE (IF f \in DOMAIN patch THEN patch[f] ELSE row[f]) \in Values
  BY <1>1, CreatedFacts DEF Rows
<1> QED
  BY <1>2 DEF Patched, Rows

LEMMA ChainGrows ==
  ASSUME NEW l \in Seq(Entries), NEW e \in Entries, NEW i \in DOMAIN l
  PROVE  LinkHolds(Append(l, e), i) <=> LinkHolds(l, i)
<1>1. Append(l, e)[i] = l[i] /\ i \in Nat
  OBVIOUS
<1>2. i # 1 => Append(l, e)[i - 1] = l[i - 1]
  OBVIOUS
<1> QED
  BY <1>1, <1>2, SMT DEF LinkHolds

LEMMA EntryTyped ==
  ASSUME RecordsTyped, NEW t \in OpenTxs, t.kind \in OfRow => t.next \in Rows
  PROVE  Entry(t) \in Entries /\ Continues(Entry(t))
<1>1. AfterValue(t) \in Afters
  <2>1. CASE t.kind \in {"PORTFOLIO_MODIFIED", "PORTFOLIO_CREATED"}
    <3>1. t.next \in Rows
      BY <2>1 DEF OfRow
    <3>2. /\ Settings \in SUBSET (Fields \cup {"externalRef"})
          /\ {"name", "executionMode"} \in SUBSET (Fields \cup {"externalRef"})
          /\ Settings \subseteq Fields /\ {"name", "executionMode"} \subseteq Fields
      BY DEF Fields, Settings
    <3>3. [f \in Settings |-> t.next[f]] \in [Settings -> Values]
      BY <3>1, <3>2 DEF Rows
    <3>4. [f \in {"name", "executionMode"} |-> t.next[f]] \in [{"name", "executionMode"} -> Values]
      BY <3>1, <3>2 DEF Rows
    <3> QED
      BY <2>1, <3>2, <3>3, <3>4 DEF AfterValue, Afters
  <2>2. CASE t.kind \notin {"PORTFOLIO_MODIFIED", "PORTFOLIO_CREATED"}
    BY <2>2 DEF AfterValue, OpenTxs
  <2> QED
    BY <2>1, <2>2
<1>2. LastHash \in Hashes
  <2>1. <<>> \in Hashes
    BY DEF Hashes
  <2>2. CASE auditLog # <<>>
    <3>1. auditLog[Len(auditLog)] \in Entries
      BY <2>2 DEF RecordsTyped
    <3> QED
      BY <2>2, <3>1 DEF LastHash, Entries
  <2> QED
    BY <2>1, <2>2 DEF LastHash, Genesis
<1> DEFINE payload == [action |-> t.kind, entityId |-> t.id, after |-> AfterValue(t)]
<1>3. payload \in Payloads
  <2>1. t.kind \in Kinds /\ t.id \in Ids
    BY DEF OpenTxs
  <2> QED
    BY <1>1, <2>1 DEF Payloads
<1>4. HashAuditPayload(LastHash, payload) \in Hashes
  BY <1>2, <1>3 DEF HashAuditPayload, Hashes
<1>5. t.kind # "ALTERED"
  BY DEF OpenTxs, Kinds, OfRow
<1> QED
  BY <1>2, <1>3, <1>4, <1>5 DEF Entry, Entries, Continues
-----------------------------------------------------------------------------
LEMMA RecordsInitEstablishes == RecordsInit => RecordsInv
<1> SUFFICES ASSUME RecordsInit PROVE RecordsInv
  OBVIOUS
<1>1. RecordsTyped
  <2>1. portfolio \in [Portfolios -> {NoRecord} \cup NewRows]
    BY DEF RecordsInit, NewRows
  <2>2. portfolio \in [Portfolios -> Rows \cup {NoRecord}]
    BY <2>1, CreatedFacts
  <2> QED
    BY <2>2 DEF RecordsInit, RecordsTyped, Intact
<1>2. auditLog = <<>> /\ DOMAIN auditLog = {} /\ damage = Intact
  BY DEF RecordsInit
<1>3. LocksHeld /\ \A r \in Requests : Sound(r)
  BY DEF RecordsInit, LocksHeld, Sound
<1> QED
  BY <1>1, <1>2, <1>3 DEF RecordsInv, ChainLinear, LogUnaltered, DamageStays

(* A request that begins leaves the others, the locks and the log alone.    *)
LEMMA BeginsKeeps ==
  ASSUME RecordsInv, NEW r \in Requests, NEW kind \in Kinds, NEW id \in Ids,
         NEW patch \in Afters, Begins(r, kind, id, patch),
         kind \in OfRow => id \in Portfolios,
         id \in Portfolios => portfolio[id] # NoRecord \/ patch \in NewRows
  PROVE  RecordsInv'
<1> DEFINE t == [Ended EXCEPT !.kind = kind, !.todo = Statements(kind, patch), !.id = id,
                              !.patch = patch]
<1>1. /\ tx' = [tx EXCEPT ![r] = t] /\ tx[r] = Ended
      /\ UNCHANGED <<portfolio, auditLog, rowLock, chainLock, damage>>
  BY DEF Begins, tables
<1>2. /\ t \in [kind : {kind}, todo : {Statements(kind, patch)}, id : {id}, patch : {patch},
                next : {NoRecord}, entry : {NoRecord}]
  <2>1. Ended \in [kind : {"none"}, todo : {<<>>}, id : {"none"}, patch : {NoRecord},
                  next : {NoRecord}, entry : {NoRecord}]
    BY DEF Ended
  <2> QED
    BY <2>1
<1> HIDE DEF t
<1>3. /\ t \in OpenTxs /\ Head(t.todo) \notin {"insert", "commit"}
      /\ Head(t.todo) = "row" <=> t.kind \in OfRow
  BY <1>2, StatementsFacts DEF OpenTxs
<1>4. ASSUME NEW q \in Requests PROVE tx'[q] = IF q = r THEN t ELSE tx[q]
  BY <1>1 DEF RecordsInv, RecordsTyped
<1>5. OpenSound(r)'
  BY <1>1, <1>2, <1>3, <1>4 DEF OpenSound
<1>6. ASSUME NEW q \in Requests PROVE Sound(q)'
  BY <1>1, <1>4, <1>5 DEF RecordsInv, Sound, OpenSound, Continues, LastHash
<1>7. ASSUME NEW q \in Requests, NEW s, Doing(q, s) PROVE Doing(q, s)'
  BY <1>1, <1>4, <1>7 DEF Doing
<1>8. LocksHeld'
  BY <1>1, <1>7 DEF RecordsInv, RecordsTyped, LocksHeld
<1>9. RecordsTyped'
  BY <1>1 DEF RecordsInv, RecordsTyped
<1> QED
  BY <1>1, <1>6, <1>8, <1>9 DEF RecordsInv, ChainLinear, LogUnaltered, DamageStays

LEMMA RequestBegins ==
  ASSUME RecordsInv, NEW r \in Requests, NEW p \in Portfolios,
         Update(r, p) \/ EngageKillSwitch(r, p) \/ ReleaseKillSwitch(r, p) \/ DenyAccess(r, p)
  PROVE  RecordsInv'
<1>1. CASE Update(r, p)
  <2>1. PICK patch \in Patches : Begins(r, "PORTFOLIO_MODIFIED", p, patch)
    BY <1>1 DEF Update
  <2>2. portfolio[p] # NoRecord
    BY <1>1 DEF Update, Exists
  <2> QED
    BY <2>1, <2>2, BeginsKeeps, PatchFacts DEF OfRow, Kinds, Ids
<1>2. ASSUME NEW kind \in {"KILL_SWITCH_ACTIVATED", "KILL_SWITCH_RELEASED"},
             NEW value \in {"HALTED", "ACTIVE"},
             Exists(p), Begins(r, kind, p, [f \in {"tradingState"} |-> value])
      PROVE  RecordsInv'
  <2>1. [f \in {"tradingState"} |-> value] \in Afters
    <3>1. {"tradingState"} \in SUBSET (Fields \cup {"externalRef"})
      BY DEF Fields
    <3>2. [f \in {"tradingState"} |-> value] \in [{"tradingState"} -> Values]
      BY DEF Values
    <3> QED
      BY <3>1, <3>2 DEF Afters
  <2> QED
    BY <1>2, <2>1, BeginsKeeps DEF OfRow, Kinds, Ids, Exists
<1>3. CASE EngageKillSwitch(r, p)
  BY <1>2, <1>3 DEF EngageKillSwitch
<1>4. CASE ReleaseKillSwitch(r, p)
  BY <1>2, <1>4 DEF ReleaseKillSwitch
<1>5. CASE DenyAccess(r, p)
  <2>1. Begins(r, "PORTFOLIO_ACCESS_DENIED", p, NoRecord) /\ portfolio[p] # NoRecord
    BY <1>5 DEF DenyAccess, Exists
  <2> QED
    BY <2>1, BeginsKeeps, NoRecordFacts DEF Kinds, OfRow, Ids
<1> QED
  BY <1>1, <1>3, <1>4, <1>5

LEMMA PortfolioBegins ==
  ASSUME RecordsInv, NEW r \in Requests, NEW p \in Portfolios, NEW name \in PortfolioNames,
         CreatePortfolio(r, p, name)
  PROVE  RecordsInv'
<1>1. Begins(r, "PORTFOLIO_CREATED", p, Created(name)) /\ Created(name) \in NewRows
  BY DEF CreatePortfolio, NewRows
<1> QED
  BY <1>1, BeginsKeeps, CreatedFacts DEF OfRow, Kinds, Ids

LEMMA ClientBegins ==
  ASSUME RecordsInv, NEW r \in Requests, NEW D \in SUBSET {"externalRef"}, CreateClient(r, D)
  PROVE  RecordsInv'
<1>1. PICK patch \in [D -> References] : Begins(r, "CLIENT_CREATED", "client", patch)
  BY DEF CreateClient
<1>2. "client" \notin Portfolios /\ "CLIENT_CREATED" \notin OfRow
  BY RecordsAssumption DEF OfRow
<1> QED
  BY <1>1, <1>2, BeginsKeeps, ReferenceFacts DEF Kinds, Ids

(* The statements of an open transaction.                                   *)
LEMMA OpenFacts ==
  ASSUME RecordsInv, NEW r \in Requests, NEW s, Doing(r, s)
  PROVE  OpenSound(r) /\ Head(tx[r].todo) = s /\ tx[r].todo \in Todos
BY DEF RecordsInv, Sound, Doing, OpenSound, OpenTxs

LEMMA WriteRowKeeps ==
  ASSUME RecordsInv, NEW r \in Requests, WriteRow(r)
  PROVE  RecordsInv'
<1> DEFINE t == tx[r]
           n == Patched(portfolio[t.id], t.patch)
           u == [t EXCEPT !.next = n, !.todo = Tail(@)]
<1>1. /\ tx' = [tx EXCEPT ![r] = u]
      /\ rowLock' = [rowLock EXCEPT ![t.id] = {r}]
      /\ UNCHANGED <<portfolio, auditLog, chainLock, damage>> /\ Doing(r, "row")
  BY DEF WriteRow, Advance, tables
<1>2. OpenSound(r) /\ Head(t.todo) = "row" /\ t.todo \in Todos
  BY <1>1, OpenFacts
<1>3. /\ t \in OpenTxs /\ t.kind \in OfRow /\ t.id \in Portfolios
      /\ portfolio[t.id] # NoRecord \/ t.patch \in NewRows
  BY <1>2 DEF OpenSound
<1>4. n \in Rows
  BY <1>3, PatchedTyped DEF RecordsInv, RecordsTyped, OpenTxs
<1> HIDE DEF n
<1>5. /\ u \in OpenTxs /\ Head(u.todo) \in {"index", "record"} /\ u.next = n
      /\ u.id = t.id /\ u.kind = t.kind /\ u.patch = t.patch
  BY <1>2, <1>3, <1>4, TodoFacts DEF OpenTxs
<1>6. u # Ended
  BY <1>5 DEF OpenTxs, Kinds, OfRow, Ended
<1> HIDE DEF t, u
<1>7. ASSUME NEW q \in Requests PROVE tx'[q] = IF q = r THEN u ELSE tx[q]
  BY <1>1 DEF RecordsInv, RecordsTyped
<1>8. OpenSound(r)'
  BY <1>1, <1>3, <1>4, <1>5, <1>7 DEF OpenSound
<1>9. ASSUME NEW q \in Requests PROVE Sound(q)'
  BY <1>1, <1>7, <1>8 DEF RecordsInv, Sound, OpenSound, Continues, LastHash
<1>10. LocksHeld'
  <2>1. ASSUME NEW q \in Requests, NEW s, s # "row", Doing(q, s) PROVE q # r /\ Doing(q, s)'
    BY <1>2, <1>7, <2>1 DEF Doing, t
  <2>2. \E s \in {"index", "record", "insert", "commit"} : Doing(r, s)'
    BY <1>5, <1>6, <1>7 DEF Doing
  <2>3. ASSUME NEW p \in Portfolios, NEW q \in rowLock'[p]
        PROVE  q \in Requests /\ \E s \in {"index", "record", "insert", "commit"} : Doing(q, s)'
    <3>1. q = r \/ q \in rowLock[p]
      BY <1>1, <1>3 DEF RecordsInv, RecordsTyped
    <3>2. CASE q \in rowLock[p]
      BY <2>1, <3>2 DEF RecordsInv, LocksHeld
    <3> QED
      BY <2>2, <3>1, <3>2
  <2>4. ASSUME NEW q \in chainLock'
        PROVE  q \in Requests /\ (Doing(q, "insert")' \/ Doing(q, "commit")')
    BY <1>1, <2>1 DEF RecordsInv, LocksHeld
  <2> QED
    BY <2>3, <2>4 DEF LocksHeld
<1>11. RecordsTyped'
  BY <1>1 DEF RecordsInv, RecordsTyped
<1> QED
  BY <1>1, <1>9, <1>10, <1>11 DEF RecordsInv, ChainLinear, LogUnaltered, DamageStays

LEMMA RecordKeeps ==
  ASSUME RecordsInv, NEW r \in Requests, Record(r)
  PROVE  RecordsInv'
<1> DEFINE t == tx[r]
           e == Entry(t)
           u == [t EXCEPT !.entry = e, !.todo = Tail(@)]
<1>1. /\ tx' = [tx EXCEPT ![r] = u] /\ chainLock = {} /\ chainLock' = {r}
      /\ UNCHANGED <<portfolio, auditLog, rowLock, damage>> /\ Doing(r, "record")
  BY DEF Record, Advance, tables
<1>2. OpenSound(r) /\ Head(t.todo) = "record" /\ t.todo \in Todos
  BY <1>1, OpenFacts
<1>3. /\ t \in OpenTxs
      /\ t.kind \in OfRow => t.id \in Portfolios /\ t.next \in Rows
      /\ t.id \in Portfolios => portfolio[t.id] # NoRecord \/ t.patch \in NewRows
  BY <1>2 DEF OpenSound
<1>4. e \in Entries /\ Continues(e)
  BY <1>3, EntryTyped DEF RecordsInv
<1> HIDE DEF e
<1>5. /\ u \in OpenTxs /\ Head(u.todo) = "insert" /\ u.entry = e /\ u.next = t.next
      /\ u.id = t.id /\ u.kind = t.kind /\ u.patch = t.patch
  BY <1>2, <1>3, <1>4, TodoFacts DEF OpenTxs
<1>6. u # Ended
  BY <1>5 DEF OpenTxs, Kinds, OfRow, Ended
<1> HIDE DEF t, u
<1>7. ASSUME NEW q \in Requests PROVE tx'[q] = IF q = r THEN u ELSE tx[q]
  BY <1>1 DEF RecordsInv, RecordsTyped
<1>8. OpenSound(r)'
  BY <1>1, <1>3, <1>4, <1>5, <1>7 DEF OpenSound, Continues, LastHash
<1>9. ASSUME NEW q \in Requests, q # r PROVE Sound(q)'
  <2>1. tx[q] = Ended \/ Head(tx[q].todo) \notin {"insert", "commit"}
    BY <1>1, <1>9 DEF RecordsInv, Sound, OpenSound
  <2> QED
    BY <1>1, <1>7, <1>9, <2>1 DEF RecordsInv, Sound, OpenSound
<1>10. LocksHeld'
  <2>1. Doing(r, "insert")'
    BY <1>5, <1>6, <1>7 DEF Doing
  <2>2. ASSUME NEW q \in Requests, NEW s, q # r, Doing(q, s) PROVE Doing(q, s)'
    BY <1>7, <2>2 DEF Doing
  <2> QED
    BY <1>1, <2>1, <2>2 DEF RecordsInv, LocksHeld
<1>11. RecordsTyped'
  BY <1>1 DEF RecordsInv, RecordsTyped
<1>12. \A q \in Requests : Sound(q)'
  BY <1>8, <1>9 DEF Sound
<1> QED
  BY <1>1, <1>10, <1>11, <1>12 DEF RecordsInv, ChainLinear, LogUnaltered, DamageStays

(* The unique index and the foreign key are looked at, nothing is written.  *)
LEMMA QuietKeeps ==
  ASSUME RecordsInv, NEW r \in Requests, ClaimUnique(r) \/ InsertEntry(r)
  PROVE  RecordsInv'
<1> DEFINE t == tx[r]
           u == [t EXCEPT !.todo = Tail(@)]
<1>1. /\ tx' = [tx EXCEPT ![r] = u]
      /\ Doing(r, "index") \/ Doing(r, "insert")
      /\ UNCHANGED <<portfolio, auditLog, rowLock, chainLock, damage>>
  BY DEF ClaimUnique, InsertEntry, Advance, tables
<1>2. OpenSound(r) /\ Head(t.todo) \in {"index", "insert"} /\ t.todo \in Todos /\ t \in OpenTxs
  BY <1>1, OpenFacts DEF OpenSound
<1>3. /\ u \in OpenTxs
      /\ Head(t.todo) = "index" => Head(u.todo) = "record"
      /\ Head(t.todo) = "insert" => Head(u.todo) = "commit"
      /\ u.id = t.id /\ u.kind = t.kind /\ u.patch = t.patch /\ u.next = t.next /\ u.entry = t.entry
  BY <1>2, TodoFacts DEF OpenTxs
<1>4. u # Ended
  BY <1>3 DEF OpenTxs, Kinds, OfRow, Ended
<1> HIDE DEF u
<1>5. ASSUME NEW q \in Requests PROVE tx'[q] = IF q = r THEN u ELSE tx[q]
  BY <1>1 DEF RecordsInv, RecordsTyped
<1>6. OpenSound(r)'
  BY <1>1, <1>2, <1>3, <1>5 DEF OpenSound, Continues, LastHash
<1>7. ASSUME NEW q \in Requests PROVE Sound(q)'
  BY <1>1, <1>5, <1>6 DEF RecordsInv, Sound, OpenSound, Continues, LastHash
<1>8. LocksHeld'
  <2>1. ASSUME NEW q \in Requests, NEW s, q # r, Doing(q, s) PROVE Doing(q, s)'
    BY <1>5, <2>1 DEF Doing
  <2>2. /\ Doing(r, "insert") => Doing(r, "commit")'
        /\ Doing(r, "index") => Doing(r, "record")'
        /\ ~Doing(r, "record") /\ ~Doing(r, "commit")
    BY <1>2, <1>3, <1>4, <1>5 DEF Doing
  <2>3. ASSUME NEW p \in Portfolios, NEW q \in rowLock[p]
        PROVE  q \in Requests /\ \E s \in {"index", "record", "insert", "commit"} : Doing(q, s)'
    BY <2>1, <2>2 DEF RecordsInv, LocksHeld
  <2>4. ASSUME NEW q \in chainLock
        PROVE  q \in Requests /\ (Doing(q, "insert")' \/ Doing(q, "commit")')
    BY <1>1, <2>1, <2>2 DEF RecordsInv, LocksHeld
  <2> QED
    BY <1>1, <2>3, <2>4 DEF LocksHeld
<1>9. RecordsTyped'
  BY <1>1 DEF RecordsInv, RecordsTyped
<1> QED
  BY <1>1, <1>7, <1>8, <1>9 DEF RecordsInv, ChainLinear, LogUnaltered, DamageStays

(* The end of a transaction lets go of its locks and of nothing else.       *)
LEMMA FinishKeepsLocks ==
  ASSUME RecordsInv, NEW r \in Requests, Finish(r)
  PROVE  /\ LocksHeld' /\ DOMAIN tx' = Requests /\ DOMAIN rowLock' = Portfolios
         /\ tx'[r] = Ended /\ \A q \in Requests \ {r} : tx'[q] = tx[q]
         /\ chainLock' = chainLock \ {r}
<1>1. /\ DOMAIN tx' = Requests /\ tx'[r] = Ended
      /\ \A q \in Requests \ {r} : tx'[q] = tx[q]
  BY DEF Finish, RecordsInv, RecordsTyped
<1>2. /\ \A p \in Portfolios : rowLock'[p] = rowLock[p] \ {r}
      /\ DOMAIN rowLock' = Portfolios /\ chainLock' = chainLock \ {r}
  BY DEF Finish
<1>3. ASSUME NEW q \in Requests \ {r}, NEW s PROVE Doing(q, s)' = Doing(q, s)
  BY <1>1 DEF Doing
<1> QED
  BY <1>1, <1>2, <1>3 DEF LocksHeld, RecordsInv

LEMMA CommitKeeps ==
  ASSUME RecordsInv, NEW r \in Requests, Commit(r)
  PROVE  RecordsInv'
<1> DEFINE t == tx[r]
<1>1. /\ Doing(r, "commit") /\ Finish(r) /\ UNCHANGED damage
      /\ portfolio' = IF t.kind \in OfRow THEN [portfolio EXCEPT ![t.id] = t.next] ELSE portfolio
      /\ auditLog' = Append(auditLog, t.entry)
  BY DEF Commit
<1>2. /\ t \in OpenTxs /\ t.entry \in Entries /\ chainLock = {r}
      /\ t.kind \in OfRow => t.id \in Portfolios /\ t.next \in Rows
      /\ damage = Intact => Continues(t.entry)
  BY <1>1, OpenFacts DEF OpenSound
<1> HIDE DEF t
<1>3. /\ portfolio' \in [Portfolios -> Rows \cup {NoRecord}]
      /\ \A p \in Portfolios : portfolio[p] # NoRecord => portfolio'[p] # NoRecord
  BY <1>1, <1>2, NoRecordFacts DEF RecordsInv, RecordsTyped
<1>4. /\ auditLog' \in Seq(Entries) /\ DOMAIN auditLog' = DOMAIN auditLog \cup {Len(auditLog) + 1}
      /\ auditLog'[Len(auditLog) + 1] = t.entry
      /\ \A i \in DOMAIN auditLog : auditLog'[i] = auditLog[i]
  BY <1>1, <1>2 DEF RecordsInv, RecordsTyped
<1>5. RecordsTyped' /\ LocksHeld'
  BY <1>1, <1>3, <1>4, FinishKeepsLocks DEF RecordsInv, RecordsTyped
<1>6. ASSUME NEW q \in Requests PROVE Sound(q)'
  <2>1. CASE q = r
    BY <1>1, <2>1, FinishKeepsLocks DEF Sound
  <2>2. CASE q # r
    <3>1. tx[q] = Ended \/ (OpenSound(q) /\ Head(tx[q].todo) \notin {"insert", "commit"})
      BY <1>2, <2>2 DEF RecordsInv, Sound, OpenSound
    <3>2. tx'[q] = tx[q]
      BY <1>1, <2>2, FinishKeepsLocks
    <3> QED
      BY <1>3, <3>1, <3>2 DEF Sound, OpenSound
  <2> QED
    BY <2>1, <2>2
<1>7. ASSUME damage = Intact PROVE LinkHolds(auditLog', Len(auditLog) + 1)
  <2>1. Continues(t.entry) /\ Len(auditLog) \in Nat
    BY <1>2, <1>7 DEF RecordsInv, RecordsTyped
  <2>2. CASE auditLog = <<>>
    BY <1>4, <2>1, <2>2 DEF LinkHolds, Continues, LastHash, Genesis
  <2>3. CASE auditLog # <<>>
    <3>1. Len(auditLog) \in DOMAIN auditLog /\ Len(auditLog) + 1 # 1
          /\ Len(auditLog) + 1 - 1 = Len(auditLog)
      BY <2>3 DEF RecordsInv, RecordsTyped
    <3>2. auditLog'[Len(auditLog) + 1 - 1] = auditLog[Len(auditLog)]
      BY <1>4, <3>1
    <3> QED
      BY <1>4, <2>1, <2>3, <3>1, <3>2 DEF LinkHolds, Continues, LastHash
  <2> QED
    BY <2>2, <2>3
<1>8. ASSUME NEW i \in DOMAIN auditLog PROVE LinkHolds(auditLog', i) <=> LinkHolds(auditLog, i)
  BY <1>1, <1>2, ChainGrows DEF RecordsInv, RecordsTyped
<1>9. ChainLinear' /\ LogUnaltered'
  BY <1>1, <1>2, <1>4, <1>7, <1>8 DEF RecordsInv, ChainLinear, LogUnaltered, Continues
<1>10. DamageStays'
  BY <1>1, <1>4, <1>8 DEF RecordsInv, DamageStays
<1> QED
  BY <1>5, <1>6, <1>9, <1>10 DEF RecordsInv

LEMMA RollbackKeeps ==
  ASSUME RecordsInv, NEW r \in Requests, Rollback(r)
  PROVE  RecordsInv'
<1>1. Finish(r) /\ UNCHANGED <<portfolio, auditLog, damage>>
  BY DEF Rollback, tables
<1>2. RecordsTyped' /\ LocksHeld'
  BY <1>1, FinishKeepsLocks DEF RecordsInv, RecordsTyped
<1>3. ASSUME NEW q \in Requests PROVE Sound(q)'
  BY <1>1, FinishKeepsLocks DEF RecordsInv, Sound, OpenSound, Continues, LastHash
<1> QED
  BY <1>1, <1>2, <1>3 DEF RecordsInv, ChainLinear, LogUnaltered, DamageStays

LEMMA AppendFacts ==
  ASSUME NEW s \in Hashes, NEW x \in Payloads, NEW y \in Payloads
  PROVE  /\ Append(s, x) # s /\ Append(s, x) # <<>>
         /\ Append(s, x) = Append(s, y) => x = y
<1>1. /\ Len(s) \in Nat /\ Len(Append(s, x)) = Len(s) + 1
      /\ Append(s, x)[Len(s) + 1] = x /\ Append(s, y)[Len(s) + 1] = y
  BY DEF Hashes
<1>2. Len(<<>>) = 0
  OBVIOUS
<1> QED
  BY <1>1, <1>2

(* A chain in which every link holds, and what each alteration of entry i   *)
(* makes of it: the entry edited, edited with a hash of its own, removed.   *)
Chained(l) ==
  \A j \in 1 .. Len(l) : LinkHolds(l, j) /\ l[j].payload.action # "ALTERED"
Edited(e)   == [e EXCEPT !.payload.action = "ALTERED"]
Rehashed(e) == [Edited(e) EXCEPT !.hash = HashAuditPayload(Edited(e).prevHash, Edited(e).payload)]

LEMMA EditFacts ==
  ASSUME NEW e \in Entries, e.payload.action # "ALTERED"
  PROVE  /\ Edited(e) \in Entries /\ Edited(e).prevHash = e.prevHash /\ Edited(e).hash = e.hash
         /\ Edited(e).payload \in Payloads /\ Edited(e).payload # e.payload
         /\ Rehashed(e) \in Entries /\ Rehashed(e).prevHash = e.prevHash
         /\ Rehashed(e).hash = Append(e.prevHash, Edited(e).payload)
<1>1. /\ Edited(e) \in Entries /\ Edited(e).prevHash = e.prevHash /\ Edited(e).hash = e.hash
      /\ Edited(e).payload \in Payloads /\ Edited(e).payload # e.payload
  BY DEF Edited, Entries, Payloads
<1>2. Append(e.prevHash, Edited(e).payload) \in Hashes
  BY <1>1 DEF Entries, Hashes
<1>3. Rehashed(e) = [Edited(e) EXCEPT !.hash = Append(e.prevHash, Edited(e).payload)]
  BY <1>1 DEF Rehashed, HashAuditPayload
<1> QED
  BY <1>1, <1>2, <1>3 DEF Entries

LEMMA ChainedFacts ==
  ASSUME NEW l \in Seq(Entries), NEW i \in 1 .. Len(l), Chained(l)
  PROVE  /\ l[i] \in Entries /\ l[i].payload.action # "ALTERED"
         /\ l[i].prevHash \in Hashes /\ l[i].payload \in Payloads
         /\ l[i].hash = Append(l[i].prevHash, l[i].payload)
         /\ i > 1 => l[i].prevHash = l[i - 1].hash
         /\ i < Len(l) => l[i + 1].prevHash = l[i].hash
<1>1. /\ l[i] \in Entries /\ LinkHolds(l, i) /\ l[i].payload.action # "ALTERED"
  BY DEF Chained
<1>2. ASSUME i < Len(l) PROVE l[i + 1].prevHash = l[i].hash
  <2>1. i + 1 \in 1 .. Len(l) /\ i + 1 # 1 /\ i + 1 - 1 = i
    BY <1>2
  <2>2. LinkHolds(l, i + 1)
    BY <2>1 DEF Chained
  <2> QED
    BY <2>1, <2>2 DEF LinkHolds
<1> QED
  BY <1>1, <1>2 DEF LinkHolds, HashAuditPayload, Entries

LEMMA EditedBreaks ==
  ASSUME NEW l \in Seq(Entries), NEW i \in 1 .. Len(l), Chained(l)
  PROVE  LET m == [l EXCEPT ![i] = Edited(l[i])] IN
         m \in Seq(Entries) /\ i \in DOMAIN m /\ ~LinkHolds(m, i)
<1> DEFINE m == [l EXCEPT ![i] = Edited(l[i])]
<1>1. Edited(l[i]) \in Entries
  BY ChainedFacts, EditFacts
<1>2. m \in Seq(Entries) /\ Len(m) = Len(l) /\ m[i] = Edited(l[i])
  BY <1>1, ExceptSeq
<1>3. m[i].hash = Append(l[i].prevHash, l[i].payload) /\ m[i].prevHash = l[i].prevHash
      /\ m[i].payload \in Payloads /\ m[i].payload # l[i].payload
  BY <1>2, ChainedFacts, EditFacts
<1> HIDE DEF m
<1>4. ~LinkHolds(m, i)
  BY <1>3, ChainedFacts, AppendFacts DEF LinkHolds, HashAuditPayload
<1> QED
  BY <1>2, <1>4 DEF m

LEMMA RehashedBreaks ==
  ASSUME NEW l \in Seq(Entries), NEW i \in 1 .. Len(l), Chained(l)
  PROVE  LET m == [l EXCEPT ![i] = Rehashed(l[i])] IN
         m \in Seq(Entries) /\ (i < Len(l) => i + 1 \in DOMAIN m /\ ~LinkHolds(m, i + 1))
<1> DEFINE m == [l EXCEPT ![i] = Rehashed(l[i])]
<1>1. Rehashed(l[i]) \in Entries
  BY ChainedFacts, EditFacts
<1>2. /\ m \in Seq(Entries) /\ Len(m) = Len(l) /\ m[i] = Rehashed(l[i])
      /\ i < Len(l) => m[i + 1] = l[i + 1]
  BY <1>1, ExceptSeq
<1> HIDE DEF m
<1>3. ASSUME i < Len(l) PROVE i + 1 \in DOMAIN m /\ ~LinkHolds(m, i + 1)
  <2>1. i + 1 \in DOMAIN m /\ i + 1 # 1 /\ i + 1 - 1 = i
    BY <1>2, <1>3
  <2>2. m[i].hash # l[i].hash
    BY <1>2, ChainedFacts, EditFacts, AppendFacts
  <2>3. m[i + 1].prevHash = l[i].hash
    BY <1>2, <1>3, ChainedFacts
  <2> QED
    BY <2>1, <2>2, <2>3 DEF LinkHolds
<1> QED
  BY <1>2, <1>3 DEF m

LEMMA RemovedBreaks ==
  ASSUME NEW l \in Seq(Entries), NEW i \in 1 .. Len(l), Chained(l)
  PROVE  LET m == SubSeq(l, 1, i - 1) \o SubSeq(l, i + 1, Len(l)) IN
         m \in Seq(Entries) /\ (i < Len(l) => i \in DOMAIN m /\ ~LinkHolds(m, i))
<1> DEFINE a == SubSeq(l, 1, i - 1)
           b == SubSeq(l, i + 1, Len(l))
           m == a \o b
<1>1. Len(l) \in Nat /\ \A j \in 1 .. Len(l) : l[j] \in Entries
  OBVIOUS
<1>2. /\ a \in Seq(Entries) /\ Len(a) = i - 1
      /\ \A j \in 1 .. i - 1 : a[j] = l[j]
  <2>1. \A j \in 1 .. i - 1 : l[j] \in Entries
    BY <1>1
  <2>2. /\ a \in Seq(Entries) /\ Len(a) = IF 1 <= i - 1 THEN i - 1 - 1 + 1 ELSE 0
        /\ \A j \in 1 .. i - 1 - 1 + 1 : a[j] = l[1 + j - 1]
    BY <2>1, SubSeqProperties
  <2> QED
    BY <1>1, <2>2
<1>3. /\ b \in Seq(Entries) /\ Len(b) = Len(l) - i
      /\ i < Len(l) => b[1] = l[i + 1]
  <2>1. \A j \in i + 1 .. Len(l) : l[j] \in Entries
    BY <1>1
  <2> QED
    BY <1>1, <2>1, SubSeqProperties
<1> HIDE DEF a, b
<1>4. /\ m \in Seq(Entries) /\ Len(m) = Len(l) - 1
      /\ \A j \in 1 .. Len(l) - 1 : m[j] = IF j <= i - 1 THEN a[j] ELSE b[j - (i - 1)]
  <2>1. /\ m \in Seq(Entries) /\ Len(m) = Len(a) + Len(b)
        /\ \A j \in 1 .. Len(a) + Len(b) : m[j] = IF j <= Len(a) THEN a[j] ELSE b[j - Len(a)]
    BY <1>2, <1>3, ConcatProperties
  <2> HIDE DEF m
  <2>2. Len(a) + Len(b) = Len(l) - 1
    BY <1>1, <1>2, <1>3
  <2> QED
    BY <1>2, <2>1, <2>2
<1> HIDE DEF m
<1>5. ASSUME i < Len(l) PROVE i \in DOMAIN m /\ ~LinkHolds(m, i)
  <2>1. i \in DOMAIN m /\ m[i] = b[i - (i - 1)] /\ i - (i - 1) = 1
    BY <1>1, <1>4, <1>5
  <2>2. m[i].prevHash = Append(l[i].prevHash, l[i].payload)
    BY <1>3, <1>5, <2>1, ChainedFacts
  <2>3. m[i].prevHash # <<>> /\ m[i].prevHash # l[i].prevHash
    <3>1. l[i].prevHash \in Hashes /\ l[i].payload \in Payloads
      BY ChainedFacts
    <3> QED
      BY <2>2, <3>1, AppendFacts
  <2>4. i > 1 => m[i - 1] = l[i - 1]
    BY <1>1, <1>2, <1>4
  <2>5. i > 1 => m[i - 1].hash = l[i].prevHash
    BY <2>4, ChainedFacts
  <2> QED
    <3>1. CASE i = 1
      BY <2>1, <2>3, <3>1 DEF LinkHolds, Genesis
    <3>2. CASE i > 1
      BY <2>1, <2>3, <2>5, <3>2 DEF LinkHolds
    <3> QED
      BY <3>1, <3>2
<1> QED
  BY <1>4, <1>5 DEF m, a, b

LEMMA AlterKeeps ==
  ASSUME RecordsInv, NEW how \in {"edited", "rehashed", "removed"},
         NEW i \in DOMAIN auditLog, Alter(how, i)
  PROVE  RecordsInv'
<1>1. /\ damage = Intact /\ damage' \in [how : {how}, at : {damage'.at}]
      /\ damage'.at = (IF how = "edited" THEN i ELSE IF i = Len(auditLog) THEN 0
                       ELSE IF how = "rehashed" THEN i + 1 ELSE i)
      /\ UNCHANGED <<portfolio, tx, rowLock, chainLock>>
  BY DEF Alter
<1>2. /\ auditLog \in Seq(Entries) /\ i \in 1 .. Len(auditLog) /\ Chained(auditLog)
  BY <1>1 DEF RecordsInv, RecordsTyped, ChainLinear, LogUnaltered, Chained
<1>3. /\ how = "edited" => auditLog' = [auditLog EXCEPT ![i] = Edited(auditLog[i])]
      /\ how = "rehashed" => auditLog' = [auditLog EXCEPT ![i] = Rehashed(auditLog[i])]
      /\ how = "removed" =>
           auditLog' = SubSeq(auditLog, 1, i - 1) \o SubSeq(auditLog, i + 1, Len(auditLog))
  BY DEF Alter, Edited, Rehashed
<1>4. /\ auditLog' \in Seq(Entries)
      /\ damage'.at = 0 \/ (damage'.at \in DOMAIN auditLog' /\ ~LinkHolds(auditLog', damage'.at))
  <2>1. CASE how = "edited"
    BY <1>1, <1>2, <1>3, <2>1, EditedBreaks
  <2>2. CASE how = "rehashed"
    BY <1>1, <1>2, <1>3, <2>2, RehashedBreaks
  <2>3. CASE how = "removed"
    <3> DEFINE m == SubSeq(auditLog, 1, i - 1) \o SubSeq(auditLog, i + 1, Len(auditLog))
    <3>1. /\ m \in Seq(Entries)
          /\ i < Len(auditLog) => i \in DOMAIN m /\ ~LinkHolds(m, i)
      BY <1>2, RemovedBreaks
    <3>2. auditLog' = m
      BY <1>3, <2>3
    <3> HIDE DEF m
    <3>3. damage'.at = IF i = Len(auditLog) THEN 0 ELSE i
      BY <1>1, <2>3
    <3> QED
      BY <1>2, <3>1, <3>2, <3>3
  <2> QED
    BY <2>1, <2>2, <2>3
<1>5. damage' \in [how : {"edited", "rehashed", "removed"}, at : Nat] /\ damage' # Intact
  BY <1>1, <1>2 DEF Intact
<1>6. RecordsTyped' /\ LocksHeld'
  BY <1>1, <1>4, <1>5 DEF RecordsInv, RecordsTyped, LocksHeld, Doing
<1>7. \A q \in Requests : Sound(q)'
  BY <1>1, <1>5 DEF RecordsInv, Sound, OpenSound
<1> QED
  BY <1>4, <1>5, <1>6, <1>7 DEF RecordsInv, ChainLinear, LogUnaltered, DamageStays

LEMMA RecordsStepKeeps == RecordsInv /\ [RecordsNext]_recordsVars => RecordsInv'
<1> SUFFICES ASSUME RecordsInv, [RecordsNext]_recordsVars PROVE RecordsInv'
  OBVIOUS
<1>1. ASSUME NEW r \in Requests, NEW p \in Portfolios,
             Update(r, p) \/ EngageKillSwitch(r, p) \/ ReleaseKillSwitch(r, p) \/ DenyAccess(r, p)
      PROVE  RecordsInv'
  BY <1>1, RequestBegins
<1>2. ASSUME NEW r \in Requests,
             \/ \E p \in Portfolios, name \in PortfolioNames : CreatePortfolio(r, p, name)
             \/ \E D \in SUBSET {"externalRef"} : CreateClient(r, D)
      PROVE  RecordsInv'
  BY <1>2, PortfolioBegins, ClientBegins
<1>3. ASSUME NEW r \in Requests,
             \/ WriteRow(r) \/ ClaimUnique(r) \/ Record(r) \/ InsertEntry(r)
             \/ Commit(r) \/ Rollback(r)
      PROVE  RecordsInv'
  BY <1>3, WriteRowKeeps, RecordKeeps, QuietKeeps, CommitKeeps, RollbackKeeps
<1>4. CASE \E how \in {"edited", "rehashed", "removed"}, i \in DOMAIN auditLog : Alter(how, i)
  BY <1>4, AlterKeeps
<1>5. CASE UNCHANGED recordsVars
  BY <1>5 DEF recordsVars, tables, RecordsInv, RecordsTyped, LocksHeld, Doing, Sound, OpenSound,
              Continues, LastHash, ChainLinear, LogUnaltered, DamageStays
<1> QED
  BY <1>1, <1>2, <1>3, <1>4, <1>5 DEF RecordsNext

LEMMA RecordsInvariance == RecordsSpec => []RecordsInv
<1> QED
  BY RecordsInitEstablishes, RecordsStepKeeps, PTL DEF RecordsSpec

(* However many transactions append within other work, overlap, roll back   *)
(* or commit in another order than they began, they form one chain.         *)
THEOREM AppendsFormOneChain == RecordsSpec => []ChainLinear
<1>1. RecordsInv => ChainLinear
  BY DEF RecordsInv
<1> QED
  BY <1>1, RecordsInvariance, PTL

(* verifyChain() accepts every log as written and never one with a broken   *)
(* link within its horizon, however many entries were appended since.       *)
THEOREM VerificationDecides == RecordsSpec => []TamperEvident
<1>1. RecordsInv => TamperEvident
  <2> SUFFICES ASSUME RecordsInv PROVE TamperEvident
    OBVIOUS
  <2>1. ASSUME damage = Intact PROVE VerifyChain(auditLog)
    BY <2>1 DEF RecordsInv, RecordsTyped, ChainLinear, VerifyChain
  <2>2. ASSUME damage.at \in 1 .. Horizon PROVE ~VerifyChain(auditLog)
    <3>1. damage # Intact /\ damage.at # 0 /\ damage.at <= Horizon
      BY <2>2, RecordsAssumption DEF Intact
    <3>2. damage.at \in 1 .. Len(auditLog) /\ ~LinkHolds(auditLog, damage.at)
      BY <3>1 DEF RecordsInv, RecordsTyped, DamageStays
    <3> QED
      BY <3>1, <3>2 DEF VerifyChain
  <2> QED
    BY <2>1, <2>2 DEF TamperEvident
<1> QED
  BY <1>1, RecordsInvariance, PTL

(* However many transactions wait for one another, a circle of them always  *)
(* includes one that holds the row it has renamed. Without one nobody in    *)
(* the circle commits or inserts its entry, so nobody in it waits for the   *)
(* chain, then for an index, then for a row.                                *)
THEOREM OnlyRenamesDeadlock == RecordsSpec => []DeadlockNeedsRename
<1>1. RecordsInv => DeadlockNeedsRename
  <2> SUFFICES ASSUME RecordsInv, NEW S \in SUBSET Open,
                      \A r \in S : Blockers(r) \cap S # {},
                      \A r \in S : ~(Held(r) /\ Renames(tx[r]))
               PROVE  S = {}
    BY DEF DeadlockNeedsRename
  <2>1. ASSUME NEW r \in S
        PROVE  /\ r \in Requests
               /\ \E s \in {"row", "index", "record", "insert", "commit"} : Doing(r, s)
    <3>1. r \in Requests /\ tx[r] # Ended /\ tx[r].todo \in Todos
      BY DEF Open, RecordsInv, Sound, OpenSound, OpenTxs
    <3> QED
      BY <3>1, TodoFacts DEF Doing
  <2>2. ASSUME NEW r \in S PROVE ~Doing(r, "commit")
    BY DEF Blockers, Doing
  <2>3. ASSUME NEW r \in S PROVE ~Doing(r, "insert")
    <3> SUFFICES ASSUME Doing(r, "insert") PROVE FALSE
      OBVIOUS
    <3>1. Blockers(r) = KeyBlockers(r)
      BY DEF Blockers, Doing
    <3> QED
      BY <3>1 DEF KeyBlockers
  <2>4. ASSUME NEW r \in S PROVE ~Doing(r, "record")
    <3> SUFFICES ASSUME Doing(r, "record") PROVE FALSE
      OBVIOUS
    <3>1. Blockers(r) = chainLock
      BY DEF Blockers, Doing
    <3> QED
      BY <2>2, <2>3, <3>1 DEF RecordsInv, LocksHeld
  <2>5. ASSUME NEW r \in S PROVE ~Doing(r, "index")
    <3> SUFFICES ASSUME Doing(r, "index") PROVE FALSE
      OBVIOUS
    <3>1. Blockers(r) = IndexBlockers(r)
      BY DEF Blockers, Doing
    <3> QED
      BY <2>2, <2>3, <2>4, <3>1 DEF IndexBlockers, Indexed
  <2>6. ASSUME NEW r \in S PROVE ~Doing(r, "row")
    <3> SUFFICES ASSUME Doing(r, "row") PROVE FALSE
      OBVIOUS
    <3>1. Blockers(r) = RowBlockers(r)
      BY DEF Blockers, Doing
    <3>2. PICK q \in S : q \in rowLock[tx[r].id] \/ q \in Sharing(tx[r].id)
      BY <3>1 DEF RowBlockers
    <3>3. tx[r].id \in Portfolios
      BY <2>1, OpenFacts DEF OpenSound
    <3> QED
      BY <2>2, <2>3, <2>4, <2>5, <3>2, <3>3 DEF RecordsInv, LocksHeld, Sharing
  <2> QED
    BY <2>1, <2>2, <2>3, <2>4, <2>5, <2>6
<1> QED
  BY <1>1, RecordsInvariance, PTL
-----------------------------------------------------------------------------
(* The order of the entries and the order of the writes. A transaction of a *)
(* portfolio keeps the row it has written until it ends, so what it tells   *)
(* is what its row will be when the entry shows.                            *)

(* The fields that each kind of transaction writes.                         *)
Writes(t) ==
  /\ t.kind = "PORTFOLIO_MODIFIED" => DOMAIN t.patch \subseteq Settings
  /\ t.kind \in {"KILL_SWITCH_ACTIVATED", "KILL_SWITCH_RELEASED"}
       => DOMAIN t.patch = {"tradingState"}
  /\ t.kind = "PORTFOLIO_CREATED" => t.patch \in NewRows
  /\ t.kind \in Kinds \ OfRow => DOMAIN t.patch \cap Fields = {}

(* Nobody else knows the id of a portfolio that is being created.           *)
AloneIfCreating(r) ==
  tx[r].kind = "PORTFOLIO_CREATED"
    => /\ portfolio[tx[r].id] = NoRecord
       /\ \A q \in Requests \ {r} : tx[q] = Ended \/ tx[q].id # tx[r].id

HoldsItsRow(r) ==
  LET t == tx[r] IN
  t.kind \in OfRow =>
    \/ Doing(r, "row")
    \/ rowLock[t.id] = {r} /\ t.next = Patched(portfolio[t.id], t.patch)

TellsItsRow(r) ==
  LET t == tx[r] IN
  Doing(r, "insert") \/ Doing(r, "commit") =>
    t.entry.payload.entityId = t.id /\ t.entry.payload.after = AfterValue(t)

EntriesHaveRows ==
  \A p \in Portfolios, i \in DOMAIN auditLog :
    damage = Intact /\ auditLog[i].payload.entityId = p => portfolio[p] # NoRecord

AuditInv ==
  /\ \A r \in Requests : /\ Writes(tx[r]) /\ AloneIfCreating(r)
                         /\ HoldsItsRow(r) /\ TellsItsRow(r)
  /\ EntriesHaveRows
  /\ LastAuditIsCurrent

LEMMA EndedFacts ==
  /\ Ended.kind = "none" /\ Ended.kind \notin Kinds /\ OfRow \subseteq Kinds
  /\ \A r \in Requests : tx[r] = Ended => \A s : ~Doing(r, s)
BY DEF Ended, Kinds, OfRow, Doing

(* What an entry tells of its row is what the row was set to, and what it   *)
(* does not tell is as it was, but for a row that is new.                   *)
LEMMA EntryTellsChange ==
  ASSUME NEW t \in OpenTxs, t.kind \in OfRow, Writes(t), NEW f \in Fields,
         t.next = Patched(portfolio[t.id], t.patch)
  PROVE  IF f \in DOMAIN AfterValue(t)
         THEN AfterValue(t)[f] = t.next[f]
         ELSE t.kind = "PORTFOLIO_CREATED" \/ t.next[f] = portfolio[t.id][f]
<1>1. t.next[f] = IF f \in DOMAIN t.patch THEN t.patch[f] ELSE portfolio[t.id][f]
  BY DEF Patched
<1>2. CASE t.kind = "PORTFOLIO_MODIFIED"
  <2>1. AfterValue(t) = [g \in Settings |-> t.next[g]]
    BY <1>2 DEF AfterValue
  <2> QED
    BY <1>1, <1>2, <2>1 DEF Writes
<1>3. CASE t.kind = "PORTFOLIO_CREATED"
  <2>1. AfterValue(t) = [g \in {"name", "executionMode"} |-> t.next[g]]
    BY <1>3 DEF AfterValue
  <2> QED
    BY <1>3, <2>1
<1>4. CASE t.kind \in {"KILL_SWITCH_ACTIVATED", "KILL_SWITCH_RELEASED"}
  <2>1. AfterValue(t) = t.patch
    BY <1>4 DEF AfterValue
  <2> QED
    BY <1>1, <1>4, <2>1 DEF Writes
<1> QED
  BY <1>2, <1>3, <1>4 DEF OfRow

LEMMA AuditInitEstablishes == RecordsInit => AuditInv
<1> SUFFICES ASSUME RecordsInit PROVE AuditInv
  OBVIOUS
<1>1. \A r \in Requests : tx[r] = Ended
  BY DEF RecordsInit
<1>2. auditLog = <<>> /\ DOMAIN auditLog = {}
  BY DEF RecordsInit
<1> QED
  BY <1>1, <1>2, EndedFacts
     DEF AuditInv, Writes, AloneIfCreating, HoldsItsRow, TellsItsRow, EntriesHaveRows,
         LastAuditIsCurrent, Kinds, OfRow

(* The log and the rows as they were: nothing to show of them.              *)
LEMMA LogStays ==
  ASSUME AuditInv, UNCHANGED <<portfolio, auditLog, damage>>
  PROVE  EntriesHaveRows' /\ LastAuditIsCurrent'
BY DEF AuditInv, EntriesHaveRows, LastAuditIsCurrent

LEMMA AuditBegins ==
  ASSUME RecordsInv, AuditInv, NEW r \in Requests, NEW kind \in Kinds, NEW id \in Ids, NEW patch,
         Begins(r, kind, id, patch), Writes([kind |-> kind, patch |-> patch]),
         kind = "PORTFOLIO_CREATED" => Unused(id),
         id \in Portfolios => Exists(id) \/ Unused(id)
  PROVE  AuditInv'
<1> DEFINE t == [Ended EXCEPT !.kind = kind, !.todo = Statements(kind, patch), !.id = id,
                              !.patch = patch]
<1>1. /\ tx' = [tx EXCEPT ![r] = t] /\ tx[r] = Ended
      /\ UNCHANGED <<portfolio, auditLog, rowLock, chainLock, damage>>
  BY DEF Begins, tables
<1>2. t.kind = kind /\ t.todo = Statements(kind, patch) /\ t.id = id /\ t.patch = patch
  BY DEF Ended
<1> HIDE DEF t
<1>3. ASSUME NEW q \in Requests PROVE tx'[q] = IF q = r THEN t ELSE tx[q]
  BY <1>1 DEF RecordsInv, RecordsTyped
<1>4. t # Ended
  BY <1>2, EndedFacts
<1>5. /\ kind \in OfRow => Doing(r, "row")'
      /\ ~Doing(r, "insert")' /\ ~Doing(r, "commit")'
  BY <1>2, <1>3, <1>4, StatementsFacts DEF Doing
<1>6. Writes(tx[r])' /\ HoldsItsRow(r)' /\ TellsItsRow(r)'
  BY <1>2, <1>3, <1>5 DEF Writes, HoldsItsRow, TellsItsRow
<1>7. AloneIfCreating(r)'
  BY <1>1, <1>2, <1>3 DEF AloneIfCreating, Unused, Exists
<1>8. ASSUME NEW q \in Requests, q # r
      PROVE  /\ Writes(tx[q])' /\ HoldsItsRow(q)' /\ TellsItsRow(q)'
             /\ AloneIfCreating(q)'
  <2>1. tx'[q] = tx[q] /\ Writes(tx[q]) /\ HoldsItsRow(q) /\ TellsItsRow(q) /\ AloneIfCreating(q)
    BY <1>3, <1>8 DEF AuditInv
  <2>2. Writes(tx[q])'
    BY <2>1 DEF Writes
  <2>3. HoldsItsRow(q)' /\ TellsItsRow(q)'
    BY <1>1, <2>1 DEF HoldsItsRow, TellsItsRow, Doing, AfterValue
  <2>4. AloneIfCreating(q)'
    <3> SUFFICES ASSUME tx[q].kind = "PORTFOLIO_CREATED" PROVE id # tx[q].id
      BY <1>1, <1>2, <1>3, <1>8, <2>1 DEF AloneIfCreating
    <3>1. tx[q] # Ended
      BY EndedFacts DEF Kinds, OfRow
    <3>2. tx[q].id \in Portfolios
      BY <3>1 DEF RecordsInv, Sound, OpenSound, OfRow
    <3> QED
      BY <2>1, <3>2 DEF AloneIfCreating, Exists, Unused
  <2> QED
    BY <2>2, <2>3, <2>4
<1>9. EntriesHaveRows' /\ LastAuditIsCurrent'
  BY <1>1, LogStays
<1>10. ASSUME NEW q \in Requests
       PROVE  (Writes(tx[q]) /\ AloneIfCreating(q) /\ HoldsItsRow(q) /\ TellsItsRow(q))'
  BY <1>6, <1>7, <1>8
<1> QED
  BY <1>9, <1>10 DEF AuditInv

LEMMA AuditRequests ==
  ASSUME RecordsInv, AuditInv, NEW r \in Requests, NEW p \in Portfolios,
         Update(r, p) \/ EngageKillSwitch(r, p) \/ ReleaseKillSwitch(r, p) \/ DenyAccess(r, p)
  PROVE  AuditInv'
<1>1. CASE Update(r, p)
  <2>1. PICK patch \in Patches : Begins(r, "PORTFOLIO_MODIFIED", p, patch)
    BY <1>1 DEF Update
  <2>2. Exists(p)
    BY <1>1 DEF Update
  <2>3. DOMAIN patch \subseteq Settings
    BY RecordsAssumption
  <2>4. Writes([kind |-> "PORTFOLIO_MODIFIED", patch |-> patch])
    BY <2>3 DEF Writes, OfRow
  <2> QED
    BY <2>1, <2>2, <2>4, AuditBegins DEF OfRow, Kinds, Ids
<1>2. ASSUME NEW kind \in {"KILL_SWITCH_ACTIVATED", "KILL_SWITCH_RELEASED"}, NEW value,
             Exists(p), Begins(r, kind, p, [f \in {"tradingState"} |-> value])
      PROVE  AuditInv'
  <2>1. Writes([kind |-> kind, patch |-> [f \in {"tradingState"} |-> value]])
    BY DEF Writes, OfRow
  <2> QED
    BY <1>2, <2>1, AuditBegins DEF OfRow, Kinds, Ids
<1>3. CASE EngageKillSwitch(r, p)
  BY <1>2, <1>3 DEF EngageKillSwitch
<1>4. CASE ReleaseKillSwitch(r, p)
  BY <1>2, <1>4 DEF ReleaseKillSwitch
<1>5. CASE DenyAccess(r, p)
  <2>1. Begins(r, "PORTFOLIO_ACCESS_DENIED", p, NoRecord) /\ Exists(p)
    BY <1>5 DEF DenyAccess
  <2>2. Writes([kind |-> "PORTFOLIO_ACCESS_DENIED", patch |-> NoRecord])
    BY NoRecordFacts DEF Writes
  <2> QED
    BY <2>1, <2>2, AuditBegins DEF OfRow, Kinds, Ids
<1> QED
  BY <1>1, <1>3, <1>4, <1>5

LEMMA AuditPortfolio ==
  ASSUME RecordsInv, AuditInv, NEW r \in Requests, NEW p \in Portfolios,
         NEW name \in PortfolioNames, CreatePortfolio(r, p, name)
  PROVE  AuditInv'
<1>1. Begins(r, "PORTFOLIO_CREATED", p, Created(name)) /\ Unused(p)
  BY DEF CreatePortfolio
<1>2. Writes([kind |-> "PORTFOLIO_CREATED", patch |-> Created(name)])
  BY DEF Writes, NewRows, OfRow
<1> QED
  BY <1>1, <1>2, AuditBegins DEF OfRow, Kinds, Ids

LEMMA AuditClient ==
  ASSUME RecordsInv, AuditInv, NEW r \in Requests, NEW D \in SUBSET {"externalRef"},
         CreateClient(r, D)
  PROVE  AuditInv'
<1>1. PICK patch \in [D -> References] : Begins(r, "CLIENT_CREATED", "client", patch)
  BY DEF CreateClient
<1>2. "client" \notin Portfolios /\ "CLIENT_CREATED" \in Kinds
  BY RecordsAssumption DEF Kinds
<1>3. Writes([kind |-> "CLIENT_CREATED", patch |-> patch])
  BY ReferenceFacts DEF Writes
<1> QED
  BY <1>1, <1>2, <1>3, AuditBegins DEF Ids

LEMMA AuditWriteRow ==
  ASSUME RecordsInv, AuditInv, NEW r \in Requests, WriteRow(r)
  PROVE  AuditInv'
<1> DEFINE t == tx[r]
           n == Patched(portfolio[t.id], t.patch)
           u == [t EXCEPT !.next = n, !.todo = Tail(@)]
<1>1. /\ tx' = [tx EXCEPT ![r] = u] /\ rowLock[t.id] = {}
      /\ rowLock' = [rowLock EXCEPT ![t.id] = {r}]
      /\ UNCHANGED <<portfolio, auditLog, chainLock, damage>> /\ Doing(r, "row")
  BY DEF WriteRow, RowBlockers, Advance, tables
<1>2. OpenSound(r) /\ t.todo \in Todos /\ Head(t.todo) = "row"
  BY <1>1, OpenFacts
<1>3. t \in OpenTxs /\ t.id \in Portfolios /\ t.kind \in OfRow
  BY <1>2 DEF OpenSound
<1>4. /\ Head(u.todo) \in {"index", "record"} /\ u.next = n
      /\ u.id = t.id /\ u.kind = t.kind /\ u.patch = t.patch
  BY <1>2, <1>3, TodoFacts DEF OpenTxs
<1> HIDE DEF u
<1>5. ASSUME NEW q \in Requests PROVE tx'[q] = IF q = r THEN u ELSE tx[q]
  BY <1>1 DEF RecordsInv, RecordsTyped
<1>6. \A p \in Portfolios : rowLock'[p] = IF p = t.id THEN {r} ELSE rowLock[p]
  BY <1>1 DEF RecordsInv, RecordsTyped
<1>7. ~Doing(r, "insert")' /\ ~Doing(r, "commit")'
  BY <1>4, <1>5 DEF Doing
<1>8. Writes(tx[r])' /\ TellsItsRow(r)'
  BY <1>4, <1>5, <1>7 DEF AuditInv, Writes, TellsItsRow
<1>9. HoldsItsRow(r)'
  BY <1>1, <1>3, <1>4, <1>5, <1>6 DEF HoldsItsRow
<1>10. AloneIfCreating(r)'
  BY <1>1, <1>4, <1>5 DEF AuditInv, AloneIfCreating
<1>11. ASSUME NEW q \in Requests, q # r
       PROVE  (Writes(tx[q]) /\ AloneIfCreating(q) /\ HoldsItsRow(q) /\ TellsItsRow(q))'
  <2>1. tx'[q] = tx[q] /\ Writes(tx[q]) /\ HoldsItsRow(q) /\ TellsItsRow(q) /\ AloneIfCreating(q)
    BY <1>5, <1>11 DEF AuditInv
  <2>2. Writes(tx[q])' /\ TellsItsRow(q)'
    BY <2>1 DEF Writes, TellsItsRow, Doing, AfterValue
  <2>3. AloneIfCreating(q)'
    <3>1. t # Ended
      BY <1>3, EndedFacts
    <3> QED
      BY <1>1, <1>4, <1>5, <2>1, <3>1 DEF AloneIfCreating
  <2>4. HoldsItsRow(q)'
    <3> SUFFICES ASSUME tx[q].kind \in OfRow, ~Doing(q, "row")
                 PROVE  rowLock'[tx[q].id] = rowLock[tx[q].id]
      BY <1>1, <2>1 DEF HoldsItsRow, Doing
    <3>1. tx[q].id \in Portfolios
      BY EndedFacts DEF RecordsInv, Sound, OpenSound
    <3>2. rowLock[tx[q].id] = {q}
      BY <2>1 DEF HoldsItsRow
    <3> QED
      BY <1>1, <1>6, <3>1, <3>2
  <2> QED
    BY <2>1, <2>2, <2>3, <2>4
<1>12. EntriesHaveRows' /\ LastAuditIsCurrent'
  BY <1>1, LogStays
<1>13. ASSUME NEW q \in Requests
       PROVE  (Writes(tx[q]) /\ AloneIfCreating(q) /\ HoldsItsRow(q) /\ TellsItsRow(q))'
  BY <1>8, <1>9, <1>10, <1>11
<1> QED
  BY <1>12, <1>13 DEF AuditInv

(* A statement that writes no row and takes none, of a transaction whose    *)
(* entry, if it has one by then, tells its row.                             *)
LEMMA AuditAdvances ==
  ASSUME RecordsInv, AuditInv, NEW r \in Requests, NEW u,
         tx' = [tx EXCEPT ![r] = u], UNCHANGED <<portfolio, auditLog, rowLock, damage>>,
         tx[r] # Ended, ~Doing(r, "row"),
         u.next = tx[r].next, u.id = tx[r].id, u.kind = tx[r].kind, u.patch = tx[r].patch,
         Head(u.todo) \in {"insert", "commit"} =>
           u.entry.payload.entityId = u.id /\ u.entry.payload.after = AfterValue(u)
  PROVE  AuditInv'
<1>1. ASSUME NEW q \in Requests PROVE tx'[q] = IF q = r THEN u ELSE tx[q]
  BY DEF RecordsInv, RecordsTyped
<1>2. (Writes(tx[r]) /\ AloneIfCreating(r) /\ HoldsItsRow(r) /\ TellsItsRow(r))'
  <2>1. Writes(tx[r]) /\ HoldsItsRow(r) /\ AloneIfCreating(r)
    BY DEF AuditInv
  <2>2. Writes(tx[r])' /\ AloneIfCreating(r)'
    BY <1>1, <2>1 DEF Writes, AloneIfCreating
  <2>3. HoldsItsRow(r)'
    BY <1>1, <2>1 DEF HoldsItsRow
  <2>4. TellsItsRow(r)'
    BY <1>1 DEF TellsItsRow, Doing, AfterValue
  <2> QED
    BY <2>2, <2>3, <2>4
<1>3. ASSUME NEW q \in Requests, q # r
      PROVE  (Writes(tx[q]) /\ AloneIfCreating(q) /\ HoldsItsRow(q) /\ TellsItsRow(q))'
  <2>1. tx'[q] = tx[q] /\ Writes(tx[q]) /\ HoldsItsRow(q) /\ TellsItsRow(q) /\ AloneIfCreating(q)
    BY <1>1, <1>3 DEF AuditInv
  <2>2. Writes(tx[q])' /\ TellsItsRow(q)' /\ HoldsItsRow(q)'
    BY <2>1 DEF Writes, TellsItsRow, HoldsItsRow, Doing, AfterValue
  <2>3. AloneIfCreating(q)'
    BY <1>1, <2>1 DEF AloneIfCreating
  <2> QED
    BY <2>2, <2>3
<1>4. EntriesHaveRows' /\ LastAuditIsCurrent'
  BY LogStays
<1>5. ASSUME NEW q \in Requests
      PROVE  (Writes(tx[q]) /\ AloneIfCreating(q) /\ HoldsItsRow(q) /\ TellsItsRow(q))'
  BY <1>2, <1>3
<1> QED
  BY <1>4, <1>5 DEF AuditInv

LEMMA AuditRecord ==
  ASSUME RecordsInv, AuditInv, NEW r \in Requests, Record(r)
  PROVE  AuditInv'
<1> DEFINE t == tx[r]
           e == Entry(t)
           u == [t EXCEPT !.entry = e, !.todo = Tail(@)]
<1>1. /\ tx' = [tx EXCEPT ![r] = u]
      /\ UNCHANGED <<portfolio, auditLog, rowLock, damage>> /\ Doing(r, "record")
  BY DEF Record, Advance, tables
<1>2. t # Ended /\ ~Doing(r, "row") /\ t \in OpenTxs
  BY <1>1, OpenFacts DEF OpenSound, Doing
<1>3. e.payload.entityId = t.id /\ e.payload.after = AfterValue(t)
  BY DEF Entry
<1> HIDE DEF e
<1>4. /\ u.entry = e /\ u.next = t.next
      /\ u.id = t.id /\ u.kind = t.kind /\ u.patch = t.patch
  BY <1>2 DEF OpenTxs
<1> HIDE DEF u
<1>5. AfterValue(u) = AfterValue(t)
  BY <1>4 DEF AfterValue
<1> QED
  BY <1>1, <1>2, <1>3, <1>4, <1>5, AuditAdvances

LEMMA AuditQuiet ==
  ASSUME RecordsInv, AuditInv, NEW r \in Requests, ClaimUnique(r) \/ InsertEntry(r)
  PROVE  AuditInv'
<1> DEFINE t == tx[r]
           u == [t EXCEPT !.todo = Tail(@)]
<1>1. /\ tx' = [tx EXCEPT ![r] = u]
      /\ Doing(r, "index") \/ Doing(r, "insert")
      /\ UNCHANGED <<portfolio, auditLog, rowLock, damage>>
  BY DEF ClaimUnique, InsertEntry, Advance, tables
<1>2. t # Ended /\ ~Doing(r, "row") /\ t \in OpenTxs /\ t.todo \in Todos
  BY <1>1, OpenFacts DEF OpenSound, Doing
<1>3. /\ u.entry = t.entry /\ u.next = t.next
      /\ u.id = t.id /\ u.kind = t.kind /\ u.patch = t.patch
      /\ Doing(r, "index") => Head(u.todo) = "record"
  BY <1>2, TodoFacts DEF OpenTxs, Doing
<1> HIDE DEF u
<1>4. AfterValue(u) = AfterValue(t)
  BY <1>3 DEF AfterValue
<1>5. Doing(r, "insert") => t.entry.payload.entityId = t.id /\ t.entry.payload.after = AfterValue(t)
  BY DEF AuditInv, TellsItsRow
<1> QED
  BY <1>1, <1>2, <1>3, <1>4, <1>5, AuditAdvances

(* What a transaction that ends, either way, leaves to the others.          *)
LEMMA AuditEnds ==
  ASSUME RecordsInv, AuditInv, NEW r \in Requests, tx[r] # Ended, Finish(r),
         \A p \in Portfolios : \/ portfolio'[p] = portfolio[p]
                               \/ p = tx[r].id /\ rowLock[p] = {r}
  PROVE  \A q \in Requests :
           (Writes(tx[q]) /\ AloneIfCreating(q) /\ HoldsItsRow(q) /\ TellsItsRow(q))'
<1>1. /\ tx'[r] = Ended /\ \A q \in Requests \ {r} : tx'[q] = tx[q]
      /\ \A p \in Portfolios : rowLock'[p] = rowLock[p] \ {r}
  BY FinishKeepsLocks DEF Finish
<1>2. (Writes(tx[r]) /\ AloneIfCreating(r) /\ HoldsItsRow(r) /\ TellsItsRow(r))'
  <2>1. Ended.kind = "none" /\ Ended.kind \notin Kinds /\ Ended.kind \notin OfRow
    BY EndedFacts
  <2>2. Writes(tx[r])'
    BY <1>1, <2>1 DEF Writes
  <2>3. ~Doing(r, "insert")' /\ ~Doing(r, "commit")'
    BY <1>1 DEF Doing
  <2> QED
    BY <1>1, <2>1, <2>2, <2>3 DEF AloneIfCreating, HoldsItsRow, TellsItsRow
<1>3. ASSUME NEW q \in Requests, q # r
      PROVE  (Writes(tx[q]) /\ AloneIfCreating(q) /\ HoldsItsRow(q) /\ TellsItsRow(q))'
  <2>1. tx'[q] = tx[q] /\ Writes(tx[q]) /\ HoldsItsRow(q) /\ TellsItsRow(q) /\ AloneIfCreating(q)
    BY <1>1, <1>3 DEF AuditInv
  <2>2. Writes(tx[q])' /\ TellsItsRow(q)'
    BY <2>1 DEF Writes, TellsItsRow, Doing, AfterValue
  <2>3. tx[q].kind \in OfRow => tx[q].id \in Portfolios
    BY EndedFacts DEF RecordsInv, Sound, OpenSound
  <2>4. AloneIfCreating(q)'
    <3> SUFFICES ASSUME tx[q].kind = "PORTFOLIO_CREATED"
                 PROVE  /\ portfolio'[tx[q].id] = NoRecord
                        /\ \A z \in Requests \ {q} : tx'[z] = Ended \/ tx'[z].id # tx[q].id
      BY <2>1 DEF AloneIfCreating
    <3>1. /\ portfolio[tx[q].id] = NoRecord
          /\ \A z \in Requests \ {q} : tx[z] = Ended \/ tx[z].id # tx[q].id
      BY <2>1 DEF AloneIfCreating
    <3>2. tx[q].id # tx[r].id /\ tx[q].id \in Portfolios
      BY <1>3, <2>3, <3>1 DEF OfRow
    <3> QED
      BY <1>1, <3>1, <3>2
  <2>5. HoldsItsRow(q)'
    <3> SUFFICES ASSUME tx[q].kind \in OfRow, ~Doing(q, "row")
                 PROVE  /\ rowLock'[tx[q].id] = rowLock[tx[q].id]
                        /\ portfolio'[tx[q].id] = portfolio[tx[q].id]
      BY <2>1 DEF HoldsItsRow, Doing
    <3>1. rowLock[tx[q].id] = {q}
      BY <2>1 DEF HoldsItsRow
    <3> QED
      BY <1>1, <1>3, <2>3, <3>1
  <2> QED
    BY <2>2, <2>4, <2>5
<1> QED
  BY <1>2, <1>3

LEMMA AuditCommit ==
  ASSUME RecordsInv, AuditInv, NEW r \in Requests, Commit(r)
  PROVE  AuditInv'
<1> DEFINE t == tx[r]
           n == Len(auditLog) + 1
<1>1. /\ Doing(r, "commit") /\ Finish(r) /\ UNCHANGED damage
      /\ portfolio' = IF t.kind \in OfRow THEN [portfolio EXCEPT ![t.id] = t.next] ELSE portfolio
      /\ auditLog' = Append(auditLog, t.entry)
  BY DEF Commit
<1>2. /\ t \in OpenTxs /\ t.entry \in Entries
      /\ t.kind \in OfRow => t.id \in Portfolios /\ t.next \in Rows
      /\ t.id \in Portfolios => portfolio[t.id] # NoRecord \/ t.kind \in OfRow
  <2>1. OpenSound(r) /\ Head(t.todo) = "commit"
    BY <1>1, OpenFacts
  <2>2. t.kind \in Kinds \ OfRow => t.patch \notin NewRows
    <3>1. t.kind \in Kinds \ OfRow => DOMAIN t.patch \cap Fields = {}
      BY DEF AuditInv, Writes
    <3>2. "tradingState" \in Fields
      BY DEF Fields
    <3> QED
      BY <3>1, <3>2, CreatedFacts
  <2> QED
    BY <2>1, <2>2 DEF OpenSound, OpenTxs
<1>3. t.entry.payload.entityId = t.id /\ t.entry.payload.after = AfterValue(t) /\ Writes(t)
  BY <1>1 DEF AuditInv, TellsItsRow
<1>4. ASSUME t.kind \in OfRow
      PROVE  rowLock[t.id] = {r} /\ t.next = Patched(portfolio[t.id], t.patch)
  <2>1. Head(t.todo) = "commit"
    BY <1>1, OpenFacts
  <2>2. ~Doing(r, "row")
    BY <2>1 DEF Doing
  <2> QED
    BY <1>4, <2>2 DEF AuditInv, HoldsItsRow
<1> HIDE DEF t
<1>5. \A p \in Portfolios : portfolio'[p] = IF t.kind \in OfRow /\ p = t.id THEN t.next ELSE portfolio[p]
  BY <1>1, <1>2 DEF RecordsInv, RecordsTyped
<1>6. \A q \in Requests :
        (Writes(tx[q]) /\ AloneIfCreating(q) /\ HoldsItsRow(q) /\ TellsItsRow(q))'
  <2>1. tx[r] # Ended
    BY <1>1 DEF Doing
  <2>2. \A p \in Portfolios : portfolio'[p] = portfolio[p] \/ (p = tx[r].id /\ rowLock[p] = {r})
    BY <1>4, <1>5 DEF t
  <2> QED
    BY <1>1, <2>1, <2>2, AuditEnds
<1>7. /\ n \in Nat /\ DOMAIN auditLog = 1 .. n - 1 /\ DOMAIN auditLog' = 1 .. n
      /\ auditLog'[n] = t.entry /\ \A i \in DOMAIN auditLog : auditLog'[i] = auditLog[i]
  BY <1>1, <1>2 DEF RecordsInv, RecordsTyped
<1> HIDE DEF n
<1>8. EntriesHaveRows'
  <2> SUFFICES ASSUME NEW p \in Portfolios, NEW i \in 1 .. n, damage = Intact,
                      auditLog'[i].payload.entityId = p
               PROVE  portfolio'[p] # NoRecord
    BY <1>1, <1>7 DEF EntriesHaveRows
  <2>1. CASE i = n
    BY <1>2, <1>3, <1>5, <1>7, <2>1, NoRecordFacts
  <2>2. CASE i # n
    <3>1. portfolio[p] # NoRecord
      BY <1>7, <2>2 DEF AuditInv, EntriesHaveRows
    <3> QED
      BY <1>2, <1>5, <3>1, NoRecordFacts
  <2> QED
    BY <2>1, <2>2
<1>9. LastAuditIsCurrent'
  <2> DEFINE Told(l, p, f) == {i \in DOMAIN l : /\ l[i].payload.entityId = p
                                                /\ f \in DOMAIN l[i].payload.after}
  <2> SUFFICES ASSUME NEW p \in Portfolios, NEW f \in Fields, damage = Intact,
                      NEW i \in Told(auditLog', p, f), \A j \in Told(auditLog', p, f) : j <= i
               PROVE  auditLog'[i].payload.after[f] = portfolio'[p][f]
    BY <1>1 DEF LastAuditIsCurrent
  <2>1. CASE i = n
    <3>1. t.id = p /\ f \in DOMAIN AfterValue(t)
      BY <1>3, <1>7, <2>1
    <3>4. t.kind \in OfRow
      BY <1>2, <1>3, <3>1 DEF Writes, AfterValue, OpenTxs, OfRow
    <3>2. AfterValue(t)[f] = t.next[f]
      BY <1>2, <1>3, <1>4, <3>1, <3>4, EntryTellsChange
    <3> QED
      BY <1>3, <1>5, <1>7, <2>1, <3>1, <3>2, <3>4
  <2>2. CASE i # n
    <3>1. i \in DOMAIN auditLog /\ i < n
      BY <1>7, <2>2
    <3>2. i \in Told(auditLog, p, f) /\ \A j \in Told(auditLog, p, f) : j <= i
      BY <1>7, <3>1
    <3>3. auditLog[i].payload.after[f] = portfolio[p][f]
      BY <3>2 DEF AuditInv, LastAuditIsCurrent
    <3>4. portfolio[p] # NoRecord
      BY <3>2 DEF AuditInv, EntriesHaveRows
    <3>5. ASSUME t.id = p, t.kind \in OfRow PROVE t.next[f] = portfolio[p][f]
      <4>1. n \notin Told(auditLog', p, f)
        BY <1>7, <3>1
      <4>2. f \notin DOMAIN AfterValue(t)
        BY <1>3, <1>7, <3>5, <4>1
      <4>3. t.kind # "PORTFOLIO_CREATED"
        BY <3>4, <3>5 DEF AuditInv, AloneIfCreating, t
      <4> QED
        BY <1>2, <1>3, <1>4, <3>5, <4>2, <4>3, EntryTellsChange
    <3> QED
      BY <1>5, <1>7, <3>1, <3>3, <3>5
  <2> QED
    BY <2>1, <2>2
<1> QED
  BY <1>6, <1>8, <1>9 DEF AuditInv

LEMMA AuditRollback ==
  ASSUME RecordsInv, AuditInv, NEW r \in Requests, Rollback(r)
  PROVE  AuditInv'
<1>1. tx[r] # Ended /\ Finish(r) /\ UNCHANGED <<portfolio, auditLog, damage>>
  BY DEF Rollback, tables
<1> QED
  BY <1>1, AuditEnds, LogStays DEF AuditInv

(* A log that was altered need not say anything of the rows any more.       *)
LEMMA AuditAlter ==
  ASSUME RecordsInv, AuditInv, NEW how \in {"edited", "rehashed", "removed"},
         NEW i \in DOMAIN auditLog, Alter(how, i)
  PROVE  AuditInv'
<1>1. damage' # Intact /\ UNCHANGED <<portfolio, tx, rowLock, chainLock>>
  BY DEF Alter, Intact
<1>2. EntriesHaveRows' /\ LastAuditIsCurrent'
  BY <1>1 DEF EntriesHaveRows, LastAuditIsCurrent
<1>3. \A q \in Requests :
        (Writes(tx[q]) /\ AloneIfCreating(q) /\ HoldsItsRow(q) /\ TellsItsRow(q))'
  BY <1>1 DEF AuditInv, Writes, AloneIfCreating, HoldsItsRow, TellsItsRow, Doing, AfterValue
<1> QED
  BY <1>2, <1>3 DEF AuditInv

LEMMA AuditStepKeeps == RecordsInv /\ AuditInv /\ [RecordsNext]_recordsVars => AuditInv'
<1> SUFFICES ASSUME RecordsInv, AuditInv, [RecordsNext]_recordsVars PROVE AuditInv'
  OBVIOUS
<1>1. ASSUME NEW r \in Requests, NEW p \in Portfolios,
             Update(r, p) \/ EngageKillSwitch(r, p) \/ ReleaseKillSwitch(r, p) \/ DenyAccess(r, p)
      PROVE  AuditInv'
  BY <1>1, AuditRequests
<1>2. ASSUME NEW r \in Requests,
             \/ \E p \in Portfolios, name \in PortfolioNames : CreatePortfolio(r, p, name)
             \/ \E D \in SUBSET {"externalRef"} : CreateClient(r, D)
      PROVE  AuditInv'
  BY <1>2, AuditPortfolio, AuditClient
<1>3. ASSUME NEW r \in Requests,
             \/ WriteRow(r) \/ ClaimUnique(r) \/ Record(r) \/ InsertEntry(r)
             \/ Commit(r) \/ Rollback(r)
      PROVE  AuditInv'
  BY <1>3, AuditWriteRow, AuditRecord, AuditQuiet, AuditCommit, AuditRollback
<1>4. CASE \E how \in {"edited", "rehashed", "removed"}, i \in DOMAIN auditLog : Alter(how, i)
  BY <1>4, AuditAlter
<1>5. CASE UNCHANGED recordsVars
  <2>1. EntriesHaveRows' /\ LastAuditIsCurrent'
    BY <1>5, LogStays DEF recordsVars, tables
  <2>2. \A q \in Requests :
          (Writes(tx[q]) /\ AloneIfCreating(q) /\ HoldsItsRow(q) /\ TellsItsRow(q))'
    BY <1>5 DEF recordsVars, tables, AuditInv, Writes, AloneIfCreating, HoldsItsRow, TellsItsRow,
                Doing, AfterValue
  <2> QED
    BY <2>1, <2>2 DEF AuditInv
<1> QED
  BY <1>1, <1>2, <1>3, <1>4, <1>5 DEF RecordsNext

(* However updates, halts and releases of a portfolio overlap, the newest   *)
(* entry that names one of its fields gives the value the field has: the    *)
(* entries of a row are in the order of its writes, because a writer keeps  *)
(* the row until its entry is committed with it.                            *)
THEOREM AuditTellsThePresent == RecordsSpec => []LastAuditIsCurrent
<1>1. AuditInv => LastAuditIsCurrent
  BY DEF AuditInv
<1> QED
  BY <1>1, RecordsInvariance, AuditInitEstablishes, AuditStepKeeps, PTL DEF RecordsSpec
=============================================================================
