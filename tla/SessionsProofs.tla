--------------------------- MODULE SessionsProofs ---------------------------
(* Theorems about Sessions, for any number of requests, tabs and browsers.  *)
EXTENDS Sessions, FiniteSetTheorems, TLAPS

UserRows == [active : BOOLEAN, mfa : BOOLEAN, secret : Nat, failed : Nat, locked : BOOLEAN]
Accesses == [family : Nat, mfa : BOOLEAN]
Tokens   == [family : Nat, status : {"live", "expired", "revoked"}]
Steps    == {"idle", "sent", "denied", "waiting", "authed", "fail", "reset", "issue", "reply",
             "begin", "complete", "enable", "bye"}
Others   == Steps \ {"enable", "issue", "reply", "fail", "reset"}
CallRecords ==
  [kind : Kinds \cup {"none"}, pc : Steps, retried : BOOLEAN, right : BOOLEAN,
   code : Nat, access : Accesses, tok : Nat, row : UserRows, proven : BOOLEAN]
Flights  == [pc : {"none", "sent", "read", "reuse", "rotated", "settled"}, tok : Nat,
             mfa : BOOLEAN, ok : BOOLEAN]

(* What a handler may rely on between two of its awaits: it issues a        *)
(* session of an account that must have a second factor only with a code    *)
(* checked, and it never writes back a row that it read locked.             *)
Proper(r) ==
  /\ r \in CallRecords
  /\ r.pc \in {"enable", "issue"} => (mandatory => r.proven)
  /\ r.pc = "reply" => r.tok \in 1 .. Len(token)
  /\ r.pc \in {"fail", "reset"} => ~r.row.locked

Flying(f) ==
  /\ f \in Flights /\ f.tok <= Len(token)
  /\ f.pc \in {"read", "reuse", "rotated"} => f.tok # 0

SessionsTyped ==
  /\ user \in UserRows /\ mandatory \in BOOLEAN /\ known \in Nat
  /\ token \in Seq(Tokens)
  /\ pageOf \in [Calls -> Pages] /\ jarOf \in [Pages -> Jars]
  /\ DOMAIN jar = Jars /\ DOMAIN call = Calls /\ DOMAIN flight = Pages

SessionsInv ==
  /\ SessionsTyped
  /\ \A j \in Jars : /\ jar[j] \in [access : Accesses, refresh : Nat]
                     /\ jar[j].refresh <= Len(token)
  /\ \A c \in Calls : Proper(call[c])
  /\ \A p \in Pages : Flying(flight[p])
  /\ MandatoryVerified
-----------------------------------------------------------------------------
LEMMA IdleProper == Idle \in CallRecords /\ Idle.pc = "idle"
<1>1. NoAccess \in Accesses /\ NoRow \in UserRows
  BY DEF NoAccess, Accesses, NoRow, UserRows
<1> QED
  BY <1>1 DEF Idle, CallRecords, Steps, NoCode

LEMMA SessionsInitEstablishes == SessionsInit => SessionsInv
<1> SUFFICES ASSUME SessionsInit PROVE SessionsInv
  OBVIOUS
<1>1. token = <<>> /\ Len(token) = 0 /\ DOMAIN token = {}
  BY DEF SessionsInit
<1>2. SessionsTyped
  <2>1. user \in UserRows
    BY DEF SessionsInit, NoRow, UserRows
  <2>2. pageOf \in [Calls -> Pages] /\ jarOf \in [Pages -> Jars]
    <3>1. PICK l \in Layouts : pageOf = l.pageOf /\ jarOf = l.jarOf
      BY DEF SessionsInit
    <3> QED
      BY <3>1, SessionsAssumption
  <2>3. token \in Seq(Tokens)
    BY <1>1
  <2>4. /\ mandatory \in BOOLEAN /\ known \in Nat
        /\ DOMAIN jar = Jars /\ DOMAIN call = Calls /\ DOMAIN flight = Pages
    BY DEF SessionsInit
  <2> QED
    BY <2>1, <2>2, <2>3, <2>4 DEF SessionsTyped
<1>3. ASSUME NEW j \in Jars
      PROVE  jar[j] \in [access : Accesses, refresh : Nat] /\ jar[j].refresh <= Len(token)
  <2>1. jar[j] = [access |-> NoAccess, refresh |-> 0]
    BY DEF SessionsInit
  <2>2. NoAccess \in Accesses
    BY DEF NoAccess, Accesses
  <2> QED
    BY <1>1, <2>1, <2>2
<1>4. ASSUME NEW c \in Calls PROVE Proper(call[c])
  BY IdleProper DEF SessionsInit, Proper
<1>5. ASSUME NEW p \in Pages PROVE Flying(flight[p])
  <2>1. flight[p] = NoFlight
    BY DEF SessionsInit
  <2> QED
    BY <1>1, <2>1 DEF NoFlight, Flying, Flights
<1> QED
  BY <1>1, <1>2, <1>3, <1>4, <1>5 DEF SessionsInv, MandatoryVerified

(* A step of one request that leaves sessions and cookies alone.            *)
LEMMA CallKeeps ==
  ASSUME SessionsInv, NEW c \in Calls, NEW r, Proper(r), UnchangedBut(c, r),
         user' \in UserRows, known' \in Nat,
         UNCHANGED <<mandatory, token, pageOf, jarOf, jar, verified>>
  PROVE  SessionsInv'
<1>1. /\ call' = [call EXCEPT ![c] = r] /\ UNCHANGED flight
  BY DEF UnchangedBut
<1>2. ASSUME NEW d \in Calls PROVE Proper(call[d])'
  <2>1. call'[d] = IF d = c THEN r ELSE call[d]
    BY <1>1 DEF SessionsInv, SessionsTyped
  <2> QED
    BY <2>1 DEF SessionsInv, Proper
<1> QED
  BY <1>1, <1>2 DEF SessionsInv, SessionsTyped, Flying, MandatoryVerified

(* The records a handler moves on with.                                     *)
LEMMA Moved ==
  ASSUME NEW r, Proper(r), NEW pc \in Others
  PROVE  Proper([r EXCEPT !.pc = pc])
BY DEF Proper, CallRecords, Others

LEMMA Ended == Proper(Idle)
BY IdleProper DEF Proper

LEMMA CallMoves ==
  ASSUME SessionsInv, NEW c \in Calls,
         \/ Ends(c)
         \/ \E pc \in Others : Move(c, pc),
         user' \in UserRows, known' \in Nat,
         UNCHANGED <<mandatory, token, pageOf, jarOf, jar, verified>>
  PROVE  SessionsInv'
<1>1. CASE Ends(c)
  BY <1>1, Ended, CallKeeps DEF Ends
<1>2. ASSUME NEW pc \in Others, Move(c, pc)
      PROVE  SessionsInv'
  <2>1. Proper([call[c] EXCEPT !.pc = pc])
    BY Moved DEF SessionsInv
  <2> QED
    BY <1>2, <2>1, CallKeeps DEF Move
<1> QED
  BY <1>1, <1>2

LEMMA CookiesTyped ==
  ASSUME SessionsInv, NEW p \in Pages
  PROVE  /\ jarOf[p] \in Jars /\ jar[jarOf[p]].access \in Accesses
         /\ jar[jarOf[p]].refresh \in Nat /\ jar[jarOf[p]].refresh <= Len(token)
<1>1. jarOf[p] \in Jars
  BY DEF SessionsInv, SessionsTyped
<1> QED
  BY <1>1 DEF SessionsInv

LEMMA ContinuedProper ==
  ASSUME NEW r, Proper(r), NEW ok, NEW cookies, ok => cookies.access \in Accesses
  PROVE  Proper(Continued(r, ok, cookies))
<1>1. NoAccess \in Accesses
  BY DEF NoAccess, Accesses
<1>2. CASE ~ok
  BY <1>2, Ended DEF Continued
<1>3. CASE ok
  <2>1. Continued(r, ok, cookies) =
          [r EXCEPT !.pc = "sent", !.retried = TRUE,
                    !.access = IF r.kind \in InSession THEN cookies.access ELSE NoAccess]
    BY <1>3 DEF Continued
  <2>2. cookies.access \in Accesses
    BY <1>3
  <2> DEFINE access == IF r.kind \in InSession THEN cookies.access ELSE NoAccess
  <2>3. access \in Accesses
    BY <1>1, <2>2
  <2> HIDE DEF access
  <2>4. Proper([r EXCEPT !.pc = "sent", !.retried = TRUE, !.access = access])
    BY <2>3 DEF Proper, CallRecords, Steps
  <2> QED
    BY <2>1, <2>4 DEF access
<1> QED
  BY <1>2, <1>3

LEMMA SendKeeps ==
  ASSUME SessionsInv, NEW c \in Calls, NEW k \in Kinds, NEW right \in BOOLEAN,
         NEW code \in Nat, Send(c, k, right, code)
  PROVE  SessionsInv'
<1> DEFINE r == [Idle EXCEPT !.kind = k, !.pc = "sent", !.right = right, !.code = code,
       !.access = IF k \in InSession THEN jar[Jar(c)].access ELSE NoAccess,
       !.tok = IF k = "logout" THEN jar[Jar(c)].refresh ELSE 0]
<1>1. UnchangedBut(c, r) /\ UNCHANGED <<account, token, browser, verified>>
  BY DEF Send
<1>2. jar[Jar(c)].access \in Accesses /\ jar[Jar(c)].refresh \in Nat /\ NoAccess \in Accesses
  <2>1. pageOf[c] \in Pages
    BY DEF SessionsInv, SessionsTyped
  <2> QED
    BY <2>1, CookiesTyped DEF Jar, NoAccess, Accesses
<1>3. r \in CallRecords /\ r.pc = "sent"
  BY <1>2, IdleProper DEF CallRecords, Steps
<1>4. Proper(r)
  BY <1>3 DEF Proper
<1> HIDE DEF r
<1> QED
  BY <1>1, <1>4, CallKeeps DEF account, browser, SessionsInv, SessionsTyped

(* The refresh that a page waits for settles.                               *)
LEMMA SettleKeeps ==
  ASSUME SessionsInv, NEW p \in Pages, NEW ok \in BOOLEAN, NEW cookies,
         ok => cookies.access \in Accesses, Settle(p, ok, cookies)
  PROVE  /\ DOMAIN call' = Calls /\ DOMAIN flight' = Pages
         /\ \A c \in Calls : Proper(call'[c])
         /\ \A q \in Pages : Flying(flight'[q])
<1>1. ASSUME NEW c \in Calls PROVE Proper(call'[c])
  <2>1. call'[c] \in {call[c], Continued(call[c], ok, cookies)}
    BY DEF Settle
  <2> QED
    BY <2>1, ContinuedProper DEF SessionsInv
<1>2. ASSUME NEW q \in Pages PROVE Flying(flight'[q])
  <2>1. Flying([NoFlight EXCEPT !.pc = "settled", !.ok = ok])
    <3>1. Len(token) \in Nat
      BY DEF SessionsInv, SessionsTyped
    <3> DEFINE f == [NoFlight EXCEPT !.pc = "settled", !.ok = ok]
    <3>2. f \in Flights /\ f.tok = 0 /\ f.pc = "settled"
      BY DEF NoFlight, Flights
    <3> HIDE DEF f
    <3>3. Flying(f)
      BY <3>1, <3>2 DEF Flying
    <3> QED
      BY <3>3 DEF f
  <2>2. flight'[q] = IF q = p THEN [NoFlight EXCEPT !.pc = "settled", !.ok = ok] ELSE flight[q]
    BY DEF Settle, SessionsInv, SessionsTyped
  <2> QED
    BY <2>1, <2>2 DEF SessionsInv
<1> QED
  BY <1>1, <1>2 DEF Settle, SessionsInv, SessionsTyped

LEMMA UnauthorizedKeeps ==
  ASSUME SessionsInv, NEW c \in Calls, Unauthorized(c)
  PROVE  SessionsInv'
<1> DEFINE p == pageOf[c]
<1>1. UNCHANGED <<user, mandatory, known, token, pageOf, jarOf, jar>> /\ p \in Pages
  BY DEF Unauthorized, account, browser, SessionsInv, SessionsTyped
<1>2. user' \in UserRows /\ known' \in Nat /\ Proper(call[c])
  BY <1>1 DEF SessionsInv, SessionsTyped
<1>3. verified' = verified
  BY DEF Unauthorized, history
<1>4. CASE Ends(c) \/ Move(c, "waiting")
  BY <1>1, <1>2, <1>3, <1>4, CallMoves DEF Others, Steps
<1>5. CASE UnchangedBut(c, Continued(call[c], flight[p].ok, jar[jarOf[p]]))
  <2>1. jar[jarOf[p]].access \in Accesses
    BY <1>1, CookiesTyped
  <2>2. Proper(Continued(call[c], flight[p].ok, jar[jarOf[p]]))
    BY <1>2, <2>1, ContinuedProper
  <2> QED
    BY <1>1, <1>2, <1>3, <1>5, <2>2, CallKeeps
<1>6. CASE /\ call' = [call EXCEPT ![c].pc = "waiting"]
           /\ flight' = [flight EXCEPT ![p] =
                [NoFlight EXCEPT !.pc = "sent", !.tok = jar[jarOf[p]].refresh]]
  <2> DEFINE f == [NoFlight EXCEPT !.pc = "sent", !.tok = jar[jarOf[p]].refresh]
  <2>1. Flying(f)
    BY <1>1, CookiesTyped DEF NoFlight, Flying, Flights
  <2> HIDE DEF f
  <2>2. ASSUME NEW q \in Pages PROVE Flying(flight'[q])
    <3>1. flight'[q] = IF q = p THEN f ELSE flight[q]
      BY <1>6 DEF f, SessionsInv, SessionsTyped
    <3> QED
      BY <2>1, <3>1 DEF SessionsInv
  <2>3. ASSUME NEW d \in Calls PROVE Proper(call'[d])
    <3>1. call'[d] = IF d = c THEN [call[c] EXCEPT !.pc = "waiting"] ELSE call[d]
      BY <1>6 DEF SessionsInv, SessionsTyped
    <3>2. Proper([call[c] EXCEPT !.pc = "waiting"])
      BY <1>2, Moved DEF Others, Steps
    <3> QED
      BY <3>1, <3>2 DEF SessionsInv
  <2>4. DOMAIN call' = Calls /\ DOMAIN flight' = Pages
    BY <1>6 DEF SessionsInv, SessionsTyped
  <2> QED
    BY <1>1, <1>3, <2>2, <2>3, <2>4 DEF SessionsInv, SessionsTyped, Proper, Flying, MandatoryVerified
<1> QED
  BY <1>4, <1>5, <1>6 DEF Unauthorized

(* The answer to a right password, by a row that was not locked.            *)
LEMMA OutcomeKeeps ==
  ASSUME SessionsInv, NEW c \in Calls, NEW row \in UserRows, Outcome(c, row),
         user' \in UserRows, UNCHANGED <<mandatory, known, token, pageOf, jarOf, jar, verified>>
  PROVE  SessionsInv'
<1> DEFINE r == [call[c] EXCEPT !.pc = "issue", !.proven = row.mfa, !.row = NoRow]
<1>1. known' \in Nat /\ Proper(call[c])
  BY DEF SessionsInv, SessionsTyped
<1>2. CASE Ends(c) \/ Move(c, "denied")
  BY <1>1, <1>2, CallMoves DEF Others, Steps
<1>3. CASE UnchangedBut(c, r) /\ (mandatory => row.mfa)
  <2>1. NoRow \in UserRows
    BY DEF NoRow, UserRows
  <2>2. r \in CallRecords /\ r.pc = "issue" /\ r.proven = row.mfa
    BY <1>1, <2>1 DEF Proper, CallRecords, Steps, UserRows
  <2> HIDE DEF r
  <2>3. Proper(r)
    BY <1>3, <2>2 DEF Proper
  <2> QED
    BY <1>1, <1>3, <2>3, CallKeeps
<1> QED
  BY <1>2, <1>3 DEF Outcome

LEMMA LoginKeeps ==
  ASSUME SessionsInv, NEW c \in Calls, LoginRead(c) \/ RegisterFailedLogin(c) \/ LoginReset(c)
  PROVE  SessionsInv'
<1>1. user \in UserRows /\ known \in Nat /\ Proper(call[c])
  BY DEF SessionsInv, SessionsTyped
<1>2. CASE LoginRead(c)
  <2>1. UNCHANGED <<user, mandatory, known, token, pageOf, jarOf, jar, verified>>
    BY <1>2 DEF LoginRead, account, history
  <2>2. CASE Move(c, "denied")
    BY <1>1, <2>1, <2>2, CallMoves DEF Others, Steps
  <2>3. ASSUME NEW pc \in {"fail", "reset"}, ~user.locked,
               UnchangedBut(c, [call[c] EXCEPT !.pc = pc, !.row = user])
        PROVE  SessionsInv'
    <3>1. Proper([call[c] EXCEPT !.pc = pc, !.row = user])
      BY <1>1, <2>3 DEF Proper, CallRecords, Steps
    <3> QED
      BY <1>1, <2>1, <2>3, <3>1, CallKeeps
  <2>4. CASE Outcome(c, user)
    BY <1>1, <2>1, <2>4, OutcomeKeeps
  <2> QED
    BY <1>2, <2>2, <2>3, <2>4 DEF LoginRead
<1>3. CASE RegisterFailedLogin(c)
  <2> DEFINE failed == call[c].row.failed + 1
             u == [user EXCEPT !.failed = IF failed >= MaxFailedLogins THEN MaxFailedLogins ELSE failed,
                               !.locked = failed >= MaxFailedLogins]
             r == [call[c] EXCEPT !.pc = "denied", !.row = NoRow]
  <2>1. /\ user' = u /\ UnchangedBut(c, r)
        /\ UNCHANGED <<mandatory, known, token, pageOf, jarOf, jar, verified>>
    BY <1>3 DEF RegisterFailedLogin, UserIs, browser, history
  <2>2. failed \in Nat
    BY <1>1 DEF Proper, CallRecords, UserRows
  <2>3. u \in UserRows
    <3>1. (IF failed >= MaxFailedLogins THEN MaxFailedLogins ELSE failed) \in Nat
          /\ (failed >= MaxFailedLogins) \in BOOLEAN
      BY <2>2, SessionsAssumption
    <3> HIDE DEF failed
    <3> QED
      BY <1>1, <3>1 DEF UserRows
  <2>4. NoRow \in UserRows
    BY DEF NoRow, UserRows
  <2>5. Proper(r)
    BY <1>1, <2>4 DEF Proper, CallRecords, Steps
  <2> HIDE DEF u, r
  <2> QED
    BY <1>1, <2>1, <2>3, <2>5, CallKeeps
<1>4. CASE LoginReset(c)
  <2>1. /\ user' = [user EXCEPT !.failed = 0, !.locked = FALSE]
        /\ Outcome(c, call[c].row)
        /\ UNCHANGED <<mandatory, known, token, pageOf, jarOf, jar, verified>>
    BY <1>4 DEF LoginReset, UserIs, history
  <2>2. user' \in UserRows /\ call[c].row \in UserRows
    BY <1>1, <2>1 DEF Proper, CallRecords, UserRows
  <2> QED
    BY <2>1, <2>2, OutcomeKeeps
<1> QED
  BY <1>2, <1>3, <1>4

LEMMA EnrolmentKeeps ==
  ASSUME SessionsInv, NEW c \in Calls,
         BeginRead(c) \/ BeginWrite(c) \/ ActivateRead(c) \/ CompleteRead(c) \/ EnableMfa(c)
  PROVE  SessionsInv'
<1>1. user \in UserRows /\ known \in Nat /\ Proper(call[c])
  BY DEF SessionsInv, SessionsTyped
<1>2. UNCHANGED <<mandatory, token, pageOf, jarOf, jar, verified>>
  BY DEF BeginRead, BeginWrite, ActivateRead, CompleteRead, EnableMfa, account, browser, history
<1>3. CASE BeginRead(c)
  BY <1>1, <1>2, <1>3, CallMoves DEF BeginRead, account, Others, Steps
<1>4. CASE BeginWrite(c)
  <2>1. /\ user' = [user EXCEPT !.secret = known + 1, !.mfa = FALSE] /\ known' = known + 1 /\ Ends(c)
    BY <1>4 DEF BeginWrite, UserIs
  <2>2. known + 1 \in Nat
    BY <1>1
  <2>3. user' \in UserRows /\ known' \in Nat
    BY <1>1, <2>1, <2>2 DEF UserRows
  <2> QED
    BY <1>2, <2>1, <2>3, CallMoves
<1>5. CASE ActivateRead(c)
  BY <1>1, <1>2, <1>5, CallMoves DEF ActivateRead, account, Others, Steps
<1>6. CASE CompleteRead(c)
  <2>1. user' \in UserRows /\ known' \in Nat
    BY <1>1, <1>6 DEF CompleteRead, account
  <2>2. CASE Ends(c) \/ Move(c, "denied")
    BY <1>2, <2>1, <2>2, CallMoves DEF Others, Steps
  <2>3. ASSUME NEW pc \in {"enable", "issue"},
               UnchangedBut(c, [call[c] EXCEPT !.pc = pc, !.proven = TRUE])
        PROVE  SessionsInv'
    <3>1. Proper([call[c] EXCEPT !.pc = pc, !.proven = TRUE])
      BY <1>1 DEF Proper, CallRecords, Steps
    <3> QED
      BY <1>2, <2>1, <2>3, <3>1, CallKeeps
  <2>4. \/ Ends(c) \/ Move(c, "denied")
        \/ \E pc \in {"enable", "issue"} :
             UnchangedBut(c, [call[c] EXCEPT !.pc = pc, !.proven = TRUE])
    BY <1>6 DEF CompleteRead
  <2> QED
    BY <2>2, <2>3, <2>4
<1>7. CASE EnableMfa(c)
  <2>1. /\ user' = [user EXCEPT !.mfa = TRUE] /\ known' = known /\ Move(c, "issue")
        /\ call[c].pc = "enable" /\ call[c].kind \in {"activate", "verify"}
    BY <1>7 DEF EnableMfa, UserIs, At
  <2>2. user' \in UserRows
    BY <1>1, <2>1 DEF UserRows
  <2>3. Proper([call[c] EXCEPT !.pc = "issue"])
    BY <1>1, <2>1 DEF Proper, CallRecords, Steps
  <2> QED
    BY <1>1, <1>2, <2>1, <2>2, <2>3, CallKeeps DEF Move
<1> QED
  BY <1>3, <1>4, <1>5, <1>6, <1>7

(* A step that may add tokens and change their statuses.                    *)
LEMMA TokensKeep ==
  ASSUME SessionsInv, UNCHANGED <<user, mandatory, known, pageOf, jarOf>>,
         token' \in Seq(Tokens), verified \subseteq verified',
         \A t \in DOMAIN token' : \/ token'[t].family \in verified'
                                  \/ \E u \in DOMAIN token : token'[t].family = token[u].family
                                  \/ ~mandatory,
         DOMAIN jar' = Jars, DOMAIN call' = Calls, DOMAIN flight' = Pages,
         \A j \in Jars : /\ jar'[j] \in [access : Accesses, refresh : Nat]
                         /\ jar'[j].refresh <= Len(token'),
         \A c \in Calls : Proper(call[c])',
         \A p \in Pages : Flying(flight[p])'
  PROVE  SessionsInv'
<1>1. MandatoryVerified'
  BY DEF SessionsInv, MandatoryVerified
<1> QED
  BY <1>1 DEF SessionsInv, SessionsTyped

(* Records stay proper when tokens are added.                               *)
LEMMA StaysProper ==
  ASSUME UNCHANGED mandatory, Len(token) \in Nat, Len(token') \in Nat, Len(token') >= Len(token),
         NEW c, Proper(call'[c])
  PROVE  Proper(call[c])'
BY DEF Proper, CallRecords

LEMMA StaysFlying ==
  ASSUME Len(token) \in Nat, Len(token') \in Nat, Len(token') >= Len(token),
         NEW p, Flying(flight'[p])
  PROVE  Flying(flight[p])'
BY DEF Flying, Flights

LEMMA RestKeeps ==
  ASSUME SessionsInv, UNCHANGED <<user, mandatory, known, token, pageOf, jarOf, verified>>,
         DOMAIN jar' = Jars, DOMAIN call' = Calls, DOMAIN flight' = Pages,
         \A j \in Jars : /\ jar'[j] \in [access : Accesses, refresh : Nat]
                         /\ jar'[j].refresh <= Len(token),
         \A c \in Calls : Proper(call'[c]),
         \A p \in Pages : Flying(flight'[p])
  PROVE  SessionsInv'
<1>1. /\ Len(token) \in Nat /\ Len(token') = Len(token) /\ token' \in Seq(Tokens)
      /\ Len(token') >= Len(token)
  BY DEF SessionsInv, SessionsTyped
<1>2. /\ \A c \in Calls : Proper(call[c])'
      /\ \A p \in Pages : Flying(flight[p])'
  BY <1>1, StaysProper, StaysFlying
<1> QED
  BY <1>1, <1>2, TokensKeep

LEMMA IssueSessionKeeps ==
  ASSUME SessionsInv, NEW c \in Calls, IssueSession(c)
  PROVE  SessionsInv'
<1> DEFINE id == Len(token) + 1
           r == [call[c] EXCEPT !.pc = "reply", !.tok = id]
<1>1. /\ call[c].pc = "issue" /\ Proper(call[c])
      /\ token' = Append(token, [family |-> id, status |-> "live"])
      /\ call' = [call EXCEPT ![c] = r] /\ UNCHANGED <<flight, user, mandatory, known, pageOf, jarOf, jar>>
      /\ verified' = IF call[c].proven THEN verified \cup {id} ELSE verified
  BY DEF IssueSession, UnchangedBut, account, browser, SessionsInv
<1>2. /\ token \in Seq(Tokens) /\ Len(token) \in Nat /\ id \in Nat
      /\ DOMAIN call = Calls /\ DOMAIN jar = Jars /\ DOMAIN flight = Pages
  BY DEF SessionsInv, SessionsTyped
<1>3. /\ token' \in Seq(Tokens) /\ Len(token') = id
      /\ token'[id].family = id
      /\ \A t \in DOMAIN token : token'[t] = token[t]
      /\ DOMAIN token' = DOMAIN token \cup {id}
  <2>1. [family |-> id, status |-> "live"] \in Tokens
    BY <1>2 DEF Tokens
  <2> QED
    BY <1>1, <1>2, <2>1
<1>4. mandatory => id \in verified'
  BY <1>1 DEF Proper
<1>5. ASSUME NEW d \in Calls PROVE Proper(call[d])'
  <2>1. CASE d = c
    <3>1. r \in CallRecords /\ r.pc = "reply" /\ r.tok = id
      BY <1>1, <1>2 DEF Proper, CallRecords, Steps
    <3> HIDE DEF r
    <3>2. call'[d] = r /\ id \in 1 .. Len(token')
      BY <1>1, <1>2, <1>3, <2>1
    <3> QED
      BY <3>1, <3>2 DEF Proper
  <2>2. CASE d # c
    <3>1. call'[d] = call[d] /\ Len(token') >= Len(token)
      BY <1>1, <1>2, <1>3, <2>2
    <3>2. Proper(call'[d])
      BY <3>1 DEF SessionsInv
    <3> QED
      BY <1>1, <1>2, <1>3, <3>1, <3>2, StaysProper
  <2> QED
    BY <2>1, <2>2
<1> HIDE DEF r
<1>6. ASSUME NEW p \in Pages PROVE Flying(flight[p])'
  <2>1. Flying(flight'[p]) /\ Len(token') >= Len(token)
    BY <1>1, <1>2, <1>3 DEF SessionsInv
  <2> QED
    BY <1>2, <1>3, <2>1, StaysFlying
<1>7. \A j \in Jars : /\ jar'[j] \in [access : Accesses, refresh : Nat]
                      /\ jar'[j].refresh <= Len(token')
  BY <1>1, <1>2, <1>3 DEF SessionsInv
<1>8. verified \subseteq verified'
  BY <1>1
<1>9. DOMAIN call' = Calls /\ DOMAIN jar' = Jars /\ DOMAIN flight' = Pages
  BY <1>1, <1>2
<1> HIDE DEF id
<1>10. \A t \in DOMAIN token' :
         \/ token'[t].family \in verified'
         \/ \E u \in DOMAIN token : token'[t].family = token[u].family
         \/ ~mandatory
  <2> SUFFICES ASSUME NEW t \in DOMAIN token'
               PROVE  \/ token'[t].family \in verified'
                      \/ \E u \in DOMAIN token : token'[t].family = token[u].family
                      \/ ~mandatory
    OBVIOUS
  <2>1. CASE t = id
    BY <1>3, <1>4, <2>1
  <2>2. CASE t # id
    BY <1>3, <2>2
  <2> QED
    BY <2>1, <2>2
<1> QED
  BY <1>1, <1>3, <1>5, <1>6, <1>7, <1>8, <1>9, <1>10, TokensKeep

(* Cookies of a session whose token exists.                                 *)
LEMMA CookiesSet ==
  ASSUME SessionsInv, NEW j \in Jars, NEW t \in 1 .. Len(token), NEW mfa \in BOOLEAN
  PROVE  LET cookies == SetSessionCookies(j, t, mfa) IN
         /\ DOMAIN cookies = Jars
         /\ \A i \in Jars : /\ cookies[i] \in [access : Accesses, refresh : Nat]
                            /\ cookies[i].access \in Accesses
                            /\ cookies[i].refresh <= Len(token)
<1> DEFINE new == [access |-> AccessToken(token[t].family, mfa), refresh |-> t]
<1>1. token[t] \in Tokens /\ t \in Nat /\ t <= Len(token)
  BY DEF SessionsInv, SessionsTyped
<1>2. AccessToken(token[t].family, mfa) \in Accesses
  BY <1>1 DEF AccessToken, Accesses, Tokens
<1>3. new \in [access : Accesses, refresh : Nat] /\ new.refresh <= Len(token)
  BY <1>1, <1>2
<1> HIDE DEF new
<1>4. SetSessionCookies(j, t, mfa) = [jar EXCEPT ![j] = new]
  BY DEF SetSessionCookies, new
<1> QED
  BY <1>3, <1>4 DEF SessionsInv, SessionsTyped

LEMMA AnswerKeeps ==
  ASSUME SessionsInv, NEW c \in Calls, SignedIn(c) \/ LoggedOut(c)
  PROVE  SessionsInv'
<1>1. /\ call' = [call EXCEPT ![c] = Idle] /\ UNCHANGED flight
      /\ UNCHANGED <<user, mandatory, known, token, pageOf, jarOf, verified>>
  BY DEF SignedIn, LoggedOut, Ends, UnchangedBut, account, history
<1>2. Proper(call[c]) /\ Jar(c) \in Jars
  BY DEF SessionsInv, SessionsTyped, Jar
<1>3. /\ DOMAIN jar' = Jars
      /\ \A j \in Jars : /\ jar'[j] \in [access : Accesses, refresh : Nat]
                         /\ jar'[j].refresh <= Len(token)
  <2>1. CASE SignedIn(c)
    <3>1. /\ call[c].tok \in 1 .. Len(token) /\ call[c].proven \in BOOLEAN
          /\ jar' = SetSessionCookies(Jar(c), call[c].tok, call[c].proven)
      BY <1>2, <2>1 DEF SignedIn, Proper, CallRecords
    <3> QED
      BY <1>2, <3>1, CookiesSet
  <2>2. CASE LoggedOut(c)
    <3>1. jar' = [jar EXCEPT ![Jar(c)] = [access |-> NoAccess, refresh |-> 0]]
      BY <2>2 DEF LoggedOut
    <3>2. [access |-> NoAccess, refresh |-> 0] \in [access : Accesses, refresh : Nat]
      BY DEF NoAccess, Accesses
    <3>3. 0 <= Len(token)
      BY DEF SessionsInv, SessionsTyped
    <3> QED
      BY <3>1, <3>2, <3>3 DEF SessionsInv, SessionsTyped
  <2> QED
    BY <2>1, <2>2
<1>4. DOMAIN call' = Calls /\ \A d \in Calls : Proper(call'[d])
  BY <1>1, Ended DEF SessionsInv, SessionsTyped
<1>5. DOMAIN flight' = Pages /\ \A p \in Pages : Flying(flight'[p])
  BY <1>1 DEF SessionsInv, SessionsTyped
<1> QED
  BY <1>1, <1>3, <1>4, <1>5, RestKeeps

(* revokeFamily() changes statuses only.                                    *)
LEMMA RevokeFacts ==
  ASSUME SessionsInv, NEW f, NEW t, RevokeFamily(f, t)
  PROVE  /\ token' \in Seq(Tokens) /\ Len(token') = Len(token) /\ Len(token) \in Nat
         /\ \A u \in DOMAIN token' : u \in DOMAIN token /\ token'[u].family = token[u].family
<1>1. token \in Seq(Tokens)
  BY DEF SessionsInv, SessionsTyped
<1>2. ASSUME NEW i \in DOMAIN token
      PROVE  LET new == IF token[i].family = f THEN [token[i] EXCEPT !.status = "revoked"] ELSE token[i]
             IN  new \in Tokens /\ new.family = token[i].family
  <2>1. token[i] \in Tokens
    BY <1>1
  <2>2. [token[i] EXCEPT !.status = "revoked"] \in Tokens
        /\ [token[i] EXCEPT !.status = "revoked"].family = token[i].family
    BY <2>1 DEF Tokens
  <2> QED
    BY <2>1, <2>2
<1>3. token' = [i \in 1 .. Len(token) |->
                  IF token[i].family = f THEN [token[i] EXCEPT !.status = "revoked"] ELSE token[i]]
  BY <1>1 DEF RevokeFamily
<1> QED
  BY <1>1, <1>2, <1>3

LEMMA LogoutRevokeKeeps ==
  ASSUME SessionsInv, NEW c \in Calls, LogoutRevoke(c)
  PROVE  SessionsInv'
<1>1. UNCHANGED <<user, mandatory, known, pageOf, jarOf, jar, verified>>
  BY DEF LogoutRevoke, account, browser
<1>2. user' \in UserRows /\ known' \in Nat /\ DOMAIN jar' = Jars
  BY <1>1 DEF SessionsInv, SessionsTyped
<1>3. CASE Ends(c) /\ UNCHANGED token
  BY <1>1, <1>2, <1>3, CallMoves
<1>4. CASE Move(c, "bye") /\ RevokeFamily(token[call[c].tok].family, call[c].tok)
  <2>1. /\ token' \in Seq(Tokens) /\ Len(token') = Len(token) /\ Len(token) \in Nat
        /\ \A u \in DOMAIN token' : u \in DOMAIN token /\ token'[u].family = token[u].family
    BY <1>4, RevokeFacts
  <2>2. Proper([call[c] EXCEPT !.pc = "bye"])
    BY Moved DEF Others, Steps, SessionsInv
  <2>3. /\ call' = [call EXCEPT ![c] = [call[c] EXCEPT !.pc = "bye"]] /\ UNCHANGED flight
    BY <1>4 DEF Move, UnchangedBut
  <2>4. DOMAIN call' = Calls /\ \A d \in Calls : Proper(call'[d])
    BY <2>2, <2>3 DEF SessionsInv, SessionsTyped
  <2>5. DOMAIN flight' = Pages /\ \A p \in Pages : Flying(flight'[p])
    BY <2>3 DEF SessionsInv, SessionsTyped
  <2>6. Len(token') >= Len(token)
    BY <2>1
  <2>7. /\ \A d \in Calls : Proper(call[d])'
        /\ \A p \in Pages : Flying(flight[p])'
    BY <1>1, <2>1, <2>4, <2>5, <2>6, StaysProper, StaysFlying
  <2>8. \A j \in Jars : /\ jar'[j] \in [access : Accesses, refresh : Nat]
                        /\ jar'[j].refresh <= Len(token')
    BY <1>1, <2>1 DEF SessionsInv
  <2> QED
    BY <1>1, <1>2, <2>1, <2>4, <2>5, <2>7, <2>8, TokensKeep
<1> QED
  BY <1>3, <1>4 DEF LogoutRevoke

(* Handlers of one request that touch neither sessions nor cookies.         *)
LEMMA RequestKeeps ==
  ASSUME SessionsInv, NEW c \in Calls, Authenticate(c) \/ CallFails(c)
  PROVE  SessionsInv'
<1>1. UNCHANGED <<user, mandatory, known, token, pageOf, jarOf, jar, verified>>
  BY DEF Authenticate, CallFails, account, browser, history
<1>2. user' \in UserRows /\ known' \in Nat
  BY <1>1 DEF SessionsInv, SessionsTyped
<1> QED
  BY <1>1, <1>2, CallMoves DEF Authenticate, CallFails, Others, Steps

(* A refresh that ends, with whoever waited for it.                         *)
LEMMA SettledKeeps ==
  ASSUME SessionsInv, NEW p \in Pages, NEW ok \in BOOLEAN, NEW cookies,
         ok => cookies.access \in Accesses, Settle(p, ok, cookies),
         UNCHANGED <<user, mandatory, known, token, pageOf, jarOf, verified>>,
         DOMAIN jar' = Jars,
         \A j \in Jars : /\ jar'[j] \in [access : Accesses, refresh : Nat]
                         /\ jar'[j].refresh <= Len(token)
  PROVE  SessionsInv'
BY SettleKeeps, RestKeeps

(* A refresh that goes on.                                                  *)
LEMMA FlightKeeps ==
  ASSUME SessionsInv, NEW p \in Pages, NEW f, Flying(f), flight' = [flight EXCEPT ![p] = f],
         UNCHANGED <<user, mandatory, known, token, pageOf, jarOf, jar, call, verified>>
  PROVE  SessionsInv'
<1>1. ASSUME NEW q \in Pages PROVE Flying(flight'[q])
  <2>1. flight'[q] = IF q = p THEN f ELSE flight[q]
    BY DEF SessionsInv, SessionsTyped
  <2> QED
    BY <2>1 DEF SessionsInv
<1>2. DOMAIN flight' = Pages /\ DOMAIN call' = Calls /\ DOMAIN jar' = Jars
  BY DEF SessionsInv, SessionsTyped
<1>3. \A c \in Calls : Proper(call'[c])
  BY DEF SessionsInv
<1>4. \A j \in Jars : /\ jar'[j] \in [access : Accesses, refresh : Nat]
                      /\ jar'[j].refresh <= Len(token)
  BY DEF SessionsInv
<1> QED
  BY <1>1, <1>2, <1>3, <1>4, RestKeeps

LEMMA RefreshReadKeeps ==
  ASSUME SessionsInv, NEW p \in Pages, RefreshRead(p)
  PROVE  SessionsInv'
<1>1. UNCHANGED <<user, mandatory, known, token, pageOf, jarOf, jar, verified>>
  BY DEF RefreshRead, account, browser
<1>2. Flying(flight[p]) /\ user \in UserRows /\ DOMAIN jar = Jars
  BY DEF SessionsInv, SessionsTyped
<1>3. CASE Settle(p, FALSE, NoAccess)
  <2>1. \A j \in Jars : /\ jar'[j] \in [access : Accesses, refresh : Nat]
                        /\ jar'[j].refresh <= Len(token)
    BY <1>1 DEF SessionsInv
  <2> QED
    BY <1>1, <1>2, <1>3, <2>1, SettledKeeps
<1>4. CASE flight[p].tok # 0 /\ flight' = [flight EXCEPT ![p].pc = "reuse"] /\ UNCHANGED call
  <2>1. Flying([flight[p] EXCEPT !.pc = "reuse"])
    BY <1>2, <1>4 DEF Flying, Flights
  <2>2. flight' = [flight EXCEPT ![p] = [flight[p] EXCEPT !.pc = "reuse"]]
    BY <1>4
  <2> QED
    BY <1>1, <1>4, <2>1, <2>2, FlightKeeps
<1>5. CASE /\ flight[p].tok # 0 /\ UNCHANGED call
           /\ flight' = [flight EXCEPT ![p].pc = "read", ![p].mfa = user.mfa]
  <2>1. Flying([flight[p] EXCEPT !.pc = "read", !.mfa = user.mfa])
    BY <1>2, <1>5 DEF Flying, Flights, UserRows
  <2>2. flight' = [flight EXCEPT ![p] = [flight[p] EXCEPT !.pc = "read", !.mfa = user.mfa]]
    BY <1>5
  <2> QED
    BY <1>1, <1>5, <2>1, <2>2, FlightKeeps
<1> QED
  BY <1>3, <1>4, <1>5 DEF RefreshRead

LEMMA RefreshRevokesKeeps ==
  ASSUME SessionsInv, NEW p \in Pages, RefreshRevokes(p)
  PROVE  SessionsInv'
<1>1. /\ UNCHANGED <<user, mandatory, known, pageOf, jarOf, jar, verified>>
      /\ RevokeFamily(token[flight[p].tok].family, flight[p].tok)
      /\ Settle(p, FALSE, NoAccess)
  BY DEF RefreshRevokes, account, browser
<1>2. /\ token' \in Seq(Tokens) /\ Len(token') = Len(token) /\ Len(token) \in Nat
      /\ \A u \in DOMAIN token' : u \in DOMAIN token /\ token'[u].family = token[u].family
  BY <1>1, RevokeFacts
<1>3. /\ DOMAIN call' = Calls /\ DOMAIN flight' = Pages
      /\ \A c \in Calls : Proper(call'[c])
      /\ \A q \in Pages : Flying(flight'[q])
  BY <1>1, SettleKeeps
<1>4. /\ \A c \in Calls : Proper(call[c])'
      /\ \A q \in Pages : Flying(flight[q])'
  <2>1. Len(token') \in Nat /\ Len(token') >= Len(token)
    BY <1>2
  <2> QED
    BY <1>1, <1>2, <1>3, <2>1, StaysProper, StaysFlying
<1>5. \A j \in Jars : /\ jar'[j] \in [access : Accesses, refresh : Nat]
                      /\ jar'[j].refresh <= Len(token')
  BY <1>1, <1>2 DEF SessionsInv
<1>6. DOMAIN jar' = Jars
  BY <1>1 DEF SessionsInv, SessionsTyped
<1> QED
  BY <1>1, <1>2, <1>3, <1>4, <1>5, <1>6, TokensKeep

LEMMA RefreshRotateKeeps ==
  ASSUME SessionsInv, NEW p \in Pages, RefreshRotate(p)
  PROVE  SessionsInv'
<1> DEFINE t == flight[p].tok
           old == [token EXCEPT ![t].status = "revoked"]
           new == [family |-> token[t].family, status |-> "live"]
           f == [flight[p] EXCEPT !.pc = "rotated", !.tok = Len(token) + 1]
<1>1. /\ token' = Append(old, new) /\ flight' = [flight EXCEPT ![p] = f]
      /\ UNCHANGED <<user, mandatory, known, pageOf, jarOf, jar, call, verified>>
      /\ flight[p].pc = "read"
  BY DEF RefreshRotate, account, browser, history
<1>2. /\ Flying(flight[p]) /\ token \in Seq(Tokens) /\ Len(token) \in Nat
      /\ DOMAIN flight = Pages /\ DOMAIN call = Calls /\ DOMAIN jar = Jars
  BY DEF SessionsInv, SessionsTyped
<1>3. t \in DOMAIN token /\ token[t] \in Tokens
  BY <1>1, <1>2 DEF Flying, Flights
<1>4. new \in Tokens /\ new.family = token[t].family
  BY <1>3 DEF Tokens
<1>5. /\ old \in Seq(Tokens) /\ Len(old) = Len(token)
      /\ \A u \in DOMAIN token : old[u].family = token[u].family
  <2>1. [token[t] EXCEPT !.status = "revoked"] \in Tokens
        /\ [token[t] EXCEPT !.status = "revoked"].family = token[t].family
    BY <1>3 DEF Tokens
  <2>2. old = [token EXCEPT ![t] = [token[t] EXCEPT !.status = "revoked"]]
    OBVIOUS
  <2> HIDE DEF old
  <2> QED
    BY <1>2, <1>3, <2>1, <2>2
<1> DEFINE id == Len(token) + 1
<1>6. f \in Flights /\ f.tok = id /\ f.pc = "rotated"
  <2>1. id \in Nat /\ flight[p] \in Flights
    BY <1>2 DEF Flying
  <2>2. f = [flight[p] EXCEPT !.pc = "rotated", !.tok = id]
    OBVIOUS
  <2> HIDE DEF id, f
  <2> QED
    BY <2>1, <2>2 DEF Flights
<1> HIDE DEF old, new, f
<1>7. /\ token' \in Seq(Tokens) /\ Len(token') = id /\ DOMAIN token' = DOMAIN token \cup {id}
      /\ \A u \in DOMAIN token : token'[u].family = token[u].family
      /\ token'[id].family = token[t].family
  BY <1>1, <1>2, <1>4, <1>5
<1>8. \A c \in Calls : Proper(call[c])'
  <2>1. \A c \in Calls : Proper(call'[c])
    BY <1>1 DEF SessionsInv
  <2> QED
    BY <1>1, <1>2, <1>7, <2>1, StaysProper
<1>9. ASSUME NEW q \in Pages PROVE Flying(flight[q])'
  <2>1. CASE q = p
    <3>1. flight'[q] = f
      BY <1>1, <1>2, <2>1
    <3>2. f.tok <= Len(token') /\ f.tok # 0
      BY <1>2, <1>6, <1>7
    <3> QED
      BY <1>6, <3>1, <3>2 DEF Flying
  <2>2. CASE q # p
    <3>1. flight'[q] = flight[q] /\ Flying(flight[q])
      BY <1>1, <1>2, <2>2 DEF SessionsInv
    <3>2. Flying(flight'[q])
      BY <3>1
    <3> QED
      BY <1>2, <1>7, <3>2, StaysFlying
  <2> QED
    BY <2>1, <2>2
<1>10. \A j \in Jars : /\ jar'[j] \in [access : Accesses, refresh : Nat]
                       /\ jar'[j].refresh <= Len(token')
  BY <1>1, <1>2, <1>7 DEF SessionsInv
<1>11. \A u \in DOMAIN token' : \E v \in DOMAIN token : token'[u].family = token[v].family
  BY <1>3, <1>7
<1>12. DOMAIN jar' = Jars /\ DOMAIN call' = Calls /\ DOMAIN flight' = Pages
  BY <1>1, <1>2
<1> QED
  BY <1>1, <1>7, <1>8, <1>9, <1>10, <1>11, <1>12, TokensKeep

LEMMA RefreshAnswerKeeps ==
  ASSUME SessionsInv, NEW p \in Pages, RefreshAnswer(p)
  PROVE  SessionsInv'
<1> DEFINE cookies == SetSessionCookies(jarOf[p], flight[p].tok, flight[p].mfa)
<1>1. /\ flight[p].pc = "rotated" /\ jar' = cookies /\ Settle(p, TRUE, cookies[jarOf[p]])
      /\ UNCHANGED <<user, mandatory, known, token, pageOf, jarOf, verified>>
  BY DEF RefreshAnswer, account, history
<1>2. Flying(flight[p]) /\ jarOf[p] \in Jars /\ Len(token) \in Nat
  BY DEF SessionsInv, SessionsTyped
<1>3. flight[p].tok \in 1 .. Len(token) /\ flight[p].mfa \in BOOLEAN
  BY <1>1, <1>2 DEF Flying, Flights
<1>4. /\ DOMAIN cookies = Jars
      /\ \A j \in Jars : /\ cookies[j] \in [access : Accesses, refresh : Nat]
                         /\ cookies[j].access \in Accesses
                         /\ cookies[j].refresh <= Len(token)
  BY <1>2, <1>3, CookiesSet
<1> HIDE DEF cookies
<1>5. cookies[jarOf[p]].access \in Accesses
  BY <1>2, <1>4
<1> QED
  BY <1>1, <1>4, <1>5, SettledKeeps

LEMMA RefreshEndsKeeps ==
  ASSUME SessionsInv, NEW p \in Pages, RefreshFails(p) \/ ClearFlight(p)
  PROVE  SessionsInv'
<1>1. UNCHANGED <<user, mandatory, known, token, pageOf, jarOf, jar, verified>>
  BY DEF RefreshFails, ClearFlight, account, browser, history
<1>2. CASE RefreshFails(p)
  <2>1. Settle(p, FALSE, NoAccess)
    BY <1>2 DEF RefreshFails
  <2>2. /\ DOMAIN jar' = Jars
        /\ \A j \in Jars : /\ jar'[j] \in [access : Accesses, refresh : Nat]
                           /\ jar'[j].refresh <= Len(token)
    BY <1>1 DEF SessionsInv, SessionsTyped
  <2> QED
    BY <1>1, <2>1, <2>2, SettledKeeps
<1>3. CASE ClearFlight(p)
  <2>1. flight' = [flight EXCEPT ![p] = NoFlight] /\ UNCHANGED call
    BY <1>3 DEF ClearFlight
  <2>2. NoFlight \in Flights /\ NoFlight.tok = 0 /\ NoFlight.pc = "none"
    BY DEF NoFlight, Flights
  <2>3. Flying(NoFlight)
    BY <2>2 DEF Flying, SessionsInv, SessionsTyped
  <2> QED
    BY <1>1, <2>1, <2>3, FlightKeeps
<1> QED
  BY <1>2, <1>3

LEMMA ExpiryKeeps ==
  ASSUME SessionsInv,
         \/ \E j \in Jars : AccessExpires(j)
         \/ \E t \in DOMAIN token : RefreshExpires(t)
         \/ LockExpires \/ Disable
  PROVE  SessionsInv'
<1>1. ASSUME NEW j \in Jars, AccessExpires(j) PROVE SessionsInv'
  <2>1. /\ jar' = [jar EXCEPT ![j].access = NoAccess] /\ UNCHANGED <<call, flight>>
        /\ UNCHANGED <<user, mandatory, known, token, pageOf, jarOf, verified>>
    BY <1>1 DEF AccessExpires, account, history
  <2>2. NoAccess \in Accesses
    BY DEF NoAccess, Accesses
  <2>3. /\ DOMAIN jar' = Jars
        /\ \A i \in Jars : /\ jar'[i] \in [access : Accesses, refresh : Nat]
                           /\ jar'[i].refresh <= Len(token)
    BY <2>1, <2>2 DEF SessionsInv, SessionsTyped
  <2> QED
    BY <2>1, <2>3, RestKeeps DEF SessionsInv, SessionsTyped
<1>2. ASSUME NEW t \in DOMAIN token, RefreshExpires(t) PROVE SessionsInv'
  <2>1. /\ token' = [token EXCEPT ![t].status = "expired"]
        /\ UNCHANGED <<user, mandatory, known, pageOf, jarOf, jar, call, flight, verified>>
    BY <1>2 DEF RefreshExpires, account, browser, history
  <2>2. token \in Seq(Tokens) /\ Len(token) \in Nat /\ token[t] \in Tokens
    BY DEF SessionsInv, SessionsTyped
  <2>3. [token[t] EXCEPT !.status = "expired"] \in Tokens
        /\ [token[t] EXCEPT !.status = "expired"].family = token[t].family
    BY <2>2 DEF Tokens
  <2>4. /\ token' \in Seq(Tokens) /\ Len(token') = Len(token) /\ DOMAIN token' = DOMAIN token
        /\ \A u \in DOMAIN token : token'[u].family = token[u].family
    BY <2>1, <2>2, <2>3
  <2> QED
    BY <2>1, <2>4 DEF SessionsInv, SessionsTyped, Proper, Flying, MandatoryVerified
<1>3. CASE LockExpires \/ Disable
  <2>1. /\ user' \in {[user EXCEPT !.locked = FALSE], [user EXCEPT !.active = FALSE]}
        /\ UNCHANGED <<mandatory, known, token, pageOf, jarOf, jar, call, flight, verified>>
    BY <1>3 DEF LockExpires, Disable, UserIs, browser, history
  <2>2. user' \in UserRows
    BY <2>1 DEF SessionsInv, SessionsTyped, UserRows
  <2> QED
    BY <2>1, <2>2 DEF SessionsInv, SessionsTyped, Proper, Flying, MandatoryVerified
<1> QED
  BY <1>1, <1>2, <1>3

LEMMA SessionsStepKeeps == SessionsInv /\ [SessionsNext]_sessionsVars => SessionsInv'
<1> SUFFICES ASSUME SessionsInv, [SessionsNext]_sessionsVars PROVE SessionsInv'
  OBVIOUS
<1>1. ASSUME NEW c \in Calls, NEW k \in Kinds, NEW right \in BOOLEAN,
             NEW code \in NoCode .. known, Send(c, k, right, code)
      PROVE  SessionsInv'
  <2>1. code \in Nat
    BY DEF NoCode, SessionsInv, SessionsTyped
  <2> QED
    BY <1>1, <2>1, SendKeeps
<1>2. ASSUME NEW c \in Calls, Unauthorized(c) PROVE SessionsInv'
  BY <1>2, UnauthorizedKeeps
<1>3. ASSUME NEW c \in Calls, Authenticate(c) \/ CallFails(c) PROVE SessionsInv'
  BY <1>3, RequestKeeps
<1>4. ASSUME NEW c \in Calls, LoginRead(c) \/ RegisterFailedLogin(c) \/ LoginReset(c)
      PROVE  SessionsInv'
  BY <1>4, LoginKeeps
<1>5. ASSUME NEW c \in Calls,
             BeginRead(c) \/ BeginWrite(c) \/ ActivateRead(c) \/ CompleteRead(c) \/ EnableMfa(c)
      PROVE  SessionsInv'
  BY <1>5, EnrolmentKeeps
<1>6. ASSUME NEW c \in Calls, IssueSession(c) PROVE SessionsInv'
  BY <1>6, IssueSessionKeeps
<1>7. ASSUME NEW c \in Calls, SignedIn(c) \/ LoggedOut(c) PROVE SessionsInv'
  BY <1>7, AnswerKeeps
<1>8. ASSUME NEW c \in Calls, LogoutRevoke(c) PROVE SessionsInv'
  BY <1>8, LogoutRevokeKeeps
<1>9. ASSUME NEW p \in Pages,
             \/ RefreshRead(p) \/ RefreshRevokes(p) \/ RefreshRotate(p) \/ RefreshAnswer(p)
             \/ RefreshFails(p) \/ ClearFlight(p)
      PROVE  SessionsInv'
  BY <1>9, RefreshReadKeeps, RefreshRevokesKeeps, RefreshRotateKeeps, RefreshAnswerKeeps,
     RefreshEndsKeeps
<1>10. CASE \/ \E j \in Jars : AccessExpires(j)
            \/ \E t \in DOMAIN token : RefreshExpires(t)
            \/ LockExpires \/ Disable
  BY <1>10, ExpiryKeeps
<1>11. CASE UNCHANGED sessionsVars
  BY <1>11 DEF sessionsVars, account, browser, history, SessionsInv, SessionsTyped,
               Proper, Flying, MandatoryVerified
<1> QED
  BY <1>1, <1>2, <1>3, <1>4, <1>5, <1>6, <1>7, <1>8, <1>9, <1>10, <1>11 DEF SessionsNext

LEMMA SessionsInvariance == SessionsSpec => []SessionsInv
<1> QED
  BY SessionsInitEstablishes, SessionsStepKeeps, PTL DEF SessionsSpec

(* No session of an account that must have a second factor begins without a *)
(* code, however many sign-ins, enrolments and refreshes overlap.           *)
THEOREM MandatoryFactorHolds == SessionsSpec => []MandatoryVerified
<1>1. SessionsInv => MandatoryVerified
  BY DEF SessionsInv
<1> QED
  BY <1>1, SessionsInvariance, PTL

(* A lock ends by its expiry, or by the write of a request that had read the*)
(* row before the account was locked, and by nothing else.                  *)
THEOREM LocksHold == SessionsSpec => LockHolds
<1> DEFINE Excused == \/ LockExpires
                      \/ \E c \in Calls : call[c].pc \in {"fail", "reset"} /\ ~call[c].row.locked
<1>1. ASSUME SessionsInv, SessionsNext, user.locked, ~user'.locked PROVE Excused
  <2>1. user \in UserRows
    BY <1>1 DEF SessionsInv, SessionsTyped
  <2>2. ASSUME NEW c \in Calls, RegisterFailedLogin(c) \/ LoginReset(c) PROVE Excused
    <3>1. call[c].pc \in {"fail", "reset"}
      BY <2>2 DEF RegisterFailedLogin, LoginReset, At
    <3> QED
      BY <1>1, <3>1 DEF SessionsInv, Proper
  <2>3. ASSUME NEW c \in Calls, BeginWrite(c) \/ EnableMfa(c) PROVE FALSE
    <3>1. user' \in {[user EXCEPT !.secret = known + 1, !.mfa = FALSE], [user EXCEPT !.mfa = TRUE]}
      BY <2>3 DEF BeginWrite, EnableMfa, UserIs
    <3> QED
      BY <1>1, <2>1, <3>1 DEF UserRows
  <2>4. ~Disable
    <3>1. Disable => user'.locked = user.locked
      BY <2>1 DEF Disable, UserIs, UserRows
    <3> QED
      BY <1>1, <3>1
  <2>5. user' # user
    BY <1>1
  <2>6. ASSUME NEW c \in Calls,
               \/ \E k \in Kinds, right \in BOOLEAN, code \in NoCode .. known : Send(c, k, right, code)
               \/ Unauthorized(c) \/ Authenticate(c) \/ LoginRead(c)
               \/ BeginRead(c) \/ ActivateRead(c) \/ CompleteRead(c)
               \/ IssueSession(c) \/ SignedIn(c) \/ LogoutRevoke(c) \/ LoggedOut(c) \/ CallFails(c)
        PROVE  FALSE
    BY <2>5, <2>6 DEF Send, Unauthorized, Authenticate, LoginRead, BeginRead, ActivateRead,
                      CompleteRead, IssueSession, SignedIn, LogoutRevoke, LoggedOut, CallFails, account
  <2>7. ASSUME NEW p \in Pages,
               \/ RefreshRead(p) \/ RefreshRevokes(p) \/ RefreshRotate(p) \/ RefreshAnswer(p)
               \/ RefreshFails(p) \/ ClearFlight(p)
        PROVE  FALSE
    BY <2>5, <2>7 DEF RefreshRead, RefreshRevokes, RefreshRotate, RefreshAnswer, RefreshFails,
                      ClearFlight, account
  <2>8. ~(\E j \in Jars : AccessExpires(j)) /\ ~(\E t \in DOMAIN token : RefreshExpires(t))
    BY <2>5 DEF AccessExpires, RefreshExpires, account
  <2> QED
    BY <1>1, <2>2, <2>3, <2>4, <2>6, <2>7, <2>8 DEF SessionsNext
<1>2. SessionsInv /\ [SessionsNext]_sessionsVars
        => [user.locked /\ ~user'.locked => Excused]_sessionsVars
  BY <1>1
<1> QED
  BY <1>2, SessionsInvariance, PTL DEF SessionsSpec, LockHolds
-----------------------------------------------------------------------------
(* Refresh tokens.  What a family needs to be rotated safely: one browser   *)
(* holds it, and unless it is excused, one request at a time uses it and    *)
(* presents its newest token.                                               *)

Of(f)   == {t \in DOMAIN token : token[t].family = f}
Carries == {"sent", "read", "reuse", "rotated"}

(* Who holds a token of the family: refreshes, sign-outs, answers to a      *)
(* sign-in, cookies.                                                        *)
Flyers(f)  == {p \in Pages : flight[p].pc \in Carries /\ flight[p].tok \in Of(f)}
Leavers(f) == {c \in Calls : call[c].kind = "logout" /\ call[c].tok \in Of(f)}
Replies(f) == {c \in Calls : call[c].pc = "reply" /\ call[c].tok \in Of(f)}
Keepers(f) == {j \in Jars : jar[j].refresh \in Of(f)}

Home(f) ==
  Keepers(f) \cup {jarOf[p] : p \in Flyers(f)} \cup {Jar(c) : c \in Leavers(f) \cup Replies(f)}
OneBrowser(f) == \E j \in Jars : Home(f) \subseteq {j}

Current(f, t) == token[t].status # "revoked" /\ \A u \in Of(f) : u <= t

(* The cookie's token has been replaced, or revoked, and the answer that    *)
(* says so is on its way.                                                   *)
Changing(f) ==
  \/ \E p \in Flyers(f) : flight[p].pc = "rotated"
  \/ \E c \in Leavers(f) : call[c].pc = "bye"

InTurn(f) ==
  /\ \A t, u \in Of(f) : t < u => token[t].status = "revoked"
  /\ \A p, q \in Flyers(f) : p = q
  /\ \A c, d \in Leavers(f) : c = d
  /\ Flyers(f) = {} \/ Leavers(f) = {}
  /\ \A p \in Flyers(f) : flight[p].pc # "reuse" /\ Current(f, flight[p].tok)
  /\ Changing(f) \/ \A j \in Keepers(f) : Current(f, jar[j].refresh)
  /\ \A c \in Replies(f) : /\ Current(f, call[c].tok) /\ Replies(f) = {c}
                           /\ Flyers(f) = {} /\ Leavers(f) = {} /\ Keepers(f) = {}

FamiliesBegin == \A t \in DOMAIN token : token[t].family \in 1 .. t
Leaving ==
  \A c \in Calls : call[c].kind = "logout"
    => call[c].pc \in {"sent", "bye"} /\ call[c].tok \in 0 .. Len(token)
Orderly == \A f \in 1 .. Len(token) : OneBrowser(f) /\ (f \notin excused => InTurn(f))

(* A revoked family whose last refresh had not read its token yet stays so: *)
(* no token is live, and none can be read as if it were.                    *)
Closed ==
  \A f \in ended : /\ f \in 1 .. Len(token)
                   /\ \A t \in Of(f) : token[t].status # "live"
                   /\ \A p \in Flyers(f) : flight[p].pc # "read"

TokensInv == FamiliesBegin /\ Leaving /\ Orderly /\ AlarmsExplained /\ Closed

(* What a step leaves alone.                                                *)
SameTokens(f) ==
  /\ Of(f)' = Of(f)
  /\ \A t \in Of(f) : token'[t].status = "revoked" <=> token[t].status = "revoked"
Rests(f) ==
  /\ \A p \in Flyers(f)' : /\ p \in Flyers(f) /\ flight'[p].tok = flight[p].tok
                           /\ flight'[p].pc = "reuse" => flight[p].pc = "reuse"
  /\ Leavers(f)' \subseteq Leavers(f)
  /\ \A c \in Replies(f)' : c \in Replies(f) /\ call'[c].tok = call[c].tok
  /\ \A j \in Keepers(f)' : j \in Keepers(f) /\ jar'[j].refresh = jar[j].refresh
  /\ Changing(f) => Changing(f)' \/ Keepers(f)' = {}
CallsRest ==
  \A c \in Calls :
    /\ call'[c].kind = "logout" \/ call'[c].pc = "reply" => call'[c] = call[c]
    /\ call[c].kind = "logout" /\ call[c].pc = "bye" => call'[c] = call[c]
FlightsRest ==
  \A p \in Pages :
    /\ flight'[p].pc \in Carries => flight[p].pc \in Carries /\ flight'[p].tok = flight[p].tok
    /\ flight'[p].pc \in {"reuse", "read"} => flight'[p].pc = flight[p].pc
    /\ flight[p].pc = "rotated" => flight'[p] = flight[p]
CookiesRest == \A j \in Jars : jar'[j].refresh = jar[j].refresh
-----------------------------------------------------------------------------
LEMMA RestsHome ==
  ASSUME NEW f, Rests(f), OneBrowser(f), UNCHANGED <<pageOf, jarOf>>
  PROVE  OneBrowser(f)'
<1>1. Home(f)' \subseteq Home(f)
  BY DEF Rests, Home, Jar
<1> QED
  BY <1>1 DEF OneBrowser

LEMMA RestsInTurn ==
  ASSUME NEW f, Rests(f), SameTokens(f), InTurn(f)
  PROVE  InTurn(f)'
<1>1. Of(f)' = Of(f)
  BY DEF SameTokens
<1>2. \A t \in Of(f) : Current(f, t)' <=> Current(f, t)
  BY <1>1 DEF SameTokens, Current
<1>3. (\A t, u \in Of(f) : t < u => token[t].status = "revoked")'
  BY <1>1 DEF SameTokens, InTurn
<1>4. /\ \A p \in Flyers(f)' : p \in Flyers(f)
      /\ \A c \in Leavers(f)' : c \in Leavers(f)
      /\ \A c \in Replies(f)' : c \in Replies(f)
      /\ \A j \in Keepers(f)' : j \in Keepers(f)
  BY DEF Rests
<1>5. /\ (\A p, q \in Flyers(f) : p = q)'
      /\ (\A c, d \in Leavers(f) : c = d)'
      /\ (Flyers(f) = {} \/ Leavers(f) = {})'
  BY <1>4 DEF InTurn
<1>6. ASSUME NEW p \in Flyers(f)' PROVE flight'[p].pc # "reuse" /\ Current(f, flight[p].tok)'
  <2>1. p \in Flyers(f) /\ flight'[p].tok = flight[p].tok /\ flight[p].tok \in Of(f)
    BY DEF Rests, Flyers
  <2>2. Current(f, flight[p].tok)
    BY <2>1 DEF InTurn
  <2>3. Current(f, flight[p].tok)'
    BY <1>1, <2>1, <2>2 DEF Current, SameTokens
  <2> QED
    BY <2>1, <2>3 DEF InTurn, Rests
<1>7. (Changing(f) \/ \A j \in Keepers(f) : Current(f, jar[j].refresh))'
  <2>1. CASE Changing(f)
    BY <2>1 DEF Rests
  <2>2. ASSUME ~Changing(f), NEW j \in Keepers(f)' PROVE Current(f, jar[j].refresh)'
    <3>1. j \in Keepers(f) /\ jar'[j].refresh = jar[j].refresh /\ jar[j].refresh \in Of(f)
      BY DEF Rests, Keepers
    <3>2. Current(f, jar[j].refresh)
      BY <2>2, <3>1 DEF InTurn
    <3> QED
      BY <1>1, <3>1, <3>2 DEF Current, SameTokens
  <2> QED
    BY <2>1, <2>2
<1>8. ASSUME NEW c \in Replies(f)'
      PROVE  /\ Current(f, call[c].tok)' /\ Replies(f)' = {c}
             /\ Flyers(f)' = {} /\ Leavers(f)' = {} /\ Keepers(f)' = {}
  <2>1. c \in Replies(f) /\ call'[c].tok = call[c].tok /\ call[c].tok \in Of(f)
    BY DEF Rests, Replies
  <2>2. Current(f, call[c].tok) /\ Replies(f) = {c}
        /\ Flyers(f) = {} /\ Leavers(f) = {} /\ Keepers(f) = {}
    BY <2>1 DEF InTurn
  <2>3. Current(f, call[c].tok)'
    BY <1>1, <2>1, <2>2 DEF Current, SameTokens
  <2> QED
    BY <1>4, <2>2, <2>3
<1> QED
  BY <1>3, <1>5, <1>6, <1>7, <1>8 DEF InTurn

(* A step that acts on one family at most.                                  *)
LEMMA FamiliesKeep ==
  ASSUME Orderly, UNCHANGED <<pageOf, jarOf>>, excused \subseteq excused', NEW g,
         \A f \in 1 .. Len(token') : f # g => f \in 1 .. Len(token) /\ SameTokens(f) /\ Rests(f),
         g \in 1 .. Len(token') => OneBrowser(g)' /\ (g \notin excused' => InTurn(g)')
  PROVE  Orderly'
<1>1. ASSUME NEW f \in 1 .. Len(token'), f # g
      PROVE  OneBrowser(f)' /\ (f \notin excused' => InTurn(f)')
  <2>1. f \in 1 .. Len(token) /\ SameTokens(f) /\ Rests(f)
    BY <1>1
  <2>2. OneBrowser(f) /\ (f \notin excused => InTurn(f))
    BY <2>1 DEF Orderly
  <2> QED
    BY <2>1, <2>2, RestsHome, RestsInTurn
<1>2. \A f \in 1 .. Len(token') : OneBrowser(f)' /\ (f \notin excused' => InTurn(f)')
  BY <1>1
<1> QED
  BY <1>2 DEF Orderly

LEMMA AllRest ==
  ASSUME NEW f, SameTokens(f), CallsRest, FlightsRest, CookiesRest
  PROVE  Rests(f)
<1>1. Of(f)' = Of(f)
  BY DEF SameTokens
<1>2. Flyers(f)' \subseteq Flyers(f) /\ Leavers(f)' \subseteq Leavers(f)
      /\ Replies(f)' \subseteq Replies(f) /\ Keepers(f)' \subseteq Keepers(f)
  BY <1>1 DEF CallsRest, FlightsRest, CookiesRest, Flyers, Leavers, Replies, Keepers
<1>3. Changing(f) => Changing(f)'
  <2>1. ASSUME NEW p \in Flyers(f), flight[p].pc = "rotated" PROVE p \in Flyers(f)'
    BY <1>1, <2>1 DEF FlightsRest, Flyers
  <2>2. ASSUME NEW c \in Leavers(f), call[c].pc = "bye" PROVE c \in Leavers(f)'
    BY <1>1, <2>2 DEF CallsRest, Leavers
  <2> QED
    BY <2>1, <2>2 DEF Changing, FlightsRest, CallsRest, Flyers, Leavers
<1> QED
  BY <1>2, <1>3 DEF Rests, FlightsRest, CallsRest, CookiesRest, Flyers, Replies, Keepers

LEMMA QuietStep ==
  ASSUME SessionsInv, TokensInv, CallsRest, FlightsRest, CookiesRest, excused \subseteq excused',
         UNCHANGED <<token, pageOf, jarOf, ended, alarms>>
  PROVE  TokensInv'
<1>1. \A f : SameTokens(f)
  BY DEF SameTokens, Of
<1>2. \A f : Rests(f)
  BY <1>1, AllRest
<1>3. FamiliesBegin'
  BY DEF TokensInv, FamiliesBegin
<1>4. Leaving'
  BY DEF TokensInv, Leaving, CallsRest
<1>5. Orderly'
  <2>1. 0 \notin 1 .. Len(token')
    BY DEF SessionsInv, SessionsTyped
  <2> QED
    BY <1>1, <1>2, <2>1, FamiliesKeep DEF TokensInv
<1>6. Closed'
  <2> SUFFICES ASSUME NEW f \in ended
               PROVE  /\ f \in 1 .. Len(token') /\ \A t \in Of(f)' : token'[t].status # "live"
                      /\ \A p \in Flyers(f)' : flight'[p].pc # "read"
    BY DEF Closed
  <2>1. /\ f \in 1 .. Len(token) /\ \A t \in Of(f) : token[t].status # "live"
        /\ \A p \in Flyers(f) : flight[p].pc # "read"
    BY DEF TokensInv, Closed
  <2>2. Of(f)' = Of(f)
    BY <1>1 DEF SameTokens
  <2>3. ASSUME NEW p \in Flyers(f)', flight'[p].pc = "read" PROVE FALSE
    <3>1. p \in Flyers(f) /\ flight[p].pc = "read"
      BY <1>2, <2>3 DEF Rests, FlightsRest, Flyers
    <3> QED
      BY <2>1, <3>1
  <2> QED
    BY <2>1, <2>2, <2>3
<1> QED
  BY <1>3, <1>4, <1>5, <1>6 DEF TokensInv, AlarmsExplained

LEMMA CallRests ==
  ASSUME SessionsInv, TokensInv, NEW c \in Calls, NEW r, UnchangedBut(c, r),
         r.kind # "logout", r.pc # "reply", call[c].kind # "logout" \/ call[c].pc # "bye",
         UNCHANGED <<token, jar, pageOf, jarOf, ended, alarms, excused>>
  PROVE  TokensInv'
<1>1. ASSUME NEW d \in Calls PROVE call'[d] = IF d = c THEN r ELSE call[d]
  BY DEF UnchangedBut, SessionsInv, SessionsTyped
<1>2. CallsRest
  BY <1>1 DEF CallsRest
<1>3. FlightsRest /\ CookiesRest
  BY DEF UnchangedBut, FlightsRest, CookiesRest
<1> QED
  BY <1>2, <1>3, QuietStep

LEMMA MoveRests ==
  ASSUME SessionsInv, TokensInv, NEW c \in Calls, call[c].kind # "logout",
         \/ Ends(c)
         \/ \E pc \in Steps \ {"reply"} : Move(c, pc)
         \/ \E pc \in Steps \ {"reply"} : \E row :
              UnchangedBut(c, [call[c] EXCEPT !.pc = pc, !.row = row])
         \/ \E pc \in Steps \ {"reply"} : \E proven :
              UnchangedBut(c, [call[c] EXCEPT !.pc = pc, !.proven = proven]),
         UNCHANGED <<token, jar, pageOf, jarOf, ended, alarms, excused>>
  PROVE  TokensInv'
<1>1. call[c] \in CallRecords
  BY DEF SessionsInv, Proper
<1>2. CASE Ends(c)
  BY <1>2, CallRests DEF Ends, Idle
<1>3. ASSUME NEW pc \in Steps \ {"reply"}, Move(c, pc) PROVE TokensInv'
  <2> DEFINE r == [call[c] EXCEPT !.pc = pc]
  <2>1. r.kind # "logout" /\ r.pc # "reply"
    BY <1>1 DEF CallRecords
  <2> HIDE DEF r
  <2> QED
    BY <1>3, <2>1, CallRests DEF Move, r
<1>4. ASSUME NEW pc \in Steps \ {"reply"}, NEW row,
             UnchangedBut(c, [call[c] EXCEPT !.pc = pc, !.row = row])
      PROVE TokensInv'
  <2> DEFINE r == [call[c] EXCEPT !.pc = pc, !.row = row]
  <2>1. r.kind # "logout" /\ r.pc # "reply"
    BY <1>1 DEF CallRecords
  <2> HIDE DEF r
  <2> QED
    BY <1>4, <2>1, CallRests DEF r
<1>5. ASSUME NEW pc \in Steps \ {"reply"}, NEW proven,
             UnchangedBut(c, [call[c] EXCEPT !.pc = pc, !.proven = proven])
      PROVE TokensInv'
  <2> DEFINE r == [call[c] EXCEPT !.pc = pc, !.proven = proven]
  <2>1. r.kind # "logout" /\ r.pc # "reply"
    BY <1>1 DEF CallRecords
  <2> HIDE DEF r
  <2> QED
    BY <1>5, <2>1, CallRests DEF r
<1> QED
  BY <1>2, <1>3, <1>4, <1>5

LEMMA OutcomeRests ==
  ASSUME SessionsInv, TokensInv, NEW c \in Calls, call[c].kind # "logout", NEW row, Outcome(c, row),
         UNCHANGED <<token, jar, pageOf, jarOf, ended, alarms, excused>>
  PROVE  TokensInv'
<1>1. CASE Ends(c) \/ Move(c, "denied")
  BY <1>1, MoveRests DEF Steps
<1>2. CASE UnchangedBut(c, [call[c] EXCEPT !.pc = "issue", !.proven = row.mfa, !.row = NoRow])
  <2> DEFINE r == [call[c] EXCEPT !.pc = "issue", !.proven = row.mfa, !.row = NoRow]
  <2>1. r.kind # "logout" /\ r.pc # "reply"
    BY DEF SessionsInv, Proper, CallRecords
  <2> HIDE DEF r
  <2> QED
    BY <1>2, <2>1, CallRests DEF r
<1> QED
  BY <1>1, <1>2 DEF Outcome

(* Handlers that hold no refresh token.                                     *)
LEMMA HandlersRest ==
  ASSUME SessionsInv, TokensInv, NEW c \in Calls,
         \/ Authenticate(c) \/ LoginRead(c) \/ RegisterFailedLogin(c) \/ LoginReset(c)
         \/ BeginRead(c) \/ BeginWrite(c) \/ ActivateRead(c) \/ CompleteRead(c) \/ EnableMfa(c)
  PROVE  TokensInv'
<1>1. UNCHANGED <<token, jar, pageOf, jarOf, ended, alarms, excused>>
  BY DEF Authenticate, LoginRead, RegisterFailedLogin, LoginReset, BeginRead, BeginWrite,
         ActivateRead, CompleteRead, EnableMfa, account, browser, history
<1>2. call[c].kind # "logout"
  BY DEF Authenticate, LoginRead, RegisterFailedLogin, LoginReset, BeginRead, BeginWrite,
         ActivateRead, CompleteRead, EnableMfa, At, InSession
<1>3. CASE Authenticate(c) \/ BeginRead(c) \/ BeginWrite(c) \/ ActivateRead(c) \/ EnableMfa(c)
  <2>1. Ends(c) \/ \E pc \in Steps \ {"reply"} : Move(c, pc)
    BY <1>3 DEF Authenticate, BeginRead, BeginWrite, ActivateRead, EnableMfa, Steps
  <2> QED
    BY <1>1, <1>2, <2>1, MoveRests
<1>4. CASE LoginRead(c)
  <2>1. \/ Move(c, "denied") \/ Outcome(c, user)
        \/ UnchangedBut(c, [call[c] EXCEPT !.pc = "fail", !.row = user])
        \/ UnchangedBut(c, [call[c] EXCEPT !.pc = "reset", !.row = user])
    BY <1>4 DEF LoginRead
  <2> QED
    BY <1>1, <1>2, <2>1, MoveRests, OutcomeRests DEF Steps
<1>5. CASE RegisterFailedLogin(c)
  <2>1. UnchangedBut(c, [call[c] EXCEPT !.pc = "denied", !.row = NoRow])
    BY <1>5 DEF RegisterFailedLogin
  <2> QED
    BY <1>1, <1>2, <2>1, MoveRests DEF Steps
<1>6. CASE LoginReset(c)
  BY <1>1, <1>2, <1>6, OutcomeRests DEF LoginReset
<1>7. CASE CompleteRead(c)
  <2>1. \/ Ends(c) \/ Move(c, "denied")
        \/ \E pc \in {"enable", "issue"} :
             UnchangedBut(c, [call[c] EXCEPT !.pc = pc, !.proven = TRUE])
    BY <1>7 DEF CompleteRead
  <2> QED
    BY <1>1, <1>2, <2>1, MoveRests DEF Steps
<1> QED
  BY <1>3, <1>4, <1>5, <1>6, <1>7

(* The families that a step does not act on.                                *)
LEMMA AwayRests ==
  ASSUME NEW f, SameTokens(f),
         \A c \in Calls : c \in Leavers(f) \cup Replies(f) \cup Leavers(f)' \cup Replies(f)'
           => call'[c] = call[c],
         \A p \in Pages : p \in Flyers(f) \cup Flyers(f)' => flight'[p] = flight[p],
         \A j \in Jars : j \in Keepers(f)' => jar'[j].refresh = jar[j].refresh
  PROVE  Rests(f)
<1>1. Of(f)' = Of(f)
  BY DEF SameTokens
<1>2. /\ \A p \in Flyers(f)' : p \in Flyers(f) /\ flight'[p] = flight[p]
      /\ \A c \in Leavers(f)' : c \in Leavers(f)
      /\ \A c \in Replies(f)' : c \in Replies(f) /\ call'[c] = call[c]
      /\ \A j \in Keepers(f)' : j \in Keepers(f) /\ jar'[j].refresh = jar[j].refresh
  BY <1>1 DEF Flyers, Leavers, Replies, Keepers
<1>3. /\ \A p \in Flyers(f) : p \in Flyers(f)' /\ flight'[p] = flight[p]
      /\ \A c \in Leavers(f) : c \in Leavers(f)' /\ call'[c] = call[c]
  BY <1>1 DEF Flyers, Leavers
<1>4. Changing(f) => Changing(f)'
  BY <1>3 DEF Changing
<1> QED
  BY <1>2, <1>4 DEF Rests

LEMMA NoneCarries ==
  ASSUME SessionsInv, NEW f, Carrying(f) = {}
  PROVE  Flyers(f) = {} /\ Leavers(f) = {}
<1>1. \A t \in Of(f) : t # 0 /\ token[t].family = f
  BY DEF Of, SessionsInv, SessionsTyped
<1> QED
  BY <1>1 DEF Carrying, Flyers, Leavers, Carries

LEMMA SettleRests ==
  ASSUME SessionsInv, TokensInv, NEW p \in Pages, NEW ok, NEW cookies, Settle(p, ok, cookies)
  PROVE  /\ CallsRest
         /\ flight'[p].pc = "settled"
         /\ \A q \in Pages : q # p => flight'[q] = flight[q]
<1>1. /\ DOMAIN flight = Pages
      /\ flight' = [flight EXCEPT ![p] = [NoFlight EXCEPT !.pc = "settled", !.ok = ok]]
  BY DEF Settle, SessionsInv, SessionsTyped
<1>2. flight'[p].pc = "settled" /\ \A q \in Pages : q # p => flight'[q] = flight[q]
  BY <1>1 DEF NoFlight
<1>3. ASSUME NEW c \in Calls
      PROVE  /\ call'[c].kind = "logout" \/ call'[c].pc = "reply" => call'[c] = call[c]
             /\ call[c].kind = "logout" /\ call[c].pc = "bye" => call'[c] = call[c]
  <2>1. CASE ~(pageOf[c] = p /\ call[c].pc = "waiting")
    BY <2>1 DEF Settle
  <2>2. CASE pageOf[c] = p /\ call[c].pc = "waiting"
    <3>1. call'[c] = Continued(call[c], ok, cookies)
      BY <2>2 DEF Settle
    <3>2. call[c].kind # "logout" /\ call[c] \in CallRecords
      BY <2>2 DEF TokensInv, Leaving, SessionsInv, Proper
    <3>3. Continued(call[c], ok, cookies).kind # "logout"
          /\ Continued(call[c], ok, cookies).pc # "reply"
      BY <3>2 DEF Continued, Idle, CallRecords
    <3> QED
      BY <3>1, <3>2, <3>3
  <2> QED
    BY <2>1, <2>2
<1> QED
  BY <1>2, <1>3 DEF CallsRest

LEMMA SendOrders ==
  ASSUME SessionsInv, TokensInv, NEW c \in Calls, NEW k \in Kinds, NEW right, NEW code,
         Send(c, k, right, code)
  PROVE  TokensInv'
<1> DEFINE t == jar[Jar(c)].refresh
           r == [Idle EXCEPT !.kind = k, !.pc = "sent", !.right = right, !.code = code,
                   !.access = IF k \in InSession THEN jar[Jar(c)].access ELSE NoAccess,
                   !.tok = IF k = "logout" THEN t ELSE 0]
<1>1. /\ call[c] = Idle /\ UnchangedBut(c, r)
      /\ UNCHANGED <<token, jar, pageOf, jarOf, ended, alarms>>
      /\ excused' = IF k = "logout" THEN Mixed(t) ELSE excused
  BY DEF Send, browser
<1>2. /\ r.kind = k /\ r.pc = "sent" /\ r.tok = (IF k = "logout" THEN t ELSE 0)
      /\ Idle.kind = "none" /\ Idle.pc = "idle"
  BY DEF Idle
<1> HIDE DEF r
<1>3. \A d \in Calls : call'[d] = IF d = c THEN r ELSE call[d]
  BY <1>1 DEF UnchangedBut, SessionsInv, SessionsTyped
<1>4. UNCHANGED flight /\ Len(token) \in Nat
  BY <1>1 DEF UnchangedBut, SessionsInv, SessionsTyped
<1>5. CASE k # "logout"
  BY <1>1, <1>2, <1>5, CallRests
<1>6. CASE k = "logout"
  <2>0. PICK g : g = token[t].family
    OBVIOUS
  <2>1. Jar(c) \in Jars /\ t \in 0 .. Len(token)
    <3>1. pageOf[c] \in Pages
      BY DEF SessionsInv, SessionsTyped
    <3> QED
      BY <3>1, CookiesTyped DEF Jar
  <2>2. \A f : SameTokens(f)
    BY <1>1 DEF SameTokens, Of
  <2>3. ASSUME NEW f, t \notin Of(f) PROVE Rests(f)
    <3>1. \A d \in Calls : d \in Leavers(f) \cup Replies(f) \cup Leavers(f)' \cup Replies(f)' => d # c
      BY <1>1, <1>2, <1>3, <1>6, <2>2, <2>3 DEF Leavers, Replies, SameTokens
    <3> QED
      BY <1>1, <1>3, <1>4, <2>2, <3>1, AwayRests
  <2>4. ASSUME t \in Of(g)
        PROVE  OneBrowser(g)' /\ (g \notin excused' => InTurn(g)')
    <3>1. t # 0 /\ g \in 1 .. Len(token)
      BY <2>0, <2>4 DEF Of, TokensInv, FamiliesBegin, SessionsInv, SessionsTyped
    <3>2. OneBrowser(g) /\ (g \notin excused => InTurn(g))
      BY <3>1 DEF TokensInv, Orderly
    <3>3. /\ Of(g)' = Of(g) /\ Flyers(g)' = Flyers(g) /\ Keepers(g)' = Keepers(g)
          /\ Leavers(g)' = Leavers(g) \cup {c} /\ Replies(g)' = Replies(g)
          /\ \A x : Current(g, x)' <=> Current(g, x)
      <4>1. Of(g)' = Of(g)
        BY <2>2 DEF SameTokens
      <4>2. Flyers(g)' = Flyers(g) /\ Keepers(g)' = Keepers(g)
        BY <1>1, <1>4, <4>1 DEF Flyers, Keepers
      <4>3. Leavers(g)' = Leavers(g) \cup {c}
        BY <1>2, <1>3, <1>6, <2>4, <4>1 DEF Leavers
      <4>4. Replies(g)' = Replies(g)
        BY <1>1, <1>2, <1>3, <4>1 DEF Replies
      <4>5. \A x : Current(g, x)' <=> Current(g, x)
        BY <1>1, <4>1 DEF Current
      <4> QED
        BY <4>1, <4>2, <4>3, <4>4, <4>5
    <3>4. Jar(c) \in Keepers(g)
      BY <2>1, <2>4 DEF Keepers
    <3>5. Home(g)' \subseteq Home(g)
      BY <1>1, <3>3, <3>4 DEF Home, Jar
    <3>6. OneBrowser(g)'
      BY <3>2, <3>5 DEF OneBrowser
    <3>7. ASSUME g \notin excused' PROVE InTurn(g)'
      <4>1. Carrying(g) = {} /\ g \notin excused
        BY <1>1, <1>6, <2>0, <3>1, <3>7 DEF Mixed
      <4>2. Flyers(g) = {} /\ Leavers(g) = {} /\ InTurn(g)
        BY <3>2, <4>1, NoneCarries
      <4>3. Replies(g) = {} /\ \A j \in Keepers(g) : Current(g, jar[j].refresh)
        BY <3>4, <4>2 DEF InTurn, Changing
      <4>4. \A x, y \in Of(g) : x < y => token[x].status = "revoked"
        BY <4>2 DEF InTurn
      <4> QED
        BY <1>1, <3>3, <4>2, <4>3, <4>4 DEF InTurn
    <3> QED
      BY <3>6, <3>7
  <2>5. excused \subseteq excused'
    BY <1>1 DEF Mixed
  <2>6. Orderly'
    <3>1. \A f : f # g => t \notin Of(f)
      BY <2>0 DEF Of
    <3>2. \A f \in 1 .. Len(token') : f # g => f \in 1 .. Len(token) /\ SameTokens(f) /\ Rests(f)
      BY <1>1, <2>2, <2>3, <3>1
    <3>3. g \in 1 .. Len(token') => OneBrowser(g)' /\ (g \notin excused' => InTurn(g)')
      <4>1. CASE t \in Of(g)
        BY <2>4, <4>1
      <4>2. CASE t \notin Of(g)
        BY <1>1, <2>2, <2>3, <2>5, <4>2, RestsHome, RestsInTurn DEF TokensInv, Orderly
      <4> QED
        BY <4>1, <4>2
    <3> QED
      BY <1>1, <2>5, <3>2, <3>3, FamiliesKeep DEF TokensInv
  <2>7. Leaving'
    BY <1>1, <1>2, <1>3, <1>6, <2>1 DEF TokensInv, Leaving
  <2>8. Closed' /\ FamiliesBegin' /\ AlarmsExplained'
    BY <1>1, <1>4, <2>5 DEF TokensInv, Closed, FamiliesBegin, AlarmsExplained, Of, Flyers
  <2> QED
    BY <2>6, <2>7, <2>8 DEF TokensInv
<1> QED
  BY <1>5, <1>6

(* A refresh begins with the cookie's token, which is the family's newest   *)
(* when nobody else uses the family.                                        *)
LEMMA RefreshBegins ==
  ASSUME SessionsInv, TokensInv, NEW p \in Pages, flight[p].pc = "none", CallsRest,
         flight' = [flight EXCEPT ![p] = [NoFlight EXCEPT !.pc = "sent", !.tok = jar[jarOf[p]].refresh]],
         excused' = Mixed(jar[jarOf[p]].refresh),
         UNCHANGED <<token, jar, pageOf, jarOf, ended, alarms>>
  PROVE  TokensInv'
<1> DEFINE t == jar[jarOf[p]].refresh
<1>0. PICK g : g = token[t].family
  OBVIOUS
<1>1. /\ t \in 0 .. Len(token) /\ Len(token) \in Nat /\ jarOf[p] \in Jars
      /\ DOMAIN flight = Pages
  BY CookiesTyped DEF SessionsInv, SessionsTyped
<1>2. /\ flight'[p].pc = "sent" /\ flight'[p].tok = t
      /\ \A q \in Pages : q # p => flight'[q] = flight[q]
  BY <1>1 DEF NoFlight
<1>3. /\ \A f : SameTokens(f) /\ Of(f)' = Of(f)
      /\ excused \subseteq excused'
  BY DEF SameTokens, Of, Mixed
<1>4. \A f : /\ Leavers(f)' \subseteq Leavers(f) /\ Replies(f)' \subseteq Replies(f)
             /\ \A c \in Replies(f)' : call'[c] = call[c]
             /\ Keepers(f)' = Keepers(f)
             /\ (\E c \in Leavers(f) : call[c].pc = "bye") => \E c \in Leavers(f)' : call'[c].pc = "bye"
  BY <1>3 DEF CallsRest, Leavers, Replies, Keepers
<1>5. ASSUME NEW f, t \notin Of(f) PROVE Rests(f)
  <2>1. /\ \A q \in Flyers(f)' : q \in Flyers(f) /\ flight'[q] = flight[q]
        /\ \A q \in Flyers(f) : q \in Flyers(f)' /\ flight'[q] = flight[q]
    BY <1>2, <1>3, <1>5 DEF Flyers, Carries
  <2> QED
    BY <1>4, <2>1 DEF Rests, Changing
<1>6. ASSUME t \in Of(g)
      PROVE  OneBrowser(g)' /\ (g \notin excused' => InTurn(g)')
  <2>1. t # 0 /\ g \in 1 .. Len(token)
    BY <1>0, <1>6 DEF Of, TokensInv, FamiliesBegin, SessionsInv, SessionsTyped
  <2>2. OneBrowser(g) /\ (g \notin excused => InTurn(g))
    BY <2>1 DEF TokensInv, Orderly
  <2>3. jarOf[p] \in Keepers(g)
    BY <1>1, <1>6 DEF Keepers
  <2>4. Flyers(g)' = Flyers(g) \cup {p}
    BY <1>2, <1>3, <1>6 DEF Flyers, Carries
  <2>5. Home(g)' \subseteq Home(g)
    BY <1>4, <2>3, <2>4 DEF Home, Jar
  <2>6. OneBrowser(g)'
    BY <2>2, <2>5 DEF OneBrowser
  <2>7. ASSUME g \notin excused' PROVE InTurn(g)'
    <3>1. Carrying(g) = {} /\ g \notin excused
      BY <1>0, <2>1, <2>7 DEF Mixed
    <3>2. Flyers(g) = {} /\ Leavers(g) = {} /\ InTurn(g)
      BY <2>2, <3>1, NoneCarries
    <3>3. Replies(g) = {} /\ \A j \in Keepers(g) : Current(g, jar[j].refresh)
      BY <2>3, <3>2 DEF InTurn, Changing
    <3>4. \A x, y \in Of(g) : x < y => token[x].status = "revoked"
      BY <3>2 DEF InTurn
    <3>5. \A x : Current(g, x)' <=> Current(g, x)
      BY <1>3 DEF Current
    <3>6. Flyers(g)' = {p} /\ Leavers(g)' = {} /\ Replies(g)' = {}
      BY <1>4, <2>4, <3>2, <3>3
    <3>7. Current(g, flight[p].tok)'
      BY <1>2, <2>3, <3>3, <3>5
    <3>8. (\A j \in Keepers(g) : Current(g, jar[j].refresh))'
      BY <1>4, <3>3, <3>5
    <3>9. (\A x, y \in Of(g) : x < y => token[x].status = "revoked")'
      BY <1>3, <3>4
    <3> QED
      BY <1>2, <3>6, <3>7, <3>8, <3>9 DEF InTurn
  <2> QED
    BY <2>6, <2>7
<1>7. Orderly'
  <2>1. \A f \in 1 .. Len(token') : f # g => f \in 1 .. Len(token) /\ SameTokens(f) /\ Rests(f)
    BY <1>0, <1>3, <1>5 DEF Of
  <2>2. g \in 1 .. Len(token') => OneBrowser(g)' /\ (g \notin excused' => InTurn(g)')
    <3>1. CASE t \in Of(g)
      BY <1>6, <3>1
    <3>2. CASE t \notin Of(g)
      BY <1>3, <1>5, <3>2, RestsHome, RestsInTurn DEF TokensInv, Orderly
    <3> QED
      BY <3>1, <3>2
  <2> QED
    BY <1>3, <2>1, <2>2, FamiliesKeep DEF TokensInv
<1>8. Leaving'
  BY DEF TokensInv, Leaving, CallsRest
<1>9. Closed'
  <2>1. ASSUME NEW f, NEW q \in Flyers(f)', flight'[q].pc = "read"
        PROVE  q \in Flyers(f) /\ flight[q].pc = "read"
    BY <1>2, <1>3, <2>1 DEF Flyers
  <2>2. \A f : \A x \in Of(f)' : x \in Of(f) /\ token'[x].status = token[x].status
    BY <1>3
  <2> QED
    BY <1>3, <2>1, <2>2 DEF TokensInv, Closed
<1>10. FamiliesBegin' /\ AlarmsExplained'
  BY <1>3 DEF TokensInv, FamiliesBegin, AlarmsExplained
<1> QED
  BY <1>7, <1>8, <1>9, <1>10 DEF TokensInv

LEMMA UnauthorizedOrders ==
  ASSUME SessionsInv, TokensInv, NEW c \in Calls, Unauthorized(c)
  PROVE  TokensInv'
<1> DEFINE p == pageOf[c]
<1>1. /\ call[c].pc = "denied" /\ call[c].kind # "logout" /\ call[c] \in CallRecords /\ p \in Pages
      /\ UNCHANGED <<token, jar, pageOf, jarOf>>
  BY DEF Unauthorized, TokensInv, Leaving, SessionsInv, SessionsTyped, Proper, browser
<1>2. CASE (Ends(c) \/ Move(c, "waiting")) /\ UNCHANGED history
  BY <1>1, <1>2, MoveRests DEF history, Steps
<1>3. CASE UnchangedBut(c, Continued(call[c], flight[p].ok, jar[jarOf[p]])) /\ UNCHANGED history
  <2>1. Continued(call[c], flight[p].ok, jar[jarOf[p]]).kind # "logout"
        /\ Continued(call[c], flight[p].ok, jar[jarOf[p]]).pc # "reply"
    BY <1>1 DEF Continued, Idle, CallRecords
  <2> QED
    BY <1>1, <1>3, <2>1, CallRests DEF history
<1>4. CASE /\ flight[p].pc = "none" /\ call' = [call EXCEPT ![c].pc = "waiting"]
           /\ flight' = [flight EXCEPT ![p] =
                [NoFlight EXCEPT !.pc = "sent", !.tok = jar[jarOf[p]].refresh]]
           /\ excused' = Mixed(jar[jarOf[p]].refresh) /\ UNCHANGED <<verified, ended, alarms>>
  <2>1. \A d \in Calls : call'[d] = IF d = c THEN [call[c] EXCEPT !.pc = "waiting"] ELSE call[d]
    BY <1>4 DEF SessionsInv, SessionsTyped
  <2>2. [call[c] EXCEPT !.pc = "waiting"].kind = call[c].kind
        /\ [call[c] EXCEPT !.pc = "waiting"].pc = "waiting"
    BY <1>1 DEF CallRecords
  <2>3. CallsRest
    BY <1>1, <2>1, <2>2 DEF CallsRest
  <2> HIDE DEF p
  <2> QED
    BY <1>1, <1>4, <2>3, RefreshBegins
<1> QED
  BY <1>2, <1>3, <1>4 DEF Unauthorized

(* Tokens of a family exist, and no holder presents one that does not.      *)
LEMMA HoldersPresent ==
  ASSUME SessionsInv, TokensInv
  PROVE  /\ Len(token) \in Nat /\ DOMAIN token = 1 .. Len(token)
         /\ \A c \in Calls : call[c].kind = "logout" \/ call[c].pc = "reply" => call[c].tok <= Len(token)
         /\ \A p \in Pages : flight[p].tok <= Len(token)
         /\ \A j \in Jars : jar[j].refresh <= Len(token)
<1>1. Len(token) \in Nat /\ DOMAIN token = 1 .. Len(token)
  BY DEF SessionsInv, SessionsTyped
<1> QED
  BY <1>1 DEF SessionsInv, TokensInv, Leaving, Proper, Flying

LEMMA IssueSessionOrders ==
  ASSUME SessionsInv, TokensInv, NEW c \in Calls, IssueSession(c)
  PROVE  TokensInv'
<1>0. PICK id : id = Len(token) + 1
  OBVIOUS
<1> DEFINE r == [call[c] EXCEPT !.pc = "reply", !.tok = id]
<1>1. /\ call[c].pc = "issue" /\ call[c] \in CallRecords /\ call[c].kind # "logout"
      /\ token' = Append(token, [family |-> id, status |-> "live"])
      /\ UnchangedBut(c, r) /\ UNCHANGED <<jar, pageOf, jarOf, excused, ended, alarms>>
  BY <1>0 DEF IssueSession, browser, SessionsInv, Proper, TokensInv, Leaving
<1>2. token \in Seq(Tokens) /\ Len(token) \in Nat /\ id \in Nat
  BY <1>0 DEF SessionsInv, SessionsTyped
<1>3. /\ r.pc = "reply" /\ r.tok = id /\ r.kind # "logout"
  BY <1>1, <1>2 DEF CallRecords
<1> HIDE DEF r
<1>4. /\ \A d \in Calls : call'[d] = IF d = c THEN r ELSE call[d]
      /\ UNCHANGED flight
  BY <1>1 DEF UnchangedBut, SessionsInv, SessionsTyped
<1>5. /\ DOMAIN token' = 1 .. id /\ DOMAIN token = 1 .. Len(token) /\ Len(token') = id
      /\ token'[id] = [family |-> id, status |-> "live"]
      /\ \A t \in 1 .. Len(token) : token'[t] = token[t]
  BY <1>0, <1>1, <1>2
<1>6. \A t \in DOMAIN token : token[t].family \in 1 .. Len(token)
  BY <1>5 DEF TokensInv, FamiliesBegin
<1>7. ASSUME NEW f \in 1 .. Len(token) PROVE SameTokens(f) /\ Rests(f)
  <2>1. f # id /\ id \notin Of(f)
    BY <1>0, <1>2, <1>5 DEF Of
  <2>2. Of(f)' = Of(f)
    BY <1>0, <1>2, <1>5, <2>1 DEF Of
  <2>3. SameTokens(f)
    BY <1>5, <2>2 DEF SameTokens, Of
  <2>4. \A d \in Calls : d \in Leavers(f) \cup Replies(f) \cup Leavers(f)' \cup Replies(f)' => d # c
    BY <1>1, <1>3, <1>4, <2>1, <2>2 DEF Leavers, Replies
  <2> QED
    BY <1>1, <1>4, <2>3, <2>4, AwayRests
<1>8. Of(id)' = {id}
  BY <1>0, <1>2, <1>5, <1>6 DEF Of
<1>9. /\ Flyers(id)' = {} /\ Leavers(id)' = {} /\ Keepers(id)' = {} /\ Replies(id)' = {c}
  <2>1. /\ \A d \in Calls : call[d].kind = "logout" \/ call[d].pc = "reply" => call[d].tok # id
        /\ \A p \in Pages : flight[p].tok # id
        /\ \A j \in Jars : jar[j].refresh # id
    BY <1>0, <1>2, HoldersPresent
  <2> QED
    BY <1>1, <1>3, <1>4, <1>8, <2>1 DEF Flyers, Leavers, Keepers, Replies
<1>10. OneBrowser(id)'
  <2>1. Home(id)' = {Jar(c)'}
    BY <1>9 DEF Home
  <2>2. Jar(c)' \in Jars'
    BY <1>1 DEF Jar, SessionsInv, SessionsTyped
  <2> QED
    BY <2>1, <2>2 DEF OneBrowser
<1>11. InTurn(id)'
  <2>1. call'[c].tok = id
    BY <1>3, <1>4
  <2>2. Current(id, id)'
    BY <1>2, <1>5, <1>8 DEF Current
  <2>3. Current(id, call[c].tok)'
    BY <2>1, <2>2
  <2> QED
    BY <1>2, <1>8, <1>9, <2>3 DEF InTurn
<1>12. Orderly'
  <2>1. \A f \in 1 .. Len(token') : f # id => f \in 1 .. Len(token) /\ SameTokens(f) /\ Rests(f)
    BY <1>0, <1>2, <1>5, <1>7
  <2> QED
    BY <1>1, <1>10, <1>11, <2>1, FamiliesKeep DEF TokensInv
<1>13. FamiliesBegin'
  <2>1. ASSUME NEW t \in 1 .. id PROVE token'[t].family \in 1 .. t
    BY <1>0, <1>2, <1>5 DEF TokensInv, FamiliesBegin
  <2> QED
    BY <1>5, <2>1 DEF FamiliesBegin
<1>14. Leaving'
  BY <1>0, <1>2, <1>3, <1>4, <1>5 DEF TokensInv, Leaving
<1>15. Closed'
  <2>1. ASSUME NEW f \in ended
        PROVE  /\ f \in 1 .. Len(token') /\ \A t \in Of(f)' : token'[t].status # "live"
               /\ \A p \in Flyers(f)' : flight'[p].pc # "read"
    <3>1. /\ f \in 1 .. Len(token) /\ \A t \in Of(f) : token[t].status # "live"
          /\ \A p \in Flyers(f) : flight[p].pc # "read"
      BY DEF TokensInv, Closed
    <3>2. Of(f)' = Of(f)
      BY <1>7, <3>1 DEF SameTokens
    <3>3. Flyers(f)' = Flyers(f)
      BY <1>4, <3>2 DEF Flyers
    <3> QED
      BY <1>0, <1>2, <1>4, <1>5, <3>1, <3>2, <3>3 DEF Of
  <2> QED
    BY <1>1, <2>1 DEF Closed
<1> QED
  BY <1>1, <1>12, <1>13, <1>14, <1>15 DEF TokensInv, AlarmsExplained

(* The answer to a sign-in is the first to bring its family to a browser.   *)
LEMMA SignedInOrders ==
  ASSUME SessionsInv, TokensInv, NEW c \in Calls, SignedIn(c)
  PROVE  TokensInv'
<1>0. PICK t, g : t = call[c].tok /\ g = token[t].family
  OBVIOUS
<1>1. /\ call[c].pc = "reply" /\ t \in 1 .. Len(token) /\ call[c].kind # "logout"
      /\ jar' = SetSessionCookies(Jar(c), t, call[c].proven)
      /\ call' = [call EXCEPT ![c] = Idle]
      /\ UNCHANGED <<flight, token, pageOf, jarOf, excused, ended, alarms>>
  BY <1>0 DEF SignedIn, Ends, UnchangedBut, history, SessionsInv, Proper, TokensInv, Leaving
<1>2. /\ Jar(c) \in Jars /\ Len(token) \in Nat /\ DOMAIN token = 1 .. Len(token)
      /\ DOMAIN jar = Jars /\ DOMAIN call = Calls
  BY DEF SessionsInv, SessionsTyped, Jar
<1>3. /\ \A d \in Calls : call'[d] = IF d = c THEN Idle ELSE call[d]
      /\ Idle.kind = "none" /\ Idle.pc = "idle"
  BY <1>1, <1>2 DEF Idle
<1>4. \A j \in Jars : jar'[j].refresh = IF j = Jar(c) THEN t ELSE jar[j].refresh
  BY <1>1, <1>2 DEF SetSessionCookies
<1>5. t \in Of(g) /\ g \in 1 .. Len(token)
  BY <1>0, <1>1, <1>2 DEF Of, TokensInv, FamiliesBegin
<1>6. /\ \A f : SameTokens(f) /\ Of(f)' = Of(f) /\ Flyers(f)' = Flyers(f)
      /\ \A f, x : Current(f, x)' <=> Current(f, x)
  BY <1>1 DEF SameTokens, Of, Flyers, Current
<1>7. \A f : f # g => t \notin Of(f)
  BY <1>0 DEF Of
<1>8. ASSUME NEW f, f # g PROVE Rests(f)
  <2>1. \A d \in Calls : d \in Leavers(f) \cup Replies(f) \cup Leavers(f)' \cup Replies(f)' => d # c
    BY <1>0, <1>1, <1>3, <1>7, <1>8 DEF Leavers, Replies
  <2>2. \A j \in Keepers(f)' : jar'[j].refresh = jar[j].refresh
    BY <1>4, <1>6, <1>7, <1>8 DEF Keepers
  <2> QED
    BY <1>1, <1>3, <1>6, <2>1, <2>2, AwayRests
<1>9. c \in Replies(g)
  BY <1>0, <1>1, <1>5 DEF Replies
<1>10. /\ Keepers(g)' \subseteq Keepers(g) \cup {Jar(c)} /\ Leavers(g)' \subseteq Leavers(g)
       /\ Replies(g)' = Replies(g) \ {c}
  BY <1>3, <1>4, <1>6 DEF Keepers, Leavers, Replies
<1>11. OneBrowser(g)'
  <2>1. Home(g)' \subseteq Home(g)
    BY <1>1, <1>6, <1>9, <1>10 DEF Home, Jar
  <2> QED
    BY <1>5, <2>1 DEF TokensInv, Orderly, OneBrowser
<1>12. ASSUME g \notin excused PROVE InTurn(g)'
  <2>1. InTurn(g)
    BY <1>5, <1>12 DEF TokensInv, Orderly
  <2>2. /\ Current(g, t) /\ Replies(g) = {c}
        /\ Flyers(g) = {} /\ Leavers(g) = {} /\ Keepers(g) = {}
    BY <1>0, <1>9, <2>1 DEF InTurn
  <2>3. Flyers(g)' = {} /\ Leavers(g)' = {} /\ Replies(g)' = {} /\ Keepers(g)' \subseteq {Jar(c)}
    BY <1>6, <1>10, <2>2
  <2>4. (\A j \in Keepers(g) : Current(g, jar[j].refresh))'
    BY <1>2, <1>4, <1>6, <2>2, <2>3
  <2>5. (\A x, y \in Of(g) : x < y => token[x].status = "revoked")'
    BY <1>1, <1>6, <2>1 DEF InTurn
  <2> QED
    BY <2>3, <2>4, <2>5 DEF InTurn
<1>13. Orderly'
  BY <1>1, <1>6, <1>8, <1>11, <1>12, FamiliesKeep DEF TokensInv
<1>14. Leaving'
  BY <1>1, <1>3 DEF TokensInv, Leaving
<1>15. Closed'
  BY <1>1, <1>6 DEF TokensInv, Closed
<1> QED
  BY <1>1, <1>13, <1>14, <1>15 DEF TokensInv, AlarmsExplained, FamiliesBegin

(* revokeFamily() revokes every token of the family and no other; the       *)
(* family is closed unless a refresh has already read a token of it.        *)
LEMMA RevokeOrders ==
  ASSUME SessionsInv, TokensInv, NEW g, NEW t \in Of(g), RevokeFamily(g, t),
         \A p \in Pages : flight'[p].pc = "read" => flight'[p] = flight[p]
  PROVE  /\ \A f : Of(f)' = Of(f)
         /\ \A f : f # g => SameTokens(f)
         /\ \A x \in Of(g) : token'[x].status = "revoked"
         /\ Closed' /\ FamiliesBegin' /\ Len(token') = Len(token)
<1>1. token \in Seq(Tokens) /\ Len(token) \in Nat /\ DOMAIN token = 1 .. Len(token)
  BY DEF SessionsInv, SessionsTyped
<1>2. /\ token' = [i \in 1 .. Len(token) |->
              IF token[i].family = g THEN [token[i] EXCEPT !.status = "revoked"] ELSE token[i]]
      /\ ended' = IF \E p \in Pages : flight[p].pc = "read" /\ token[flight[p].tok].family = g
                  THEN ended ELSE ended \cup {g}
  BY <1>1 DEF RevokeFamily
<1>3. Len(token') = Len(token) /\ DOMAIN token' = DOMAIN token
  BY <1>1, <1>2
<1>4. ASSUME NEW x \in DOMAIN token
      PROVE  /\ token'[x].family = token[x].family
             /\ token[x].family = g => token'[x].status = "revoked"
             /\ token[x].family # g => token'[x] = token[x]
  <2>1. token[x] \in Tokens
    BY <1>1
  <2>2. token'[x] = IF token[x].family = g THEN [token[x] EXCEPT !.status = "revoked"] ELSE token[x]
    BY <1>1, <1>2
  <2> QED
    BY <2>1, <2>2 DEF Tokens
<1>5. \A f : Of(f)' = Of(f)
  BY <1>3, <1>4 DEF Of
<1>6. \A f : f # g => SameTokens(f)
  BY <1>4, <1>5 DEF SameTokens, Of
<1>7. \A x \in Of(g) : token'[x].status = "revoked"
  BY <1>4 DEF Of
<1>8. g \in 1 .. Len(token)
  BY <1>1 DEF Of, TokensInv, FamiliesBegin
<1>9. ASSUME NEW f \in ended'
      PROVE  /\ f \in 1 .. Len(token') /\ \A x \in Of(f)' : token'[x].status # "live"
             /\ \A p \in Flyers(f)' : flight'[p].pc # "read"
  <2>1. f \in 1 .. Len(token')
    BY <1>2, <1>3, <1>8 DEF TokensInv, Closed
  <2>2. ASSUME NEW x \in Of(f)' PROVE token'[x].status # "live"
    <3>1. CASE f = g
      BY <1>5, <1>7, <3>1
    <3>2. CASE f # g
      <4>1. f \in ended /\ x \in Of(f) /\ token[x].status # "live"
        BY <1>2, <1>5, <3>2 DEF TokensInv, Closed
      <4>2. token'[x] = token[x]
        BY <1>4, <3>2, <4>1 DEF Of
      <4> QED
        BY <4>1, <4>2
    <3> QED
      BY <3>1, <3>2
  <2>3. ASSUME NEW p \in Flyers(f)', flight'[p].pc = "read" PROVE FALSE
    <3>1. p \in Flyers(f) /\ flight[p].pc = "read" /\ p \in Pages
      BY <1>5, <2>3 DEF Flyers
    <3>2. f \notin ended
      BY <3>1 DEF TokensInv, Closed
    <3>3. token[flight[p].tok].family = f
      BY <3>1 DEF Flyers, Of
    <3> QED
      BY <1>2, <3>1, <3>2, <3>3
  <2> QED
    BY <2>1, <2>2, <2>3
<1>10. FamiliesBegin'
  BY <1>3, <1>4 DEF TokensInv, FamiliesBegin
<1> QED
  BY <1>3, <1>5, <1>6, <1>7, <1>9, <1>10 DEF Closed

LEMMA LogoutRevokeOrders ==
  ASSUME SessionsInv, TokensInv, NEW c \in Calls, LogoutRevoke(c)
  PROVE  TokensInv'
<1>0. PICK t, g : t = call[c].tok /\ g = token[t].family
  OBVIOUS
<1>1. /\ call[c].kind = "logout" /\ call[c].pc = "sent" /\ t \in 0 .. Len(token)
      /\ call[c] \in CallRecords
      /\ UNCHANGED <<jar, pageOf, jarOf, excused, alarms>>
  BY <1>0 DEF LogoutRevoke, At, browser, TokensInv, Leaving, SessionsInv, Proper
<1>2. CASE t = 0
  BY <1>0, <1>1, <1>2, CallRests DEF LogoutRevoke, Ends, Idle
<1>3. CASE t # 0
  <2>1. /\ RevokeFamily(g, t) /\ UnchangedBut(c, [call[c] EXCEPT !.pc = "bye"])
    BY <1>0, <1>3 DEF LogoutRevoke, Move
  <2>2. t \in Of(g) /\ c \in Leavers(g) /\ g \in 1 .. Len(token)
    BY <1>0, <1>1, <1>3, HoldersPresent DEF Of, Leavers, TokensInv, FamiliesBegin
  <2>3. /\ UNCHANGED flight
        /\ \A d \in Calls : call'[d] = IF d = c THEN [call[c] EXCEPT !.pc = "bye"] ELSE call[d]
    BY <2>1 DEF UnchangedBut, SessionsInv, SessionsTyped
  <2>4. call'[c].kind = "logout" /\ call'[c].pc = "bye" /\ call'[c].tok = t
    BY <1>0, <1>1, <2>3 DEF CallRecords
  <2>5. /\ \A f : Of(f)' = Of(f)
        /\ \A f : f # g => SameTokens(f)
        /\ \A x \in Of(g) : token'[x].status = "revoked"
        /\ Closed' /\ FamiliesBegin' /\ Len(token') = Len(token)
    BY <2>1, <2>2, <2>3, RevokeOrders
  <2>6. ASSUME NEW f, f # g PROVE Rests(f)
    <3>1. t \notin Of(f)
      BY <1>0, <2>6 DEF Of
    <3>2. \A d \in Calls : d \in Leavers(f) \cup Replies(f) \cup Leavers(f)' \cup Replies(f)' => d # c
      BY <1>0, <1>1, <2>4, <2>5, <3>1 DEF Leavers, Replies
    <3> QED
      BY <1>1, <2>3, <2>5, <2>6, <3>2, AwayRests
  <2>7. /\ Flyers(g)' = Flyers(g) /\ Keepers(g)' = Keepers(g) /\ Leavers(g)' = Leavers(g)
        /\ Replies(g)' = Replies(g)
    <3>1. Flyers(g)' = Flyers(g) /\ Keepers(g)' = Keepers(g)
      BY <1>1, <2>3, <2>5 DEF Flyers, Keepers
    <3>2. Leavers(g)' = Leavers(g)
      BY <1>0, <1>1, <2>3, <2>4, <2>5 DEF Leavers
    <3>3. Replies(g)' = Replies(g)
      BY <1>1, <2>3, <2>4, <2>5 DEF Replies
    <3> QED
      BY <3>1, <3>2, <3>3
  <2>8. OneBrowser(g)'
    <3>1. Home(g)' \subseteq Home(g)
      BY <1>1, <2>7 DEF Home, Jar
    <3> QED
      BY <2>2, <3>1 DEF TokensInv, Orderly, OneBrowser
  <2>9. ASSUME g \notin excused PROVE InTurn(g)'
    <3>1. InTurn(g)
      BY <2>2, <2>9 DEF TokensInv, Orderly
    <3>2. Flyers(g) = {} /\ Replies(g) = {}
      BY <2>2, <3>1 DEF InTurn
    <3>3. Changing(g)'
      BY <2>2, <2>4, <2>7 DEF Changing
    <3>4. (\A x, y \in Of(g) : x < y => token[x].status = "revoked")'
      BY <2>5
    <3>5. (\A x, y \in Leavers(g) : x = y)'
      BY <2>7, <3>1 DEF InTurn
    <3> QED
      BY <2>7, <3>2, <3>3, <3>4, <3>5 DEF InTurn
  <2>10. Orderly'
    BY <1>1, <2>5, <2>6, <2>8, <2>9, FamiliesKeep DEF TokensInv
  <2>11. Leaving'
    BY <1>1, <2>3, <2>4, <2>5 DEF TokensInv, Leaving
  <2> QED
    BY <1>1, <2>5, <2>10, <2>11 DEF TokensInv, AlarmsExplained
<1> QED
  BY <1>2, <1>3

(* Signing out takes the family from the only browser that holds it.        *)
LEMMA LoggedOutOrders ==
  ASSUME SessionsInv, TokensInv, NEW c \in Calls, LoggedOut(c)
  PROVE  TokensInv'
<1>1. /\ call[c].kind = "logout" /\ call[c].pc = "bye"
      /\ jar' = [jar EXCEPT ![Jar(c)] = [access |-> NoAccess, refresh |-> 0]]
      /\ call' = [call EXCEPT ![c] = Idle]
      /\ UNCHANGED <<flight, token, pageOf, jarOf, excused, ended, alarms>>
  BY DEF LoggedOut, At, Ends, UnchangedBut, history
<1>2. /\ Jar(c) \in Jars /\ DOMAIN token = 1 .. Len(token) /\ Len(token) \in Nat
      /\ DOMAIN jar = Jars /\ DOMAIN call = Calls
  BY DEF SessionsInv, SessionsTyped, Jar
<1>3. /\ \A d \in Calls : call'[d] = IF d = c THEN Idle ELSE call[d]
      /\ Idle.kind = "none" /\ Idle.pc = "idle"
      /\ \A j \in Jars : jar'[j].refresh = IF j = Jar(c) THEN 0 ELSE jar[j].refresh
  BY <1>1, <1>2 DEF Idle
<1>4. /\ \A f : SameTokens(f) /\ Of(f)' = Of(f) /\ Flyers(f)' = Flyers(f)
      /\ \A f : 0 \notin Of(f)
  BY <1>1, <1>2 DEF SameTokens, Of, Flyers
<1>5. \A f : \A j \in Keepers(f)' : j \in Keepers(f) /\ jar'[j].refresh = jar[j].refresh /\ j # Jar(c)
  BY <1>3, <1>4 DEF Keepers
<1>6. ASSUME NEW f \in 1 .. Len(token) PROVE Rests(f)
  <2>1. CASE c \notin Leavers(f)
    <3>1. \A d \in Calls : d \in Leavers(f) \cup Replies(f) \cup Leavers(f)' \cup Replies(f)' => d # c
      BY <1>1, <1>3, <2>1 DEF Leavers, Replies
    <3> QED
      BY <1>1, <1>3, <1>4, <1>5, <3>1, AwayRests
  <2>2. CASE c \in Leavers(f)
    <3>1. PICK j \in Jars : Home(f) \subseteq {j}
      BY DEF TokensInv, Orderly, OneBrowser
    <3>2. Keepers(f)' = {}
      BY <1>5, <2>2, <3>1 DEF Home
    <3>3. /\ Leavers(f)' \subseteq Leavers(f)
          /\ \A d \in Replies(f)' : d \in Replies(f) /\ call'[d] = call[d]
      BY <1>3, <1>4 DEF Leavers, Replies
    <3> QED
      BY <1>1, <1>4, <1>5, <3>2, <3>3 DEF Rests
  <2> QED
    BY <2>1, <2>2
<1>7. Orderly'
  <2>1. 0 \notin 1 .. Len(token')
    BY <1>1, <1>2
  <2> QED
    BY <1>1, <1>4, <1>6, <2>1, FamiliesKeep DEF TokensInv
<1>8. Leaving'
  BY <1>1, <1>3 DEF TokensInv, Leaving
<1>9. Closed'
  BY <1>1, <1>4 DEF TokensInv, Closed
<1> QED
  BY <1>1, <1>7, <1>8, <1>9 DEF TokensInv, AlarmsExplained, FamiliesBegin

LEMMA CallFailsOrders ==
  ASSUME SessionsInv, TokensInv, NEW c \in Calls, CallFails(c)
  PROVE  TokensInv'
<1>0. PICK g : g = token[call[c].tok].family
  OBVIOUS
<1>1. /\ UnchangedBut(c, Idle) /\ UNCHANGED <<token, jar, pageOf, jarOf, ended, alarms>>
      /\ excused' = IF call[c].pc = "bye" THEN excused \cup {g} ELSE excused
      /\ Idle.kind = "none" /\ Idle.pc = "idle"
  BY <1>0 DEF CallFails, Ends, browser, Idle
<1>2. /\ \A d \in Calls : call'[d] = IF d = c THEN Idle ELSE call[d]
      /\ UNCHANGED flight /\ Len(token) \in Nat
  BY <1>1 DEF UnchangedBut, SessionsInv, SessionsTyped
<1>3. FlightsRest /\ CookiesRest /\ excused \subseteq excused'
  BY <1>1, <1>2 DEF FlightsRest, CookiesRest
<1>4. CASE call[c].kind # "logout" \/ call[c].pc # "bye"
  <2>1. CallsRest
    BY <1>1, <1>2, <1>4 DEF CallsRest
  <2> QED
    BY <1>1, <1>3, <2>1, QuietStep
<1>5. CASE call[c].kind = "logout" /\ call[c].pc = "bye"
  <2>1. /\ \A f : SameTokens(f) /\ Of(f)' = Of(f) /\ Flyers(f)' = Flyers(f) /\ Keepers(f)' = Keepers(f)
        /\ \A f : Leavers(f)' \subseteq Leavers(f) /\ Replies(f)' \subseteq Replies(f)
    BY <1>1, <1>2 DEF SameTokens, Of, Flyers, Keepers, Leavers, Replies
  <2>2. ASSUME NEW f, f # g PROVE Rests(f)
    <3>1. \A d \in Calls : d \in Leavers(f) \cup Replies(f) \cup Leavers(f)' \cup Replies(f)' => d # c
      BY <1>0, <1>1, <1>2, <1>5, <2>2 DEF Leavers, Replies, Of
    <3> QED
      BY <1>1, <1>2, <2>1, <3>1, AwayRests
  <2>3. g \in 1 .. Len(token') => OneBrowser(g)' /\ g \in excused'
    <3>1. Home(g)' \subseteq Home(g)
      BY <1>1, <2>1 DEF Home, Jar
    <3> QED
      BY <1>1, <1>5, <3>1 DEF TokensInv, Orderly, OneBrowser
  <2>4. Orderly'
    BY <1>1, <1>3, <2>1, <2>2, <2>3, FamiliesKeep DEF TokensInv
  <2>5. Leaving'
    BY <1>1, <1>2 DEF TokensInv, Leaving
  <2>6. Closed'
    BY <1>1, <1>2, <2>1 DEF TokensInv, Closed
  <2> QED
    BY <1>1, <1>3, <2>4, <2>5, <2>6 DEF TokensInv, AlarmsExplained, FamiliesBegin
<1> QED
  BY <1>4, <1>5

(* A refresh that ends before it rotated leaves everything as it was.       *)
LEMMA SettledRests ==
  ASSUME SessionsInv, TokensInv, NEW p \in Pages, NEW ok, NEW cookies, Settle(p, ok, cookies),
         flight[p].pc # "rotated", excused \subseteq excused',
         UNCHANGED <<token, jar, pageOf, jarOf, ended, alarms>>
  PROVE  TokensInv'
<1>1. CallsRest /\ flight'[p].pc = "settled" /\ \A q \in Pages : q # p => flight'[q] = flight[q]
  BY SettleRests
<1>2. FlightsRest /\ CookiesRest
  BY <1>1 DEF FlightsRest, CookiesRest, Carries
<1> QED
  BY <1>1, <1>2, QuietStep

(* An honest browser never presents a revoked token, and a closed family    *)
(* has no other.                                                            *)
LEMMA RefreshReadOrders ==
  ASSUME SessionsInv, TokensInv, NEW p \in Pages, RefreshRead(p)
  PROVE  TokensInv'
<1>0. PICK t, g : t = flight[p].tok /\ g = token[t].family
  OBVIOUS
<1>1. /\ flight[p].pc = "sent" /\ UNCHANGED <<token, jar, pageOf, jarOf, ended, excused>>
      /\ flight[p] \in Flights /\ t \in 0 .. Len(token) /\ DOMAIN flight = Pages
      /\ DOMAIN token = 1 .. Len(token) /\ Len(token) \in Nat /\ token \in Seq(Tokens)
  BY <1>0 DEF RefreshRead, browser, SessionsInv, SessionsTyped, Flying, Flights
<1>2. CASE Settle(p, FALSE, NoAccess) /\ alarms' = alarms
  BY <1>1, <1>2, SettledRests
<1>3. ASSUME NEW pc \in {"reuse", "read"}, NEW f, f.tok = t, f.pc = pc, t # 0,
             flight' = [flight EXCEPT ![p] = f], call' = call,
             pc = "reuse" => token[t].status = "revoked" /\ alarms' = alarms \cup {g},
             pc = "read" => token[t].status \notin {"revoked", "expired"} /\ alarms' = alarms
      PROVE  TokensInv'
  <2>1. /\ flight'[p] = f /\ \A q \in Pages : q # p => flight'[q] = flight[q]
    BY <1>1, <1>3
  <2>2. \A x : SameTokens(x) /\ Of(x)' = Of(x)
    BY <1>1 DEF SameTokens, Of
  <2>3. \A x : /\ Leavers(x)' = Leavers(x) /\ Replies(x)' = Replies(x) /\ Keepers(x)' = Keepers(x)
    BY <1>1, <1>3, <2>2 DEF Leavers, Replies, Keepers
  <2>4. \A x : Flyers(x)' = Flyers(x)
    BY <1>0, <1>1, <1>3, <2>1, <2>2 DEF Flyers, Carries
  <2>5. t \in Of(g) /\ p \in Flyers(g) /\ g \in 1 .. Len(token)
    BY <1>0, <1>1, <1>3 DEF Of, Flyers, Carries, TokensInv, FamiliesBegin
  <2>6. \A x : Changing(x)' <=> Changing(x)
    BY <1>1, <1>3, <2>1, <2>3, <2>4 DEF Changing
  <2>7. ASSUME NEW x, x # g \/ pc = "read" PROVE Rests(x)
    <3>1. \A q \in Flyers(x)' : /\ q \in Flyers(x) /\ flight'[q].tok = flight[q].tok
                                /\ flight'[q].pc = "reuse" => flight[q].pc = "reuse"
      BY <1>0, <1>3, <2>1, <2>4, <2>7 DEF Flyers, Of
    <3> QED
      BY <1>1, <1>3, <2>3, <2>6, <3>1 DEF Rests
  <2>8. pc = "reuse" => g \in excused
    <3>1. ASSUME pc = "reuse", g \notin excused PROVE FALSE
      <4>1. Current(g, t)
        BY <1>0, <2>5, <3>1 DEF TokensInv, Orderly, InTurn
      <4> QED
        BY <1>3, <3>1, <4>1 DEF Current
    <3> QED
      BY <3>1
  <2>9. OneBrowser(g)'
    <3>1. Home(g)' = Home(g)
      BY <1>1, <1>3, <2>3, <2>4 DEF Home, Jar
    <3> QED
      BY <2>5, <3>1 DEF TokensInv, Orderly, OneBrowser
  <2>10. Orderly'
    <3>1. g \notin excused' => InTurn(g)'
      BY <1>1, <1>3, <2>2, <2>5, <2>7, <2>8, RestsInTurn DEF TokensInv, Orderly
    <3> QED
      BY <1>1, <2>2, <2>7, <2>9, <3>1, FamiliesKeep DEF TokensInv
  <2>11. Closed'
    <3>1. ASSUME NEW x \in ended, NEW q \in Flyers(x)', flight'[q].pc = "read" PROVE FALSE
      <4>1. \A u \in Of(x) : token[u].status # "live"
        BY DEF TokensInv, Closed
      <4>2. q # p
        <5>1. CASE x = g
          <6>1. token[t] \in Tokens
            BY <1>1, <1>3
          <6> QED
            BY <1>3, <2>1, <2>5, <3>1, <4>1, <5>1, <6>1 DEF Tokens
        <5>2. CASE x # g
          BY <1>0, <2>4, <5>2 DEF Flyers, Of
        <5> QED
          BY <5>1, <5>2
      <4>3. q \in Flyers(x) /\ flight[q].pc = "read"
        BY <2>1, <2>4, <3>1, <4>2 DEF Flyers
      <4> QED
        BY <4>3 DEF TokensInv, Closed
    <3> QED
      BY <1>1, <2>2, <3>1 DEF TokensInv, Closed
  <2>12. Leaving' /\ FamiliesBegin' /\ AlarmsExplained'
    BY <1>1, <1>3, <2>8 DEF TokensInv, Leaving, FamiliesBegin, AlarmsExplained
  <2> QED
    BY <2>10, <2>11, <2>12 DEF TokensInv
<1>4. CASE /\ t # 0 /\ token[t].status = "revoked" /\ call' = call
           /\ flight' = [flight EXCEPT ![p].pc = "reuse"] /\ alarms' = alarms \cup {g}
  <2> DEFINE f == [flight[p] EXCEPT !.pc = "reuse"]
  <2>1. f.tok = t /\ f.pc = "reuse"
    BY <1>0, <1>1 DEF Flights
  <2>2. flight' = [flight EXCEPT ![p] = f]
    BY <1>4
  <2> HIDE DEF f
  <2> QED
    BY <1>3, <1>4, <2>1, <2>2
<1>5. CASE /\ t # 0 /\ token[t].status \notin {"revoked", "expired"} /\ call' = call
           /\ flight' = [flight EXCEPT ![p].pc = "read", ![p].mfa = user.mfa] /\ alarms' = alarms
  <2> DEFINE f == [flight[p] EXCEPT !.pc = "read", !.mfa = user.mfa]
  <2>1. f.tok = t /\ f.pc = "read"
    BY <1>0, <1>1 DEF Flights
  <2>2. flight' = [flight EXCEPT ![p] = f]
    BY <1>5
  <2> HIDE DEF f
  <2> QED
    BY <1>3, <1>5, <2>1, <2>2
<1> QED
  BY <1>0, <1>2, <1>4, <1>5 DEF RefreshRead

LEMMA RefreshRevokesOrders ==
  ASSUME SessionsInv, TokensInv, NEW p \in Pages, RefreshRevokes(p)
  PROVE  TokensInv'
<1>0. PICK t, g : t = flight[p].tok /\ g = token[t].family
  OBVIOUS
<1>1. /\ flight[p].pc = "reuse" /\ RevokeFamily(g, t) /\ Settle(p, FALSE, NoAccess)
      /\ UNCHANGED <<jar, pageOf, jarOf, excused, alarms>>
  BY <1>0 DEF RefreshRevokes, browser
<1>2. CallsRest /\ flight'[p].pc = "settled" /\ \A q \in Pages : q # p => flight'[q] = flight[q]
  BY <1>1, SettleRests
<1>3. t \in Of(g) /\ p \in Flyers(g) /\ g \in 1 .. Len(token)
  <2>1. t \in 1 .. Len(token)
    BY <1>0, <1>1 DEF SessionsInv, SessionsTyped, Flying, Flights
  <2> QED
    BY <1>0, <1>1, <2>1, HoldersPresent DEF Of, Flyers, Carries, TokensInv, FamiliesBegin
<1>4. /\ \A f : Of(f)' = Of(f)
      /\ \A f : f # g => SameTokens(f)
      /\ Closed' /\ FamiliesBegin' /\ Len(token') = Len(token)
  BY <1>1, <1>2, <1>3, RevokeOrders
<1>5. g \in excused
  BY <1>1, <1>3 DEF TokensInv, Orderly, InTurn
<1>6. \A f : /\ Keepers(f)' = Keepers(f) /\ Leavers(f)' \subseteq Leavers(f)
             /\ Replies(f)' \subseteq Replies(f) /\ Flyers(f)' \subseteq Flyers(f)
  BY <1>1, <1>2, <1>4 DEF CallsRest, Keepers, Leavers, Replies, Flyers, Carries
<1>7. ASSUME NEW f, f # g PROVE Rests(f)
  <2>1. t \notin Of(f) /\ p \notin Flyers(f) /\ p \notin Flyers(f)'
    BY <1>0, <1>2, <1>7 DEF Of, Flyers, Carries
  <2>2. Changing(f) => Changing(f)'
    <3>1. ASSUME NEW c \in Leavers(f), call[c].pc = "bye" PROVE c \in Leavers(f)' /\ call'[c].pc = "bye"
      BY <1>2, <1>4, <3>1 DEF CallsRest, Leavers
    <3>2. ASSUME NEW q \in Flyers(f) PROVE q \in Flyers(f)' /\ flight'[q] = flight[q]
      BY <1>2, <1>4, <2>1 DEF Flyers
    <3> QED
      BY <3>1, <3>2 DEF Changing
  <2> QED
    BY <1>1, <1>2, <1>6, <2>1, <2>2 DEF Rests, CallsRest, Flyers, Replies
<1>8. OneBrowser(g)'
  <2>1. Home(g)' \subseteq Home(g)
    BY <1>1, <1>6 DEF Home, Jar
  <2> QED
    BY <1>3, <2>1 DEF TokensInv, Orderly, OneBrowser
<1>9. Orderly'
  BY <1>1, <1>4, <1>5, <1>7, <1>8, FamiliesKeep DEF TokensInv
<1>10. Leaving' /\ AlarmsExplained'
  BY <1>1, <1>2, <1>4 DEF TokensInv, Leaving, AlarmsExplained, CallsRest
<1> QED
  BY <1>4, <1>9, <1>10 DEF TokensInv

(* The transaction of refresh() puts one newest token in the place of       *)
(* another; who used the family alone still does.                           *)
LEMMA RefreshRotateOrders ==
  ASSUME SessionsInv, TokensInv, NEW p \in Pages, RefreshRotate(p)
  PROVE  TokensInv'
<1>0. PICK t, g, id : t = flight[p].tok /\ g = token[t].family /\ id = Len(token) + 1
  OBVIOUS
<1> DEFINE f == [flight[p] EXCEPT !.pc = "rotated", !.tok = id]
<1>1. /\ flight[p].pc = "read" /\ flight[p] \in Flights /\ t \in 1 .. Len(token)
      /\ flight' = [flight EXCEPT ![p] = f]
      /\ UNCHANGED <<call, jar, pageOf, jarOf, excused, ended, alarms>>
  BY <1>0 DEF RefreshRotate, browser, history, SessionsInv, SessionsTyped, Flying, Flights
<1>2. /\ token \in Seq(Tokens) /\ Len(token) \in Nat /\ DOMAIN token = 1 .. Len(token)
      /\ DOMAIN flight = Pages /\ id \in Nat
  BY <1>0 DEF SessionsInv, SessionsTyped
<1>3. f.pc = "rotated" /\ f.tok = id
  BY <1>1 DEF Flights
<1> HIDE DEF f
<1>4. flight'[p] = f /\ \A q \in Pages : q # p => flight'[q] = flight[q]
  BY <1>1, <1>2
<1>5. /\ DOMAIN token' = 1 .. id /\ Len(token') = id
      /\ token'[id] = [family |-> g, status |-> "live"]
      /\ \A x \in 1 .. Len(token) : /\ token'[x].family = token[x].family
                                    /\ token'[x].status = IF x = t THEN "revoked" ELSE token[x].status
  <2> DEFINE old == [token EXCEPT ![t].status = "revoked"]
             new == [family |-> g, status |-> "live"]
  <2>1. token' = Append(old, new)
    BY <1>0 DEF RefreshRotate
  <2>2. new \in Tokens
    <3>1. token[t] \in Tokens
      BY <1>1, <1>2
    <3>2. g \in Nat
      BY <1>0, <3>1 DEF Tokens
    <3> QED
      BY <3>2 DEF Tokens
  <2> DEFINE spent == [token[t] EXCEPT !.status = "revoked"]
  <2>3. spent \in Tokens /\ spent.family = token[t].family /\ spent.status = "revoked"
    <3>1. token[t] \in Tokens
      BY <1>1, <1>2
    <3> QED
      BY <3>1 DEF Tokens
  <2>4. old = [token EXCEPT ![t] = spent]
    OBVIOUS
  <2> HIDE DEF old, new, spent
  <2>5. /\ old \in Seq(Tokens) /\ Len(old) = Len(token)
        /\ \A x \in 1 .. Len(token) : old[x] = IF x = t THEN spent ELSE token[x]
    BY <1>1, <1>2, <2>3, <2>4
  <2>6. /\ DOMAIN token' = 1 .. id /\ Len(token') = id /\ token'[id] = new
        /\ \A x \in 1 .. Len(token) : token'[x] = old[x]
    BY <1>0, <1>2, <2>1, <2>2, <2>5
  <2> QED
    BY <2>3, <2>5, <2>6 DEF new
<1>6. t \in Of(g) /\ p \in Flyers(g) /\ g \in 1 .. Len(token)
  BY <1>0, <1>1, <1>2 DEF Of, Flyers, Carries, TokensInv, FamiliesBegin
<1>7. \A x : Of(x)' = IF x = g THEN Of(x) \cup {id} ELSE Of(x)
  BY <1>0, <1>2, <1>5 DEF Of
<1>8. \A x \in 1 .. Len(token) : x < id /\ x # id
  BY <1>0, <1>2
<1>9. /\ \A x : id \notin Of(x)
      /\ \A j \in Jars : jar[j].refresh # id
      /\ \A c \in Calls : call[c].kind = "logout" \/ call[c].pc = "reply" => call[c].tok # id
      /\ \A q \in Pages : flight[q].tok # id
  BY <1>0, <1>2, HoldersPresent DEF Of
<1>10. \A x : /\ Keepers(x)' = Keepers(x) /\ Leavers(x)' = Leavers(x) /\ Replies(x)' = Replies(x)
              /\ Flyers(x)' = Flyers(x)
  <2> TAKE x
  <2>1. Keepers(x)' = Keepers(x) /\ Leavers(x)' = Leavers(x) /\ Replies(x)' = Replies(x)
    BY <1>1, <1>7, <1>9 DEF Keepers, Leavers, Replies
  <2>2. ASSUME NEW q \in Pages PROVE q \in Flyers(x)' <=> q \in Flyers(x)
    <3>1. CASE q = p
      <4>1. q \in Flyers(x)' <=> x = g
        BY <1>3, <1>4, <1>7, <1>9, <3>1 DEF Flyers, Carries
      <4>2. q \in Flyers(x) <=> x = g
        BY <1>0, <1>6, <3>1 DEF Flyers, Of
      <4> QED
        BY <4>1, <4>2
    <3>2. CASE q # p
      BY <1>4, <1>7, <1>9, <3>2 DEF Flyers
    <3> QED
      BY <3>1, <3>2
  <2>3. Flyers(x)' = Flyers(x)
    BY <2>2 DEF Flyers
  <2> QED
    BY <2>1, <2>3
<1>11. ASSUME NEW x \in 1 .. Len(token), x # g PROVE SameTokens(x) /\ Rests(x)
  <2>1. t \notin Of(x) /\ p \notin Flyers(x)
    BY <1>0, <1>11 DEF Of, Flyers
  <2>2. SameTokens(x)
    BY <1>2, <1>5, <1>7, <1>11, <2>1 DEF SameTokens, Of
  <2>3. \A q \in Pages : q \in Flyers(x) \cup Flyers(x)' => flight'[q] = flight[q]
    BY <1>4, <1>10, <2>1
  <2> QED
    BY <1>1, <2>2, <2>3, AwayRests
<1>12. OneBrowser(g)'
  <2>1. Home(g)' = Home(g)
    BY <1>1, <1>10 DEF Home, Jar
  <2> QED
    BY <1>6, <2>1 DEF TokensInv, Orderly, OneBrowser
<1>13. ASSUME g \notin excused PROVE InTurn(g)'
  <2>1. InTurn(g)
    BY <1>6, <1>13 DEF TokensInv, Orderly
  <2>2. /\ Leavers(g) = {} /\ Replies(g) = {} /\ Current(g, t) /\ \A q \in Flyers(g) : q = p
    BY <1>0, <1>6, <2>1 DEF InTurn
  <2>3. ASSUME NEW x \in Of(g)', NEW y \in Of(g)', x < y PROVE token'[x].status = "revoked"
    <3>1. x \in Of(g) /\ x \in 1 .. Len(token) /\ (y \in Of(g) \/ y = id)
      <4>1. x \in Of(g) \cup {id} /\ y \in Of(g) \cup {id}
        BY <1>7
      <4>2. Of(g) \subseteq 1 .. Len(token)
        BY <1>2 DEF Of
      <4>3. x # id
        BY <1>2, <1>8, <2>3, <4>1, <4>2
      <4> QED
        BY <4>1, <4>2, <4>3
    <3>2. CASE x = t
      BY <1>5, <3>1, <3>2
    <3>3. CASE x # t
      <4>1. x < t /\ t \in Of(g)
        BY <1>1, <1>6, <2>2, <3>1, <3>3 DEF Current
      <4>2. token[x].status = "revoked"
        BY <2>1, <3>1, <4>1 DEF InTurn
      <4> QED
        BY <1>5, <3>1, <3>3, <4>2
    <3> QED
      BY <3>2, <3>3
  <2>4. Current(g, id)'
    <3>1. token'[id].status # "revoked"
      BY <1>5
    <3>2. \A u \in Of(g)' : u <= id
      <4>1. Of(g)' = Of(g) \cup {id}
        BY <1>7
      <4>2. Of(g) \subseteq 1 .. Len(token)
        BY <1>2 DEF Of
      <4> QED
        BY <1>2, <1>8, <4>1, <4>2
    <3> QED
      BY <3>1, <3>2 DEF Current
  <2>5. ASSUME NEW q \in Flyers(g)' PROVE flight'[q].pc # "reuse" /\ Current(g, flight[q].tok)'
    <3>1. q = p /\ flight'[q].tok = id /\ flight'[q].pc = "rotated"
      BY <1>3, <1>4, <1>10, <2>2
    <3> QED
      BY <2>4, <3>1
  <2>6. Changing(g)'
    BY <1>3, <1>4, <1>6, <1>10 DEF Changing
  <2>7. (\A x, y \in Flyers(g) : x = y)'
    BY <1>10, <2>2
  <2>8. Leavers(g)' = {} /\ Replies(g)' = {}
    BY <1>10, <2>2
  <2> QED
    BY <2>3, <2>5, <2>6, <2>7, <2>8 DEF InTurn
<1>14. Orderly'
  <2>1. \A x \in 1 .. Len(token') : x # g => x \in 1 .. Len(token) \/ x = id
    BY <1>0, <1>2, <1>5
  <2>2. id # g => OneBrowser(id)' /\ InTurn(id)'
    <3>1. ASSUME id # g PROVE Of(id)' = {}
      <4>1. \A x \in 1 .. Len(token) : token[x].family # id
        BY <1>0, <1>2 DEF TokensInv, FamiliesBegin
      <4>2. Of(id) = {}
        BY <1>2, <4>1 DEF Of
      <4> QED
        BY <1>7, <3>1, <4>2
    <3>2. ASSUME id # g PROVE Home(id)' = {}
      BY <3>1, <3>2 DEF Home, Keepers, Flyers, Leavers, Replies
    <3> QED
      BY <1>1, <3>1, <3>2 DEF OneBrowser, InTurn, Keepers, Flyers, Leavers, Replies,
                              SessionsInv, SessionsTyped
  <2> QED
    BY <1>1, <1>11, <1>12, <1>13, <2>1, <2>2, RestsHome, RestsInTurn DEF TokensInv, Orderly
<1>15. FamiliesBegin'
  <2>1. ASSUME NEW x \in 1 .. id PROVE token'[x].family \in 1 .. x
    <3>1. CASE x = id
      BY <1>2, <1>5, <1>6, <1>8, <3>1
    <3>2. CASE x # id
      BY <1>0, <1>2, <1>5, <3>2 DEF TokensInv, FamiliesBegin
    <3> QED
      BY <3>1, <3>2
  <2> QED
    BY <1>5, <2>1 DEF FamiliesBegin
<1>16. Leaving' /\ AlarmsExplained'
  BY <1>0, <1>1, <1>2, <1>5 DEF TokensInv, Leaving, AlarmsExplained
<1>17. Closed'
  <2>1. ASSUME NEW x \in ended
        PROVE  /\ x \in 1 .. Len(token') /\ \A y \in Of(x)' : token'[y].status # "live"
               /\ \A q \in Flyers(x)' : flight'[q].pc # "read"
    <3>1. /\ x \in 1 .. Len(token) /\ \A y \in Of(x) : token[y].status # "live"
          /\ \A q \in Flyers(x) : flight[q].pc # "read"
      BY DEF TokensInv, Closed
    <3>2. x # g
      BY <1>1, <1>6, <3>1
    <3>3. Of(x)' = Of(x) /\ Flyers(x)' = Flyers(x) /\ p \notin Flyers(x)
      BY <1>1, <1>7, <1>10, <3>1, <3>2
    <3>4. \A y \in Of(x) : token'[y].status # "live"
      BY <1>2, <1>5, <3>1 DEF Of
    <3>5. \A q \in Flyers(x) : flight'[q] = flight[q]
      BY <1>4, <3>3 DEF Flyers
    <3> QED
      BY <1>0, <1>2, <1>5, <3>1, <3>3, <3>4, <3>5
  <2> QED
    BY <1>1, <2>1 DEF Closed
<1> QED
  BY <1>14, <1>15, <1>16, <1>17 DEF TokensInv

(* The answer brings the newest token to the browser that asked.            *)
LEMMA RefreshAnswerOrders ==
  ASSUME SessionsInv, TokensInv, NEW p \in Pages, RefreshAnswer(p)
  PROVE  TokensInv'
<1>0. PICK t, g, j : t = flight[p].tok /\ g = token[t].family /\ j = jarOf[p]
  OBVIOUS
<1> DEFINE cookies == SetSessionCookies(j, t, flight[p].mfa)
<1>1. /\ flight[p].pc = "rotated" /\ jar' = cookies /\ Settle(p, TRUE, cookies[j])
      /\ UNCHANGED <<token, pageOf, jarOf, excused, ended, alarms>>
  BY <1>0 DEF RefreshAnswer, history
<1>2. /\ t \in 1 .. Len(token) /\ j \in Jars /\ DOMAIN jar = Jars
      /\ DOMAIN token = 1 .. Len(token) /\ Len(token) \in Nat
  BY <1>0, <1>1 DEF SessionsInv, SessionsTyped, Flying, Flights
<1>3. \A i \in Jars : jar'[i].refresh = IF i = j THEN t ELSE jar[i].refresh
  BY <1>1, <1>2 DEF SetSessionCookies
<1> HIDE DEF cookies
<1>4. CallsRest /\ flight'[p].pc = "settled" /\ \A q \in Pages : q # p => flight'[q] = flight[q]
  BY <1>1, SettleRests
<1>5. t \in Of(g) /\ p \in Flyers(g) /\ g \in 1 .. Len(token)
  BY <1>0, <1>1, <1>2 DEF Of, Flyers, Carries, TokensInv, FamiliesBegin
<1>6. \A f : SameTokens(f) /\ Of(f)' = Of(f) /\ \A x : Current(f, x)' <=> Current(f, x)
  BY <1>1 DEF SameTokens, Of, Current
<1>7. \A f : /\ Leavers(f)' \subseteq Leavers(f) /\ Replies(f)' \subseteq Replies(f)
             /\ Flyers(f)' = Flyers(f) \ {p} /\ Keepers(f)' \subseteq Keepers(f) \cup {j}
  BY <1>3, <1>4, <1>6 DEF CallsRest, Keepers, Leavers, Replies, Flyers, Carries
<1>8. ASSUME NEW f, f # g PROVE Rests(f)
  <2>1. t \notin Of(f) /\ p \notin Flyers(f)
    BY <1>0, <1>8 DEF Of, Flyers
  <2>2. \A i \in Keepers(f)' : i \in Keepers(f) /\ jar'[i].refresh = jar[i].refresh
    BY <1>3, <1>6, <2>1 DEF Keepers
  <2>3. \A q \in Flyers(f) : q \in Flyers(f)' /\ flight'[q] = flight[q]
    BY <1>4, <1>7, <2>1 DEF Flyers
  <2>4. Changing(f) => Changing(f)'
    <3>1. ASSUME NEW c \in Leavers(f), call[c].pc = "bye" PROVE c \in Leavers(f)' /\ call'[c].pc = "bye"
      BY <1>4, <1>6, <3>1 DEF CallsRest, Leavers
    <3> QED
      BY <2>3, <3>1 DEF Changing
  <2> QED
    BY <1>4, <1>7, <2>1, <2>2, <2>3, <2>4 DEF Rests, CallsRest, Replies
<1>9. PICK i \in Jars : Home(g) \subseteq {i}
  BY <1>5 DEF TokensInv, Orderly, OneBrowser
<1>10. j = i
  BY <1>0, <1>5, <1>9 DEF Home
<1>11. OneBrowser(g)'
  <2>1. Home(g)' \subseteq Home(g)
    BY <1>0, <1>1, <1>5, <1>7 DEF Home, Jar
  <2> QED
    BY <1>9, <2>1 DEF OneBrowser
<1>12. ASSUME g \notin excused PROVE InTurn(g)'
  <2>1. InTurn(g)
    BY <1>5, <1>12 DEF TokensInv, Orderly
  <2>2. Leavers(g) = {} /\ Replies(g) = {} /\ Current(g, t) /\ \A q \in Flyers(g) : q = p
    BY <1>0, <1>5, <2>1 DEF InTurn
  <2>3. Leavers(g)' = {} /\ Replies(g)' = {} /\ Flyers(g)' = {}
    BY <1>7, <2>2
  <2>4. Keepers(g)' \subseteq {j}
    BY <1>7, <1>9, <1>10 DEF Home
  <2>5. (\A k \in Keepers(g) : Current(g, jar[k].refresh))'
    BY <1>2, <1>3, <1>6, <2>2, <2>4
  <2>6. (\A x, y \in Of(g) : x < y => token[x].status = "revoked")'
    BY <1>1, <1>6, <2>1 DEF InTurn
  <2> QED
    BY <2>3, <2>5, <2>6 DEF InTurn
<1>13. Orderly'
  BY <1>1, <1>6, <1>8, <1>11, <1>12, FamiliesKeep DEF TokensInv
<1>14. Leaving'
  BY <1>1, <1>4 DEF TokensInv, Leaving, CallsRest
<1>15. Closed'
  <2>1. ASSUME NEW f, NEW q \in Flyers(f)' PROVE q \in Flyers(f) /\ flight'[q] = flight[q]
    BY <1>4, <1>7, <2>1 DEF Flyers
  <2> QED
    BY <1>1, <1>6, <2>1 DEF TokensInv, Closed
<1> QED
  BY <1>1, <1>13, <1>14, <1>15 DEF TokensInv, AlarmsExplained, FamiliesBegin

LEMMA RefreshFailsOrders ==
  ASSUME SessionsInv, TokensInv, NEW p \in Pages, RefreshFails(p)
  PROVE  TokensInv'
<1>0. PICK g : g = token[flight[p].tok].family
  OBVIOUS
<1>1. /\ Settle(p, FALSE, NoAccess) /\ UNCHANGED <<token, jar, pageOf, jarOf, ended, alarms>>
      /\ excused' = IF flight[p].pc = "rotated" THEN excused \cup {g} ELSE excused
  BY <1>0 DEF RefreshFails, browser
<1>2. CASE flight[p].pc # "rotated"
  BY <1>1, <1>2, SettledRests
<1>3. CASE flight[p].pc = "rotated"
  <2>1. CallsRest /\ flight'[p].pc = "settled" /\ \A q \in Pages : q # p => flight'[q] = flight[q]
    BY <1>1, SettleRests
  <2>2. \A f : SameTokens(f) /\ Of(f)' = Of(f)
    BY <1>1 DEF SameTokens, Of
  <2>3. \A f : /\ Leavers(f)' \subseteq Leavers(f) /\ Replies(f)' \subseteq Replies(f)
               /\ Flyers(f)' = Flyers(f) \ {p} /\ Keepers(f)' = Keepers(f)
    BY <1>1, <2>1, <2>2 DEF CallsRest, Keepers, Leavers, Replies, Flyers, Carries
  <2>4. ASSUME NEW f, f # g PROVE Rests(f)
    <3>1. p \notin Flyers(f)
      BY <1>0, <2>4 DEF Of, Flyers
    <3>2. \A q \in Flyers(f) : q \in Flyers(f)' /\ flight'[q] = flight[q]
      BY <2>1, <2>3, <3>1 DEF Flyers
    <3>3. Changing(f) => Changing(f)'
      <4>1. ASSUME NEW c \in Leavers(f), call[c].pc = "bye" PROVE c \in Leavers(f)' /\ call'[c].pc = "bye"
        BY <2>1, <2>2, <4>1 DEF CallsRest, Leavers
      <4> QED
        BY <3>2, <4>1 DEF Changing
    <3> QED
      BY <1>1, <2>1, <2>3, <3>1, <3>2, <3>3 DEF Rests, CallsRest, Replies
  <2>5. g \in 1 .. Len(token') => OneBrowser(g)' /\ g \in excused'
    <3>1. Home(g)' \subseteq Home(g)
      BY <1>1, <2>3 DEF Home, Jar
    <3> QED
      BY <1>1, <1>3, <3>1 DEF TokensInv, Orderly, OneBrowser
  <2>6. Orderly'
    BY <1>1, <2>2, <2>4, <2>5, FamiliesKeep DEF TokensInv
  <2>7. Leaving'
    BY <1>1, <2>1 DEF TokensInv, Leaving, CallsRest
  <2>8. Closed'
    <3>1. ASSUME NEW f, NEW q \in Flyers(f)' PROVE q \in Flyers(f) /\ flight'[q] = flight[q]
      BY <2>1, <2>3, <3>1 DEF Flyers
    <3> QED
      BY <1>1, <2>2, <3>1 DEF TokensInv, Closed
  <2> QED
    BY <1>1, <2>6, <2>7, <2>8 DEF TokensInv, AlarmsExplained, FamiliesBegin
<1> QED
  BY <1>2, <1>3

LEMMA ExpiryOrders ==
  ASSUME SessionsInv, TokensInv,
         \/ \E j \in Jars : AccessExpires(j)
         \/ \E t \in DOMAIN token : RefreshExpires(t)
         \/ \E p \in Pages : ClearFlight(p)
         \/ LockExpires \/ Disable \/ UNCHANGED sessionsVars
  PROVE  TokensInv'
<1>1. CASE LockExpires \/ Disable \/ UNCHANGED sessionsVars
  <2>1. UNCHANGED <<token, jar, pageOf, jarOf, call, flight, excused, ended, alarms>>
    BY <1>1 DEF LockExpires, Disable, sessionsVars, browser, history
  <2> QED
    BY <2>1, QuietStep DEF CallsRest, FlightsRest, CookiesRest
<1>2. ASSUME NEW j \in Jars, AccessExpires(j) PROVE TokensInv'
  <2>1. /\ jar' = [jar EXCEPT ![j].access = NoAccess]
        /\ UNCHANGED <<token, pageOf, jarOf, call, flight, excused, ended, alarms>>
    BY <1>2 DEF AccessExpires, history
  <2>2. CookiesRest
    <3>1. \A i \in Jars : jar[i] \in [access : Accesses, refresh : Nat]
      BY DEF SessionsInv
    <3> QED
      BY <2>1, <3>1 DEF CookiesRest, SessionsInv, SessionsTyped
  <2> QED
    BY <2>1, <2>2, QuietStep DEF CallsRest, FlightsRest
<1>3. ASSUME NEW p \in Pages, ClearFlight(p) PROVE TokensInv'
  <2>1. /\ flight[p].pc = "settled" /\ flight' = [flight EXCEPT ![p] = NoFlight]
        /\ UNCHANGED <<token, jar, pageOf, jarOf, call, excused, ended, alarms>>
    BY <1>3 DEF ClearFlight, browser, history
  <2>2. /\ flight'[p].pc = "none" /\ \A q \in Pages : q # p => flight'[q] = flight[q]
    BY <2>1 DEF NoFlight, SessionsInv, SessionsTyped
  <2>3. FlightsRest
    BY <2>1, <2>2 DEF FlightsRest, Carries
  <2> QED
    BY <2>1, <2>3, QuietStep DEF CallsRest, CookiesRest
<1>4. ASSUME NEW t \in DOMAIN token, RefreshExpires(t) PROVE TokensInv'
  <2>1. /\ token[t].status = "live" /\ token' = [token EXCEPT ![t].status = "expired"]
        /\ UNCHANGED <<jar, pageOf, jarOf, call, flight, excused, ended, alarms>>
    BY <1>4 DEF RefreshExpires, browser, history
  <2>2. token \in Seq(Tokens) /\ Len(token) \in Nat /\ DOMAIN token = 1 .. Len(token)
    BY DEF SessionsInv, SessionsTyped
  <2>3. /\ Len(token') = Len(token) /\ DOMAIN token' = DOMAIN token
        /\ \A x \in DOMAIN token : /\ token'[x].family = token[x].family
                                   /\ token'[x].status = IF x = t THEN "expired" ELSE token[x].status
    <3> DEFINE old == [token[t] EXCEPT !.status = "expired"]
    <3>1. old \in Tokens /\ old.family = token[t].family /\ old.status = "expired"
      <4>1. token[t] \in Tokens
        BY <2>2
      <4> QED
        BY <4>1 DEF Tokens
    <3>2. token' = [token EXCEPT ![t] = old]
      BY <2>1
    <3> HIDE DEF old
    <3> QED
      BY <2>2, <3>1, <3>2
  <2>4. \A f : Of(f)' = Of(f)
    BY <2>3 DEF Of
  <2>5. \A f : SameTokens(f)
    BY <2>1, <2>3, <2>4 DEF SameTokens, Of
  <2>6. CallsRest /\ FlightsRest /\ CookiesRest
    BY <2>1 DEF CallsRest, FlightsRest, CookiesRest
  <2>7. Orderly'
    <3>1. 0 \notin 1 .. Len(token')
      BY <2>2, <2>3
    <3> QED
      BY <2>1, <2>3, <2>5, <2>6, <3>1, AllRest, FamiliesKeep DEF TokensInv
  <2>8. Closed'
    <3>1. ASSUME NEW f \in ended, NEW x \in Of(f) PROVE token'[x].status # "live"
      BY <2>3, <3>1 DEF TokensInv, Closed, Of
    <3>2. \A f : Flyers(f)' = Flyers(f)
      BY <2>1, <2>4 DEF Flyers
    <3> QED
      BY <2>1, <2>3, <2>4, <3>1, <3>2 DEF TokensInv, Closed
  <2>9. Leaving' /\ FamiliesBegin' /\ AlarmsExplained'
    BY <2>1, <2>3 DEF TokensInv, Leaving, FamiliesBegin, AlarmsExplained
  <2> QED
    BY <2>7, <2>8, <2>9 DEF TokensInv
<1> QED
  BY <1>1, <1>2, <1>3, <1>4
-----------------------------------------------------------------------------
LEMMA SessionsInitOrders == SessionsInit => TokensInv
<1> SUFFICES ASSUME SessionsInit PROVE TokensInv
  OBVIOUS
<1>1. token = <<>> /\ Len(token) = 0 /\ DOMAIN token = {} /\ 1 .. Len(token) = {}
  BY DEF SessionsInit
<1>2. \A c \in Calls : call[c].kind = "none"
  BY DEF SessionsInit, Idle
<1>3. FamiliesBegin /\ Leaving /\ Orderly
  BY <1>1, <1>2 DEF FamiliesBegin, Leaving, Orderly
<1>4. AlarmsExplained /\ Closed
  BY DEF SessionsInit, AlarmsExplained, Closed
<1> QED
  BY <1>3, <1>4 DEF TokensInv

LEMMA TokensStepKeeps == SessionsInv /\ TokensInv /\ [SessionsNext]_sessionsVars => TokensInv'
<1> SUFFICES ASSUME SessionsInv, TokensInv, [SessionsNext]_sessionsVars PROVE TokensInv'
  OBVIOUS
<1>1. ASSUME NEW c \in Calls,
             \/ \E k \in Kinds, right \in BOOLEAN, code \in NoCode .. known : Send(c, k, right, code)
             \/ Unauthorized(c)
             \/ IssueSession(c) \/ SignedIn(c) \/ LogoutRevoke(c) \/ LoggedOut(c) \/ CallFails(c)
      PROVE  TokensInv'
  BY <1>1, SendOrders, UnauthorizedOrders, IssueSessionOrders, SignedInOrders,
     LogoutRevokeOrders, LoggedOutOrders, CallFailsOrders
<1>2. ASSUME NEW c \in Calls,
             \/ Authenticate(c) \/ LoginRead(c) \/ RegisterFailedLogin(c) \/ LoginReset(c)
             \/ BeginRead(c) \/ BeginWrite(c) \/ ActivateRead(c) \/ CompleteRead(c) \/ EnableMfa(c)
      PROVE  TokensInv'
  BY <1>2, HandlersRest
<1>3. ASSUME NEW p \in Pages,
             \/ RefreshRead(p) \/ RefreshRevokes(p) \/ RefreshRotate(p) \/ RefreshAnswer(p)
             \/ RefreshFails(p)
      PROVE  TokensInv'
  BY <1>3, RefreshReadOrders, RefreshRevokesOrders, RefreshRotateOrders, RefreshAnswerOrders,
     RefreshFailsOrders
<1>4. CASE \/ \E j \in Jars : AccessExpires(j)
           \/ \E t \in DOMAIN token : RefreshExpires(t)
           \/ \E p \in Pages : ClearFlight(p)
           \/ LockExpires \/ Disable \/ UNCHANGED sessionsVars
  BY <1>4, ExpiryOrders
<1> QED
  BY <1>1, <1>2, <1>3, <1>4 DEF SessionsNext

LEMMA TokensInvariance == SessionsSpec => [](SessionsInv /\ TokensInv)
<1>1. SessionsInit => SessionsInv /\ TokensInv
  BY SessionsInitEstablishes, SessionsInitOrders
<1>2. SessionsInv /\ TokensInv /\ [SessionsNext]_sessionsVars => (SessionsInv /\ TokensInv)'
  BY SessionsStepKeeps, TokensStepKeeps
<1> QED
  BY <1>1, <1>2, PTL DEF SessionsSpec

(* However many pages, browsers and requests use the account: a family has  *)
(* two live refresh tokens only if two of its requests overlapped or an     *)
(* answer was lost.                                                         *)
THEOREM OneTokenIsLive == SessionsSpec => []OneLiveToken
<1>1. SessionsInv /\ TokensInv => OneLiveToken
  <2> SUFFICES ASSUME SessionsInv, TokensInv, NEW t \in DOMAIN token, token[t].family \notin excused
               PROVE  Cardinality(Live(token[t].family)) <= 1
    BY DEF OneLiveToken
  <2> DEFINE f == token[t].family
  <2>1. DOMAIN token = 1 .. Len(token) /\ Len(token) \in Nat
    BY DEF SessionsInv, SessionsTyped
  <2>2. InTurn(f)
    BY <2>1 DEF TokensInv, Orderly, FamiliesBegin
  <2>3. \A x, y \in Live(f) : x = y
    <3>1. ASSUME NEW x \in Live(f), NEW y \in Live(f), x < y PROVE FALSE
      BY <2>2, <3>1 DEF Live, Of, InTurn
    <3>2. Live(f) \subseteq Nat
      BY <2>1 DEF Live
    <3> QED
      BY <3>1, <3>2
  <2>4. CASE Live(f) = {}
    BY <2>4, FS_EmptySet
  <2>5. ASSUME NEW x \in Live(f) PROVE Cardinality(Live(f)) <= 1
    <3>1. Live(f) = {x}
      BY <2>3
    <3> QED
      BY <3>1, FS_Singleton
  <2> QED
    BY <2>4, <2>5
<1> QED
  BY <1>1, TokensInvariance, PTL

(* The alarm of a stolen token is raised only for a family whose requests   *)
(* overlapped or that lost an answer: one page that waits for its answers   *)
(* never raises it.                                                         *)
THEOREM AlarmsAreExplained == SessionsSpec => []AlarmsExplained
<1>1. TokensInv => AlarmsExplained
  BY DEF TokensInv
<1> QED
  BY <1>1, TokensInvariance, PTL

(* A family revoked by reuse or by sign-out never has a live token again,   *)
(* unless a refresh had read its token when it was revoked.                 *)
THEOREM RevocationsAreFinal == SessionsSpec => []RevocationFinal
<1>1. TokensInv => RevocationFinal
  BY DEF TokensInv, Closed, RevocationFinal, Live, Of
<1> QED
  BY <1>1, TokensInvariance, PTL
=============================================================================
