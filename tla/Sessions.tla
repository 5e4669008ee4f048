------------------------------ MODULE Sessions ------------------------------
(***************************************************************************)
(* One account of apps/api/src/modules/auth: sign-in, lockout, enrolment of *)
(* a second factor, refresh-token families; and the browsers that use it    *)
(* through apps/web/src/lib/api.ts, whose 401s start a single-flight refresh*)
(* and one retry.  Pages (tabs) may share a cookie jar or be on different   *)
(* devices.  Every await of a handler ends an action.                       *)
(*                                                                         *)
(* A secret, a refresh token and a family are numbers in order of creation; *)
(* a family is the number of its first token.  A code is the number of the  *)
(* secret it was computed from, NoCode when none or a wrong one is sent.    *)
(***************************************************************************)
EXTENDS Integers, Sequences, FiniteSets

CONSTANTS
  Calls,             \* requests a browser may have outstanding
  Pages,             \* browser tabs
  Jars,              \* cookie jars: browsers
  Layouts,           \* which page makes each call, which jar each page uses
  MaxFailedLogins,   \* MAX_FAILED_LOGINS
  MaxTokens,         \* bound: refresh tokens ever created
  MaxSecrets,        \* bound: authenticator secrets ever generated
  MaxRequests        \* bound: calls of api() made by all pages together

ASSUME SessionsAssumption ==
  /\ MaxFailedLogins \in Nat \ {0} /\ MaxTokens \in Nat
  /\ MaxSecrets \in Nat /\ MaxRequests \in Nat
  /\ Layouts \subseteq [pageOf : [Calls -> Pages], jarOf : [Pages -> Jars]]

VARIABLES
  user,       \* the account's row
  mandatory,  \* roleRequiresMfa(role)
  known,      \* secrets shown to the account's owner
  token,      \* refresh tokens: family and status
  pageOf, jarOf,   \* where each call comes from, which cookies a page uses
  jar,        \* cookies of each browser
  step,       \* LoginPage's step on each page, with its challenge token
  call,       \* requests, from send to answer
  requests,   \* how many were made
  flight,     \* refreshInFlight of each page, with the server's side of it
  verified,   \* history: families whose sign-in checked a code
  excused,    \* history: families used twice at once, or whose answer was lost
  ended,      \* history: families revoked while no refresh of them was past its read
  alarms      \* history: families reported as TOKEN_REUSE_DETECTED

account == <<user, mandatory, known>>
browser == <<pageOf, jarOf, jar, step>>
history == <<verified, excused, ended, alarms>>
sessionsVars == <<account, token, browser, call, flight, requests, history>>

NoCode   == 0
NoAccess == [family |-> 0, mfa |-> FALSE]
NoRow    == [active |-> TRUE, mfa |-> FALSE, secret |-> 0, failed |-> 0, locked |-> FALSE]
Idle     == [kind |-> "none", pc |-> "idle", retried |-> FALSE, right |-> FALSE, code |-> NoCode,
             access |-> NoAccess, tok |-> 0, row |-> NoRow, proven |-> FALSE]
NoFlight == [pc |-> "none", tok |-> 0, mfa |-> FALSE, ok |-> FALSE]

Kinds    == {"get", "login", "enrol", "verify", "setup", "activate", "logout"}
InSession == {"get", "setup", "activate"}        \* routes behind requireAuth

Jar(c) == jarOf[pageOf[c]]
Live(f) == {t \in DOMAIN token : token[t].family = f /\ token[t].status = "live"}
UserIs(r) == user' = r
UnchangedBut(c, record) ==
  /\ call' = [call EXCEPT ![c] = record]
  /\ UNCHANGED flight
Move(c, pc) == UnchangedBut(c, [call[c] EXCEPT !.pc = pc])
Ends(c)     == UnchangedBut(c, Idle)
At(c, kinds, pc) == call[c].kind \in kinds /\ call[c].pc = pc

(* Refreshes and sign-outs now carrying a token of family f.                *)
Carrying(f) ==
  {p \in Pages : flight[p].pc \in {"sent", "read", "reuse", "rotated"} /\ flight[p].tok # 0
                 /\ token[flight[p].tok].family = f}
  \cup {c \in Calls : call[c].kind = "logout" /\ call[c].tok # 0 /\ token[call[c].tok].family = f}
Mixed(t) == IF t # 0 /\ Carrying(token[t].family) # {}
            THEN excused \cup {token[t].family} ELSE excused
-----------------------------------------------------------------------------
(* The client side: api(), LoginPage, useAuth.                              *)

(* What LoginPage's form can send at its step.                              *)
FormAllows(c, k, right, code) ==
  /\ k \in {"enrol", "verify"} => step[pageOf[c]] # "CREDENTIALS"
  /\ k # "login" => ~right
  /\ k \notin {"login", "verify", "activate"} => code = NoCode

(* fetch() in api(): cookies are attached as they are now.                  *)
Send(c, k, right, code) ==
  /\ call[c] = Idle /\ requests < MaxRequests
  /\ requests' = requests + 1
  /\ FormAllows(c, k, right, code)
  /\ UnchangedBut(c, [Idle EXCEPT !.kind = k, !.pc = "sent", !.right = right, !.code = code,
       !.access = IF k \in InSession THEN jar[Jar(c)].access ELSE NoAccess,
       !.tok = IF k = "logout" THEN jar[Jar(c)].refresh ELSE 0])
  /\ excused' = IF k = "logout" THEN Mixed(jar[Jar(c)].refresh) ELSE excused
  /\ UNCHANGED <<account, token, browser, verified, ended, alarms>>

(* A call whose refresh ended goes out once more with the cookies of now,   *)
(* or fails.                                                                *)
Continued(r, ok, cookies) ==
  IF ~ok THEN Idle
  ELSE [r EXCEPT !.pc = "sent", !.retried = TRUE,
                 !.access = IF r.kind \in InSession THEN cookies.access ELSE NoAccess]

(* refreshSession() after a 401: join the page's refresh in flight, share   *)
(* the outcome of one that has just settled, or start one.                  *)
Unauthorized(c) ==
  LET p == pageOf[c] IN
  /\ call[c].pc = "denied"
  /\ \/ /\ call[c].retried
        /\ Ends(c) /\ UNCHANGED history
     \/ /\ ~call[c].retried /\ flight[p].pc = "settled"
        /\ UnchangedBut(c, Continued(call[c], flight[p].ok, jar[jarOf[p]]))
        /\ UNCHANGED history
     \/ /\ ~call[c].retried /\ flight[p].pc \notin {"settled", "none"}
        /\ Move(c, "waiting") /\ UNCHANGED history
     \/ /\ ~call[c].retried /\ flight[p].pc = "none"
        /\ call' = [call EXCEPT ![c].pc = "waiting"]
        /\ flight' = [flight EXCEPT ![p] =
             [NoFlight EXCEPT !.pc = "sent", !.tok = jar[jarOf[p]].refresh]]
        /\ excused' = Mixed(jar[jarOf[p]].refresh)
        /\ UNCHANGED <<verified, ended, alarms>>
  /\ UNCHANGED <<account, token, browser, requests>>

(* The promise settles: everyone waiting for it goes on in the same tick.   *)
Settle(p, ok, cookies) ==
  /\ flight' = [flight EXCEPT ![p] = [NoFlight EXCEPT !.pc = "settled", !.ok = ok]]
  /\ call' = [c \in Calls |-> IF pageOf[c] = p /\ call[c].pc = "waiting"
                              THEN Continued(call[c], ok, cookies) ELSE call[c]]

(* setTimeout(() => refreshInFlight = null, 0)                              *)
ClearFlight(p) ==
  /\ flight[p].pc = "settled"
  /\ flight' = [flight EXCEPT ![p] = NoFlight]
  /\ UNCHANGED <<account, token, browser, call, history, requests>>
-----------------------------------------------------------------------------
(* plugins/auth.ts, plugins/security.ts.                                    *)

(* authenticate(): the token, then the row as it is now.                    *)
Admitted(access) ==
  /\ access.family # 0 /\ user.active
  /\ user.mfa => access.mfa

(* The double-submit check: the token cookie lives as long as the refresh   *)
(* cookie; without it a POST is 403.                                        *)
CsrfPasses(c) == jar[Jar(c)].refresh # 0

Authenticate(c) ==
  /\ At(c, InSession, "sent")
  /\ IF call[c].kind # "get" /\ ~CsrfPasses(c) THEN Ends(c)
     ELSE IF ~Admitted(call[c].access) THEN Move(c, "denied")
     ELSE IF call[c].kind = "get" THEN Ends(c)
     ELSE Move(c, "authed")
  /\ UNCHANGED <<account, token, browser, history, requests>>
-----------------------------------------------------------------------------
(* Sign-in.                                                                 *)

(* checkTotp(): a code is right when it was computed from the row's secret. *)
CheckTotp(row, code) == code # NoCode /\ code = row.secret

(* Mutant of Outcome: enrolment is demanded only once a factor is set up.   *)
OutcomeIfEnrolled(c, row) ==
  LET r == call[c] IN
  IF row.mfa /\ r.code = NoCode
  THEN Ends(c) /\ step' = [step EXCEPT ![pageOf[c]] = "MFA"]
  ELSE IF row.mfa /\ ~CheckTotp(row, r.code)
  THEN Move(c, "denied") /\ UNCHANGED step
  ELSE UnchangedBut(c, [r EXCEPT !.pc = "issue", !.proven = row.mfa, !.row = NoRow])
       /\ UNCHANGED step

(* The answer of login() once the password is right, by the row it read.    *)
Outcome(c, row) ==
  LET r == call[c] IN
  IF ~row.mfa /\ mandatory
  THEN Ends(c) /\ step' = [step EXCEPT ![pageOf[c]] = "ENROL"]
  ELSE IF row.mfa /\ r.code = NoCode
  THEN Ends(c) /\ step' = [step EXCEPT ![pageOf[c]] = "MFA"]
  ELSE IF row.mfa /\ ~CheckTotp(row, r.code)
  THEN Move(c, "denied") /\ UNCHANGED step
  ELSE UnchangedBut(c, [r EXCEPT !.pc = "issue", !.proven = row.mfa, !.row = NoRow])
       /\ UNCHANGED step

(* Mutant of LoginRead: the lock is not looked at.                          *)
LoginReadUnlocked(c) ==
  /\ At(c, {"login"}, "sent")
  /\ IF ~user.active THEN Move(c, "denied") /\ UNCHANGED step
     ELSE IF ~call[c].right
     THEN UnchangedBut(c, [call[c] EXCEPT !.pc = "fail", !.row = user]) /\ UNCHANGED step
     ELSE IF user.failed > 0 \/ user.locked
     THEN UnchangedBut(c, [call[c] EXCEPT !.pc = "reset", !.row = user]) /\ UNCHANGED step
     ELSE Outcome(c, user)
  /\ UNCHANGED <<account, token, pageOf, jarOf, jar, history, requests>>

(* login() up to its first write.                                           *)
LoginRead(c) ==
  /\ At(c, {"login"}, "sent")
  /\ IF user.locked \/ ~user.active THEN Move(c, "denied") /\ UNCHANGED step
     ELSE IF ~call[c].right
     THEN UnchangedBut(c, [call[c] EXCEPT !.pc = "fail", !.row = user]) /\ UNCHANGED step
     ELSE IF user.failed > 0
     THEN UnchangedBut(c, [call[c] EXCEPT !.pc = "reset", !.row = user]) /\ UNCHANGED step
     ELSE Outcome(c, user)
  /\ UNCHANGED <<account, token, pageOf, jarOf, jar, history, requests>>

(* registerFailedLogin(): both columns are computed from the row read.      *)
RegisterFailedLogin(c) ==
  LET failed == call[c].row.failed + 1
      lock   == failed >= MaxFailedLogins
  IN
  /\ At(c, {"login"}, "fail")
  /\ UserIs([user EXCEPT !.failed = IF lock THEN MaxFailedLogins ELSE failed, !.locked = lock])
  /\ UnchangedBut(c, [call[c] EXCEPT !.pc = "denied", !.row = NoRow])
  /\ UNCHANGED <<mandatory, known, token, browser, history, requests>>

LoginReset(c) ==
  /\ At(c, {"login"}, "reset")
  /\ UserIs([user EXCEPT !.failed = 0, !.locked = FALSE])
  /\ Outcome(c, call[c].row)
  /\ UNCHANGED <<mandatory, known, token, pageOf, jarOf, jar, history, requests>>

(* LOCKOUT_MINUTES later.  failedLogins stays, so the next failure locks.   *)
LockExpires ==
  /\ user.locked
  /\ UserIs([user EXCEPT !.locked = FALSE])
  /\ UNCHANGED <<mandatory, known, token, browser, call, flight, history, requests>>

(* isActive is cleared outside the API.                                     *)
Disable ==
  /\ user.active
  /\ UserIs([user EXCEPT !.active = FALSE])
  /\ UNCHANGED <<mandatory, known, token, browser, call, flight, history, requests>>
-----------------------------------------------------------------------------
(* Enrolment and second factor.                                             *)

(* What the challenge token that the page was handed allows: its purpose.   *)
Challenge(c) == step[pageOf[c]]

(* beginMfaEnrolment(), behind a session or an ENROL challenge.             *)
BeginRead(c) ==
  /\ At(c, {"setup"}, "authed") \/ At(c, {"enrol"}, "sent")
  /\ IF call[c].kind = "enrol" /\ Challenge(c) # "ENROL" THEN Move(c, "denied")
     ELSE IF user.mfa THEN Ends(c)
     ELSE Move(c, "begin")
  /\ UNCHANGED <<account, token, browser, history, requests>>

BeginWrite(c) ==
  /\ At(c, {"setup", "enrol"}, "begin") /\ known < MaxSecrets
  /\ known' = known + 1
  /\ UserIs([user EXCEPT !.secret = known + 1, !.mfa = FALSE])
  /\ Ends(c)
  /\ UNCHANGED <<mandatory, token, browser, history, requests>>

(* POST /mfa/activate looks at the row before it reuses the challenge path. *)
ActivateRead(c) ==
  /\ At(c, {"activate"}, "authed")
  /\ IF user.mfa THEN Ends(c) ELSE Move(c, "complete")
  /\ UNCHANGED <<account, token, browser, history, requests>>

(* completeMfaChallenge() up to its first write.  A challenge may also have *)
(* expired.                                                                 *)
CompleteRead(c) ==
  LET enrols == call[c].kind = "activate" \/ Challenge(c) = "ENROL" IN
  /\ At(c, {"activate"}, "complete") \/ At(c, {"verify"}, "sent")
  /\ \/ call[c].kind = "verify" /\ Move(c, "denied")
     \/ IF ~user.active \/ ~CheckTotp(user, call[c].code)
        THEN Move(c, "denied")
        ELSE IF enrols /\ user.mfa THEN Ends(c)
        ELSE UnchangedBut(c, [call[c] EXCEPT !.pc = IF enrols THEN "enable" ELSE "issue",
                                             !.proven = TRUE])
  /\ UNCHANGED <<account, token, browser, history, requests>>

EnableMfa(c) ==
  /\ At(c, {"activate", "verify"}, "enable")
  /\ UserIs([user EXCEPT !.mfa = TRUE])
  /\ Move(c, "issue")
  /\ UNCHANGED <<mandatory, known, token, browser, history, requests>>
-----------------------------------------------------------------------------
(* Sessions.                                                                *)

(* issueSession(): a family of one token; the access token says mfa exactly *)
(* when a code was checked.                                                 *)
IssueSession(c) ==
  LET id == Len(token) + 1 IN
  /\ call[c].pc = "issue" /\ id <= MaxTokens
  /\ token' = Append(token, [family |-> id, status |-> "live"])
  /\ UnchangedBut(c, [call[c] EXCEPT !.pc = "reply", !.tok = id])
  /\ verified' = IF call[c].proven THEN verified \cup {id} ELSE verified
  /\ UNCHANGED <<account, browser, excused, ended, alarms, requests>>

(* signAccessToken()                                                        *)
AccessToken(family, mfa) == [family |-> family, mfa |-> mfa]

(* Mutant of SetSessionCookies: the refresh cookie stays as it was.         *)
SetSessionCookiesButRefresh(j, tok, mfa) ==
  [jar EXCEPT ![j] = [access |-> AccessToken(token[tok].family, mfa),
                      refresh |-> IF @.refresh = 0 THEN tok ELSE @.refresh]]

SetSessionCookies(j, tok, mfa) ==
  [jar EXCEPT ![j] = [access |-> AccessToken(token[tok].family, mfa),
                      refresh |-> tok]]

SignedIn(c) ==
  /\ call[c].pc = "reply"
  /\ jar' = SetSessionCookies(Jar(c), call[c].tok, call[c].proven)
  /\ step' = [step EXCEPT ![pageOf[c]] = "CREDENTIALS"]
  /\ Ends(c)
  /\ UNCHANGED <<account, token, pageOf, jarOf, history, requests>>

(* refresh(): the token with its user.                                      *)
RefreshRead(p) ==
  LET t == flight[p].tok IN
  /\ flight[p].pc = "sent"
  /\ IF t # 0 /\ token[t].status = "revoked"
     THEN /\ flight' = [flight EXCEPT ![p].pc = "reuse"]
          /\ alarms' = alarms \cup {token[t].family}
          /\ UNCHANGED call
     ELSE /\ IF t = 0 \/ token[t].status = "expired" \/ ~user.active
             THEN Settle(p, FALSE, NoAccess)
             ELSE flight' = [flight EXCEPT ![p].pc = "read", ![p].mfa = user.mfa]
                  /\ UNCHANGED call
          /\ UNCHANGED alarms
  /\ UNCHANGED <<account, token, browser, verified, excused, ended, requests>>

(* Mutant of RevokeFamily: only the token presented is revoked.             *)
RevokeOne(f, t) == token' = [token EXCEPT ![t].status = "revoked"] /\ ended' = ended \cup {f}

(* revokeFamily().  A refresh that has already read its token is not        *)
(* stopped by it.                                                           *)
RevokeFamily(f, t) ==
  /\ token' = [i \in DOMAIN token |->
                 IF token[i].family = f THEN [token[i] EXCEPT !.status = "revoked"] ELSE token[i]]
  /\ ended' = IF \E p \in Pages : flight[p].pc = "read" /\ token[flight[p].tok].family = f
              THEN ended ELSE ended \cup {f}

RefreshRevokes(p) ==
  LET t == flight[p].tok IN
  /\ flight[p].pc = "reuse"
  /\ RevokeFamily(token[t].family, t)
  /\ Settle(p, FALSE, NoAccess)
  /\ UNCHANGED <<account, browser, verified, excused, alarms, requests>>

(* Mutant of RefreshRotate: the presented token is not revoked.             *)
RefreshAdds(p) ==
  LET t == flight[p].tok IN
  /\ flight[p].pc = "read" /\ Len(token) < MaxTokens
  /\ token' = Append(token, [family |-> token[t].family, status |-> "live"])
  /\ flight' = [flight EXCEPT ![p].pc = "rotated", ![p].tok = Len(token) + 1]
  /\ UNCHANGED <<account, browser, call, history, requests>>

(* The transaction of refresh(): neither statement looks at revokedAt.      *)
RefreshRotate(p) ==
  LET t == flight[p].tok IN
  /\ flight[p].pc = "read" /\ Len(token) < MaxTokens
  /\ token' = Append([token EXCEPT ![t].status = "revoked"],
                     [family |-> token[t].family, status |-> "live"])
  /\ flight' = [flight EXCEPT ![p].pc = "rotated", ![p].tok = Len(token) + 1]
  /\ UNCHANGED <<account, browser, call, history, requests>>

(* The answer arrives; the new access token carries the row's mfaEnabled as *)
(* refresh() read it.                                                       *)
RefreshAnswer(p) ==
  LET cookies == SetSessionCookies(jarOf[p], flight[p].tok, flight[p].mfa) IN
  /\ flight[p].pc = "rotated"
  /\ jar' = cookies
  /\ Settle(p, TRUE, cookies[jarOf[p]])
  /\ UNCHANGED <<account, token, pageOf, jarOf, step, history, requests>>

(* The request, the handler or the answer fails: fetch() throws or the      *)
(* server says 500.                                                         *)
RefreshFails(p) ==
  /\ flight[p].pc \in {"sent", "read", "reuse", "rotated"}
  /\ Settle(p, FALSE, NoAccess)
  /\ excused' = IF flight[p].pc = "rotated"
                THEN excused \cup {token[flight[p].tok].family} ELSE excused
  /\ UNCHANGED <<account, token, browser, verified, ended, alarms, requests>>

(* logout() finds the token of the cookie; without one there is no CSRF     *)
(* cookie either and the POST is 403.                                       *)
LogoutRevoke(c) ==
  /\ At(c, {"logout"}, "sent")
  /\ IF call[c].tok = 0
     THEN Ends(c) /\ UNCHANGED <<token, ended>>
     ELSE RevokeFamily(token[call[c].tok].family, call[c].tok) /\ Move(c, "bye")
  /\ UNCHANGED <<account, browser, verified, excused, alarms, requests>>

(* clearSessionCookies()                                                    *)
LoggedOut(c) ==
  /\ At(c, {"logout"}, "bye")
  /\ jar' = [jar EXCEPT ![Jar(c)] = [access |-> NoAccess, refresh |-> 0]]
  /\ Ends(c)
  /\ UNCHANGED <<account, token, pageOf, jarOf, step, history, requests>>

(* The same for any other request.                                          *)
CallFails(c) ==
  /\ call[c].pc \notin {"idle", "denied", "waiting"}
  /\ Ends(c)
  /\ excused' = IF call[c].pc = "bye"
                THEN excused \cup {token[call[c].tok].family} ELSE excused
  /\ UNCHANGED <<account, token, browser, verified, ended, alarms, requests>>

AccessExpires(j) ==
  /\ jar[j].access # NoAccess
  /\ jar' = [jar EXCEPT ![j].access = NoAccess]
  /\ UNCHANGED <<account, token, pageOf, jarOf, step, call, flight, history, requests>>

RefreshExpires(t) ==
  /\ token[t].status = "live"
  /\ token' = [token EXCEPT ![t].status = "expired"]
  /\ UNCHANGED <<account, browser, call, flight, history, requests>>
-----------------------------------------------------------------------------
SessionsInit ==
  /\ user = NoRow /\ mandatory \in BOOLEAN /\ known = 0
  /\ token = <<>>
  /\ \E l \in Layouts : pageOf = l.pageOf /\ jarOf = l.jarOf
  /\ jar = [j \in Jars |-> [access |-> NoAccess, refresh |-> 0]]
  /\ step = [p \in Pages |-> "CREDENTIALS"]
  /\ call = [c \in Calls |-> Idle] /\ flight = [p \in Pages |-> NoFlight]
  /\ requests = 0
  /\ verified = {} /\ excused = {} /\ ended = {} /\ alarms = {}

SessionsNext ==
  \/ \E c \in Calls :
       \/ \E k \in Kinds, right \in BOOLEAN, code \in NoCode .. known : Send(c, k, right, code)
       \/ Unauthorized(c) \/ Authenticate(c)
       \/ LoginRead(c) \/ RegisterFailedLogin(c) \/ LoginReset(c)
       \/ BeginRead(c) \/ BeginWrite(c) \/ ActivateRead(c) \/ CompleteRead(c) \/ EnableMfa(c)
       \/ IssueSession(c) \/ SignedIn(c) \/ LogoutRevoke(c) \/ LoggedOut(c) \/ CallFails(c)
  \/ \E p \in Pages :
       \/ RefreshRead(p) \/ RefreshRevokes(p) \/ RefreshRotate(p) \/ RefreshAnswer(p)
       \/ RefreshFails(p) \/ ClearFlight(p)
  \/ \E j \in Jars : AccessExpires(j)
  \/ \E t \in DOMAIN token : RefreshExpires(t)
  \/ LockExpires \/ Disable

SessionsSpec == SessionsInit /\ [][SessionsNext]_sessionsVars
-----------------------------------------------------------------------------
(* However many refreshes of one family run, its live tokens are one unless *)
(* two of its requests overlapped or an answer was lost: a rotation leaves  *)
(* nothing usable behind (auth.service.ts, refresh).                        *)
OneLiveToken ==
  \A t \in DOMAIN token : LET f == token[t].family IN
    f \in excused \/ Cardinality(Live(f)) <= 1

(* A rotated token is "treated as theft".  Under api()'s single flight an   *)
(* honest browser raises that alarm only if two pages, or a page and a      *)
(* sign-out, used the family at once, or an answer was lost.                *)
AlarmsExplained == alarms \subseteq excused

(* revokeFamily(), by reuse or by sign-out, is final: unless a refresh had  *)
(* already read its token, the family never has a live token again.         *)
RevocationFinal == \A f \in ended : Live(f) = {}

(* "Administrators must complete MFA enrolment before a session is issued": *)
(* whatever enrolments, sign-ins and failures overlap, each session of such *)
(* an account began with a code.                                            *)
MandatoryVerified == mandatory => {token[t].family : t \in DOMAIN token} \subseteq verified

(* Before it expires, a lockout is lifted only by a sign-in that had read   *)
(* the row before the lock: parallel failures and successes undo it, later  *)
(* ones do not.                                                             *)
LockHolds ==
  [][user.locked /\ ~user'.locked
       => \/ LockExpires
          \/ \E c \in Calls : call[c].pc \in {"fail", "reset"} /\ ~call[c].row.locked]_sessionsVars

(* "A session issued before MFA enrolment must not survive the change."     *)
(* (plugins/auth.ts): a request is admitted while the factor is on only in  *)
(* a session whose sign-in checked a code.                                  *)
PreEnrolmentSessionsEnd ==
  [][\A c \in Calls : /\ call[c].pc = "sent" /\ call[c].kind = "get"
                      /\ user.mfa /\ Admitted(call[c].access) /\ call'[c] = Idle
                      => call[c].access.family \in verified]_sessionsVars
=============================================================================
