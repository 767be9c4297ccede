------------------------------- MODULE Accounts -------------------------------
(***************************************************************************)
(* Accounts: one e-mail address, the account it names, the links mailed to *)
(* it, the refresh sessions of its browsers, and the browsers themselves.  *)
(*                                                                         *)
(* A refresh session is a family of generations.  A generation is spent by *)
(* the refresh that issues its successor; a spent one presented again in   *)
(* the replay window is answered with that same successor, and after it    *)
(* revokes the family.                                                     *)
(*                                                                         *)
(* Login, change of password and refresh read before their transaction     *)
(* opens, so each takes two steps, and the answer, which sets or clears    *)
(* the cookie, is a third one that may be lost.                            *)
(***************************************************************************)
EXTENDS Naturals, Sequences, FiniteSets

CONSTANTS Clients,       \* browsers
          ActionTTL,     \* lifetime of a verification or claim link
          ResetTTL,      \* lifetime of a password reset link
          IdleTTL,       \* a generation expires this long after it is issued
          AbsoluteTTL,   \* a family expires this long after the login
          ReplayWindow,  \* a spent generation answers again this long
          MaxAcctClock, MaxLinks, MaxFamilies, MaxGenerations, MaxPasswords  \* bounds

ASSUME AccountsAssumption ==
  /\ {ActionTTL, ResetTTL, IdleTTL, AbsoluteTTL, ReplayWindow} \subseteq Nat
  /\ {MaxAcctClock, MaxLinks, MaxFamilies, MaxGenerations, MaxPasswords} \subseteq Nat

VARIABLES account,   \* status, the e-mail identity, the number of the current password
          links,     \* the action tokens that exist
          linkSeq,   \* links issued so far
          families,  \* refresh session families, by number
          gens,      \* refresh generations, by number
          cookie,    \* [Clients -> the generation the browser holds, 0 for none]
          call,      \* [Clients -> the call in flight]
          acctClock

acctVars == <<account, links, linkSeq, families, gens, cookie, call, acctClock>>

Statuses == {"none", "pending_verification", "legacy_unclaimed", "active"}
Purposes == {"email_verification", "legacy_claim", "password_reset"}
Revoked  == {"no", "logout", "password", "expired", "reused"}
Ops      == {"idle", "login", "change", "refresh", "session", "cleared"}

Idle == [op |-> "idle", now |-> 0, password |-> 0, gen |-> 0]

AccountsTypeOK ==
  /\ account \in [status: Statuses, identity: {"none", "open", "verified"}, password: Nat]
  /\ links \subseteq [id: 1..MaxLinks, purpose: Purposes, expires: Nat, used: BOOLEAN]
  /\ linkSeq \in 0..MaxLinks
  /\ families \in Seq([absolute: Nat, revoked: Revoked])
  /\ gens \in Seq([family: 1..MaxFamilies, idle: Nat, used: BOOLEAN, next: 0..MaxGenerations,
                   replay: Nat, sealed: BOOLEAN])
  /\ cookie \in [Clients -> 0..MaxGenerations]
  /\ call \in [Clients -> [op: Ops, now: Nat, password: Nat, gen: 0..MaxGenerations]]
  /\ acctClock \in 0..MaxAcctClock

\* A database starts empty or with the account of the single-user version.
AccountsInit ==
  /\ account \in {[status |-> "none", identity |-> "none", password |-> 0],
                  [status |-> "legacy_unclaimed", identity |-> "none", password |-> 1]}
  /\ links = {} /\ linkSeq = 0
  /\ families = << >> /\ gens = << >>
  /\ cookie = [c \in Clients |-> 0]
  /\ call = [c \in Clients |-> Idle]
  /\ acctClock = 0

Least(a, b) == IF a < b THEN a ELSE b

(***************************************************************************)
(* The store: what each transaction writes                                 *)
(***************************************************************************)

insertActionToken(purpose, kept, ttl) ==
  /\ linkSeq < MaxLinks
  /\ linkSeq' = linkSeq + 1
  /\ links' = kept \cup {[id |-> linkSeq + 1, purpose |-> purpose,
                          expires |-> acctClock + ttl, used |-> FALSE]}

Without(purpose) == {l \in links : l.purpose # purpose}

RegisterAccount ==
  /\ account.status = "none"
  /\ account' = [status |-> "pending_verification", identity |-> "open", password |-> 1]
  /\ insertActionToken("email_verification", links, ActionTTL)

ReplaceVerificationToken ==
  /\ account.status = "pending_verification"
  /\ insertActionToken("email_verification", Without("email_verification"), ActionTTL)
  /\ UNCHANGED account

ReplacePasswordResetToken ==
  /\ account.status = "active" /\ account.identity = "verified"
  /\ insertActionToken("password_reset", Without("password_reset"), ResetTTL)
  /\ UNCHANGED account

\* A claim is ready, or pending for the same address; anything else is refused.
inspectLegacyClaim ==
  IF account.status # "legacy_unclaimed" THEN "no_target"
  ELSE IF account.identity = "none" THEN "ready" ELSE "pending_same_email"

StoreBeginLegacyClaim ==
  /\ inspectLegacyClaim \in {"ready", "pending_same_email"}
  /\ account' = [account EXCEPT !.identity = "open"]
  /\ insertActionToken("legacy_claim", IF inspectLegacyClaim = "ready" THEN links
                                                                       ELSE Without("legacy_claim"), ActionTTL)

\* A new password ends every reset link and every session of the account.
applyPasswordChange ==
  /\ account.status = "active"
  /\ account.password < MaxPasswords
  /\ account' = [account EXCEPT !.password = @ + 1]
  /\ links' = Without("password_reset")
  /\ families' = [f \in DOMAIN families |->
                    IF families[f].revoked = "no" THEN [families[f] EXCEPT !.revoked = "password"]
                                                  ELSE families[f]]

insertRefreshSession(now) ==
  /\ Len(families) < MaxFamilies /\ Len(gens) < MaxGenerations
  /\ families' = Append(families, [absolute |-> now + AbsoluteTTL, revoked |-> "no"])
  /\ gens' = Append(gens, [family |-> Len(families) + 1, idle |-> now + IdleTTL, used |-> FALSE,
                           next |-> 0, replay |-> 0, sealed |-> FALSE])

ConsumeActionAndActivate(l) ==
  /\ ~l.used /\ acctClock < l.expires
  /\ \/ l.purpose = "email_verification" /\ account.status = "pending_verification"
     \/ l.purpose = "legacy_claim" /\ account.status = "legacy_unclaimed"
  /\ account.identity # "verified"
  /\ links' = (links \ {l}) \cup {[l EXCEPT !.used = TRUE]}
  /\ account' = [account EXCEPT !.status = "active", !.identity = "verified"]
  /\ insertRefreshSession(acctClock)

revokeFamily(f, why) == families' = [families EXCEPT ![f].revoked = why]

SessionExpired(g, now) ==
  \/ families[gens[g].family].revoked # "no"
  \/ gens[g].idle <= now
  \/ families[gens[g].family].absolute <= now

Replayable(g, now) == gens[g].next # 0 /\ gens[g].sealed /\ now <= gens[g].replay

\* A spent generation in its window is given a successor of its own.
RotateRefreshAgain(g, now, reply) ==
  LET f == gens[g].family IN
  CASE SessionExpired(g, now) ->
         /\ reply = 0
         /\ IF families[f].revoked = "no" THEN revokeFamily(f, "expired") ELSE UNCHANGED families
         /\ UNCHANGED gens
    [] ~SessionExpired(g, now) /\ gens[g].used /\ ~Replayable(g, now) ->
         /\ reply = 0
         /\ revokeFamily(f, "reused")
         /\ UNCHANGED gens
    [] OTHER ->
         /\ Len(gens) < MaxGenerations
         /\ reply = Len(gens) + 1
         /\ gens' = Append([gens EXCEPT ![g].used = TRUE, ![g].next = reply, ![g].sealed = TRUE,
                                        ![g].replay = Least(now + ReplayWindow, families[f].absolute)],
                           [family |-> f, idle |-> Least(now + IdleTTL, families[f].absolute),
                            used |-> FALSE, next |-> 0, replay |-> 0, sealed |-> FALSE])
         /\ UNCHANGED families

\* Spends g and issues its successor, or answers what it must; reply is the outcome.
RotateRefresh(g, now, reply) ==
  LET f == gens[g].family IN
  CASE SessionExpired(g, now) ->
         /\ reply = 0
         /\ IF families[f].revoked = "no" THEN revokeFamily(f, "expired") ELSE UNCHANGED families
         /\ UNCHANGED gens
    [] ~SessionExpired(g, now) /\ gens[g].used /\ Replayable(g, now) ->
         /\ reply = gens[g].next
         /\ UNCHANGED <<families, gens>>
    [] ~SessionExpired(g, now) /\ gens[g].used /\ ~Replayable(g, now) ->
         /\ reply = 0
         /\ revokeFamily(f, "reused")
         /\ UNCHANGED gens
    [] OTHER ->
         /\ Len(gens) < MaxGenerations
         /\ reply = Len(gens) + 1
         /\ gens' = Append([gens EXCEPT ![g].used = TRUE, ![g].next = reply, ![g].sealed = TRUE,
                                        ![g].replay = Least(now + ReplayWindow, families[f].absolute)],
                           [family |-> f, idle |-> Least(now + IdleTTL, families[f].absolute),
                            used |-> FALSE, next |-> 0, replay |-> 0, sealed |-> FALSE])
         /\ UNCHANGED families

RevokeRefresh(g) ==
  LET f == gens[g].family IN
  IF families[f].revoked = "no" THEN revokeFamily(f, "logout") ELSE UNCHANGED families

(***************************************************************************)
(* The service                                                             *)
(***************************************************************************)

Register == RegisterAccount /\ UNCHANGED <<families, gens, cookie, call, acctClock>>

ResendVerification == ReplaceVerificationToken /\ UNCHANGED <<families, gens, cookie, call, acctClock>>

BeginPasswordReset == ReplacePasswordResetToken /\ UNCHANGED <<families, gens, cookie, call, acctClock>>

BeginLegacyClaim == StoreBeginLegacyClaim /\ UNCHANGED <<families, gens, cookie, call, acctClock>>

\* The call of c has its answer: a session, or a cleared cookie.
Answer(c, gen) ==
  call' = [call EXCEPT ![c] = [Idle EXCEPT !.op = IF gen = 0 THEN "cleared" ELSE "session", !.gen = gen]]

VerifyEmail(c) ==
  /\ call[c].op = "idle"
  /\ \E l \in links : ConsumeActionAndActivate(l)
  /\ Answer(c, Len(gens) + 1)
  /\ UNCHANGED <<linkSeq, cookie, acctClock>>

ResetPassword(c) ==
  /\ call[c].op = "idle"
  /\ \E l \in links : l.purpose = "password_reset" /\ ~l.used /\ acctClock < l.expires
  /\ applyPasswordChange
  /\ Answer(c, 0)
  /\ UNCHANGED <<linkSeq, gens, cookie, acctClock>>

\* The login record is read and the current password matched.
LoginRead(c) ==
  /\ call[c].op = "idle"
  /\ account.status = "active"
  /\ call' = [call EXCEPT ![c] = [Idle EXCEPT !.op = "login", !.now = acctClock]]
  /\ UNCHANGED <<account, links, linkSeq, families, gens, cookie, acctClock>>

CreateRefreshSession(c) ==
  /\ call[c].op = "login"
  /\ account.status = "active"
  /\ insertRefreshSession(call[c].now)
  /\ Answer(c, Len(gens) + 1)
  /\ UNCHANGED <<account, links, linkSeq, cookie, acctClock>>

ChangePasswordRead(c) ==
  /\ call[c].op = "idle"
  /\ account.status = "active"
  /\ call' = [call EXCEPT ![c] = [Idle EXCEPT !.op = "change", !.password = account.password]]
  /\ UNCHANGED <<account, links, linkSeq, families, gens, cookie, acctClock>>

\* Refused, with nothing written, if the credential is no longer the one read.
ChangePassword(c) ==
  /\ call[c].op = "change"
  /\ IF account.password = call[c].password
       THEN applyPasswordChange /\ Answer(c, 0)
       ELSE call' = [call EXCEPT ![c] = Idle] /\ UNCHANGED <<account, links, families>>
  /\ UNCHANGED <<linkSeq, gens, cookie, acctClock>>

RefreshRead(c) ==
  /\ call[c].op = "idle"
  /\ cookie[c] # 0
  /\ call' = [call EXCEPT ![c] = [Idle EXCEPT !.op = "refresh", !.now = acctClock, !.gen = cookie[c]]]
  /\ UNCHANGED <<account, links, linkSeq, families, gens, cookie, acctClock>>

Refresh(c) ==
  /\ call[c].op = "refresh"
  /\ \E reply \in 0..MaxGenerations : RotateRefresh(call[c].gen, call[c].now, reply) /\ Answer(c, reply)
  /\ UNCHANGED <<account, links, linkSeq, cookie, acctClock>>

Logout(c) ==
  /\ call[c].op = "idle"
  /\ cookie[c] # 0
  /\ RevokeRefresh(cookie[c])
  /\ Answer(c, 0)
  /\ UNCHANGED <<account, links, linkSeq, gens, cookie, acctClock>>

\* The sweeper takes a window to be over on its last instant.
SweepEarly ==
  /\ \E g \in DOMAIN gens : gens[g].sealed /\ gens[g].replay <= acctClock
  /\ gens' = [g \in DOMAIN gens |-> IF gens[g].sealed /\ gens[g].replay <= acctClock
                                      THEN [gens[g] EXCEPT !.sealed = FALSE] ELSE gens[g]]
  /\ UNCHANGED <<account, links, linkSeq, families, cookie, call, acctClock>>

\* The sweeper forgets the sealed successors whose window is over.
SweepExpiredReplayCiphertexts ==
  /\ \E g \in DOMAIN gens : gens[g].sealed /\ gens[g].replay < acctClock
  /\ gens' = [g \in DOMAIN gens |-> IF gens[g].sealed /\ gens[g].replay < acctClock
                                      THEN [gens[g] EXCEPT !.sealed = FALSE] ELSE gens[g]]
  /\ UNCHANGED <<account, links, linkSeq, families, cookie, call, acctClock>>

\* A lost call takes its answer with it; the browser keeps the cookie it had.
LoseReply(c) ==
  /\ call[c].op # "idle"
  /\ call' = [call EXCEPT ![c] = Idle]
  /\ UNCHANGED <<account, links, linkSeq, families, gens, cookie, acctClock>>

AcctTick ==
  /\ acctClock < MaxAcctClock
  /\ acctClock' = acctClock + 1
  /\ UNCHANGED <<account, links, linkSeq, families, gens, cookie, call>>

(***************************************************************************)
(* The handlers: a session sets the cookie, a refused or ended one clears  *)
(* it.  Tabs of one browser may hold the same generation, so a client may  *)
(* also start from a cookie another one was given.                         *)
(***************************************************************************)

Reply(c) ==
  /\ call[c].op \in {"session", "cleared"}
  /\ cookie' = [cookie EXCEPT ![c] = call[c].gen]
  /\ call' = [call EXCEPT ![c] = Idle]
  /\ UNCHANGED <<account, links, linkSeq, families, gens, acctClock>>

ShareCookie(c, d) ==
  /\ call[c].op = "idle" /\ cookie[c] # cookie[d] /\ cookie[d] # 0
  /\ cookie' = [cookie EXCEPT ![c] = cookie[d]]
  /\ UNCHANGED <<account, links, linkSeq, families, gens, call, acctClock>>

ClientStep(c) ==
  \/ VerifyEmail(c) \/ ResetPassword(c) \/ LoginRead(c) \/ CreateRefreshSession(c)
  \/ ChangePasswordRead(c) \/ ChangePassword(c) \/ RefreshRead(c) \/ Refresh(c) \/ Logout(c)
  \/ Reply(c) \/ LoseReply(c) \/ \E d \in Clients : ShareCookie(c, d)

AccountsNext ==
  \/ Register \/ ResendVerification \/ BeginPasswordReset \/ BeginLegacyClaim
  \/ SweepExpiredReplayCiphertexts \/ AcctTick
  \/ \E c \in Clients : ClientStep(c)

AccountsSpec == AccountsInit /\ [][AccountsNext]_acctVars

(***************************************************************************)
(* Properties                                                              *)
(***************************************************************************)

\* However many tabs present the same cookie, retry a lost answer or race a
\* revocation, a family has exactly one generation that is not spent, and every
\* spent one leads to it.
OneLiveGeneration ==
  \A f \in DOMAIN families :
    /\ Cardinality({g \in DOMAIN gens : gens[g].family = f /\ ~gens[g].used}) = 1
    /\ \A g \in DOMAIN gens : gens[g].used <=> gens[g].next # 0

\* At most one link of each purpose works: the links an address was sent before
\* the last one, and those a password change overtook, are dead.
OneOpenLink ==
  /\ \A l, m \in links : l.purpose = m.purpose /\ ~l.used /\ ~m.used => l = m
  /\ account.identity = "verified" <=> account.status = "active"

\* A family is revoked for reuse only by a refresh that presents a spent generation of it whose
\* window is over by the time it commits: it read the clock after the window, or it read it in
\* time and the sweeper has come in between.  So a retry of a lost answer that is presented and
\* committed in time keeps the session (RotateRefresh, SweepExpiredReplayCiphertexts).
ReuseIsReal ==
  [][\A f \in DOMAIN families :
       (families[f].revoked = "no" /\ families'[f].revoked = "reused") =>
         \E c \in Clients : LET g == gens[call[c].gen] IN
           /\ call[c].op = "refresh" /\ g.family = f /\ g.used
           /\ g.replay < acctClock
           /\ call[c].now > g.replay \/ ~g.sealed]_acctVars

\* A refresh that presents a spent generation in its window finds the successor to answer with:
\* "within the bounded grace the same generation returns the same successor" (ADR 006:30).  Not
\* so if the sweeper comes while it waits for the rows: it is then taken for reuse.
RetriesAreAnswered ==
  \A c \in Clients : LET g == call[c].gen IN
    call[c].op = "refresh" /\ ~SessionExpired(g, call[c].now) /\ gens[g].used
    /\ call[c].now <= gens[g].replay => Replayable(g, call[c].now)
=============================================================================
