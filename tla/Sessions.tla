------------------------------ MODULE Sessions ------------------------------
(***************************************************************************)
(* Refresh-token sessions (modules/auth): the RefreshToken rows, the       *)
(* httpOnly cookie of each browser, and the requests that the API serves   *)
(* concurrently: login, refresh with rotation and reuse detection, logout. *)
(* One action is one database call of a request, with the decisions up to  *)
(* the next await.  Administrators deactivate accounts and revoke every    *)
(* session while requests are under way; responses arrive late, overtake   *)
(* each other or are lost; a request fails at any await.                   *)
(***************************************************************************)
EXTENDS Integers, Sequences, FiniteSets

CONSTANTS Users, Clients, Handlers,
          Account,   \* the user who signs in with a browser
          MaxTokens, \* bound: rows that are ever inserted
          MaxLogins, \* bound: sessions that are ever opened
          MaxAged    \* bound: rows whose time has passed

ASSUME SessionsAssumption ==
    /\ Account \in [Clients -> Users]
    /\ MaxTokens \in Nat /\ MaxLogins \in Nat /\ MaxAged \in Nat

VARIABLES tabbed,   \* the browsers that may have several refreshes in flight
          tokens,   \* the RefreshToken rows, by id
          active,   \* User.isActive
          cookie,   \* the id of the token in a browser's cookie, or 0
          handler,  \* the requests
          granted,  \* history: the tokens that a client was, or is being, given
          rotated,  \* history: the tokens that a client presented and exchanged
          ended     \* history: the sessions cut short by the server's side
vars == <<tabbed, tokens, active, cookie, handler, granted, rotated, ended>>

Ids == 1..Len(tokens)
Row == [session : Nat \ {0}, user : Users, revoked : BOOLEAN, replacedBy : Nat,
        aged : BOOLEAN] \* the lifetime, or since it was revoked the grace, is over
Idle == [at |-> "idle"]
RefreshSteps == {"find", "load", "issue", "rotate", "drop", "reread", "decide",
                 "claim", "retry", "reload", "reissue", "relink", "relinkOwn",
                 "endAll"}
Answers == {"refreshed", "loggedIn", "loggedOut"}
Request == [at : RefreshSteps \cup {"login", "open", "logout"} \cup Answers,
            client : Clients, token : Nat, next : Nat, grace : BOOLEAN, pair : Nat]

At(h, step) == handler[h].at = step
Goto(h, step) == handler' = [handler EXCEPT ![h].at = step]
Reply(h, answer, pair) ==
    handler' = [handler EXCEPT ![h] = [at |-> answer, client |-> @.client, token |-> 0,
                                       next |-> 0, grace |-> FALSE, pair |-> pair]]
UserOf(h) == tokens[handler[h].token].user
SessionOf(h) == tokens[handler[h].token].session
\* A 401 or a 500: the refresh routes leave the cookie as it is.
Refuse(h) == handler' = [handler EXCEPT ![h] = Idle]

-----------------------------------------------------------------------------
(* Writes.                                                                 *)

Unrevoked == {t \in Ids : ~tokens[t].revoked}

\* A fresh row; its session is the login that it descends from.
Issue(h, user, session) ==
    /\ Len(tokens) < MaxTokens
    /\ tokens' = Append(tokens, [session |-> session, user |-> user, revoked |-> FALSE,
                                 replacedBy |-> 0, aged |-> FALSE])

Revoked(row, next) == [row EXCEPT !.revoked = TRUE, !.replacedBy = next, !.aged = FALSE]

RevokeIfActive(t) ==
    tokens' = [tokens EXCEPT ![t] = IF @.revoked THEN @ ELSE Revoked(@, @.replacedBy)]

SetReplacement(t, next) == tokens' = [tokens EXCEPT ![t].replacedBy = next]

RevokeAll(user) ==
    /\ tokens' = [t \in Ids |-> IF tokens[t].user = user /\ ~tokens[t].revoked
                                THEN Revoked(tokens[t], tokens[t].replacedBy)
                                ELSE tokens[t]]
    /\ ended' = ended \cup {tokens[t].session : t \in {i \in Ids : tokens[i].user = user}}

-----------------------------------------------------------------------------
(* The browser.                                                            *)

\* The refreshes that a browser waits for.
Refreshing(c) == {h \in Handlers : /\ handler[h].at \in RefreshSteps \cup {"refreshed"}
                                   /\ handler[h].client = c}

Send(h, c, step, t) ==
    /\ At(h, "idle")
    /\ handler' = [handler EXCEPT ![h] = [at |-> step, client |-> c, token |-> t,
                                          next |-> 0, grace |-> FALSE, pair |-> 0]]
    /\ UNCHANGED <<tokens, active, cookie, granted, rotated, ended>>

SendLogin(h, c) == Send(h, c, "login", 0)

\* The coordinator of a tab keeps to one refresh; the admin console's lock
\* also keeps the tabs of a browser apart, the storefront has none.
SendRefresh(h, c) ==
    /\ cookie[c] # 0
    /\ c \in tabbed \/ Refreshing(c) = {}
    /\ Send(h, c, "find", cookie[c])

SendLogout(h, c) == cookie[c] # 0 /\ Send(h, c, "logout", cookie[c])

\* The answer sets the cookie, or clears it after a logout (pair = 0).
Receive(h) ==
    /\ handler[h].at \in Answers
    /\ cookie' = [cookie EXCEPT ![handler[h].client] = handler[h].pair]
    /\ Refuse(h)
    /\ UNCHANGED <<tokens, active, granted, rotated, ended>>

LoseAnswer(h) ==
    /\ handler[h].at \in Answers
    /\ Refuse(h)
    /\ UNCHANGED <<tokens, active, cookie, granted, rotated, ended>>

-----------------------------------------------------------------------------
(* Login and logout.                                                       *)

CheckLogin(h) ==
    /\ At(h, "login")
    /\ IF active[Account[handler[h].client]] THEN Goto(h, "open") ELSE Refuse(h)
    /\ UNCHANGED <<tokens, active, cookie, granted, rotated, ended>>

OpenSession(h) ==
    /\ At(h, "open")
    /\ Cardinality({tokens[t].session : t \in Ids}) < MaxLogins
    /\ Issue(h, Account[handler[h].client], Len(tokens) + 1)
    /\ granted' = granted \cup {Len(tokens')}
    /\ Reply(h, "loggedIn", Len(tokens'))
    /\ UNCHANGED <<active, cookie, rotated, ended>>

Logout(h) ==
    /\ At(h, "logout")
    /\ RevokeIfActive(handler[h].token)
    /\ Reply(h, "loggedOut", 0)
    /\ UNCHANGED <<active, cookie, granted, rotated, ended>>

-----------------------------------------------------------------------------
(* Refresh: execute.                                                       *)

FindToken(h) ==
    /\ At(h, "find")
    /\ LET row == tokens[handler[h].token] IN
         IF row.revoked
         THEN handler' = [handler EXCEPT ![h].at = "decide", ![h].next = row.replacedBy]
         ELSE IF row.aged THEN Refuse(h) ELSE Goto(h, "load")
    /\ UNCHANGED <<tokens, active, cookie, granted, rotated, ended>>

LoadActiveUser(h) ==
    /\ \/ /\ At(h, "load")
          /\ Goto(h, IF active[UserOf(h)] THEN "issue" ELSE "endAll")
       \/ /\ At(h, "reload")
          /\ Goto(h, IF active[UserOf(h)] THEN "reissue" ELSE "endAll")
    /\ UNCHANGED <<tokens, active, cookie, granted, rotated, ended>>

IssuePair(h) ==
    /\ At(h, "issue")
    /\ Issue(h, UserOf(h), SessionOf(h))
    /\ handler' = [handler EXCEPT ![h].at = "rotate", ![h].pair = Len(tokens')]
    /\ UNCHANGED <<active, cookie, granted, rotated, ended>>

\* A bug: the update has no `revokedAt: null`.
RotateUnchecked(h) ==
    /\ At(h, "rotate")
    /\ tokens' = [tokens EXCEPT ![handler[h].token] = Revoked(@, handler[h].pair)]
    /\ granted' = granted \cup {handler[h].pair}
    /\ rotated' = rotated \cup {handler[h].token}
    /\ Reply(h, "refreshed", handler[h].pair)
    /\ UNCHANGED <<active, cookie, ended>>

RotateToken(h) ==
    /\ At(h, "rotate")
    /\ LET t == handler[h].token  pair == handler[h].pair IN
         IF t \in Unrevoked
         THEN /\ tokens' = [tokens EXCEPT ![t] = Revoked(@, pair)]
              /\ granted' = granted \cup {pair}
              /\ rotated' = rotated \cup {t}
              /\ Reply(h, "refreshed", pair)
         ELSE /\ Goto(h, "drop")
              /\ UNCHANGED <<tokens, granted, rotated>>
    /\ UNCHANGED <<active, cookie, ended>>

\* A bug: the lost rotation's pair is answered all the same.
KeepPair(h) ==
    /\ At(h, "drop")
    /\ Reply(h, "refreshed", handler[h].pair)
    /\ UNCHANGED <<tokens, active, cookie, granted, rotated, ended>>

DropPair(h) ==
    /\ At(h, "drop")
    /\ RevokeIfActive(handler[h].pair)
    /\ handler' = [handler EXCEPT ![h].at = "reread", ![h].pair = 0]
    /\ UNCHANGED <<active, cookie, granted, rotated, ended>>

\* Another request rotated it first: judged like any other revoked token.
RereadToken(h) ==
    /\ At(h, "reread")
    /\ handler' = [handler EXCEPT ![h].at = "decide",
                                  ![h].next = tokens[handler[h].token].replacedBy]
    /\ UNCHANGED <<tokens, active, cookie, granted, rotated, ended>>

-----------------------------------------------------------------------------
(* Refresh: handleRevokedToken.  `next` is the record's replacement as it  *)
(* was when the record was read.                                           *)

JudgeRevoked(h) ==
    /\ At(h, "decide")
    /\ LET next == handler[h].next  grace == ~tokens[handler[h].token].aged IN
         IF next = 0 THEN Refuse(h)
         ELSE IF next \in Unrevoked
         THEN handler' = [handler EXCEPT ![h].at = "claim", ![h].grace = grace]
         ELSE IF tokens[next].replacedBy = 0 THEN Refuse(h) ELSE Goto(h, "endAll")
    /\ UNCHANGED <<tokens, active, cookie, granted, rotated, ended>>

ClaimReplacement(h) ==
    /\ At(h, "claim")
    /\ RevokeIfActive(handler[h].next)
    /\ IF handler[h].next \in Unrevoked
       THEN IF handler[h].grace
            THEN handler' = [handler EXCEPT ![h].at = "reload", ![h].grace = FALSE]
            ELSE Refuse(h)
       ELSE handler' = [handler EXCEPT ![h].at = "retry", ![h].grace = FALSE]
    /\ UNCHANGED <<active, cookie, granted, rotated, ended>>

RetryClaim(h) ==
    /\ At(h, "retry")
    /\ LET fresh == tokens[handler[h].token].replacedBy IN
         IF fresh # handler[h].next
         THEN handler' = [handler EXCEPT ![h].at = "decide", ![h].next = fresh]
         ELSE Refuse(h)
    /\ UNCHANGED <<tokens, active, cookie, granted, rotated, ended>>

ReissuePair(h) ==
    /\ At(h, "reissue")
    /\ Issue(h, UserOf(h), SessionOf(h))
    /\ granted' = granted \cup {Len(tokens')}
    /\ handler' = [handler EXCEPT ![h].at = "relink", ![h].pair = Len(tokens')]
    /\ UNCHANGED <<active, cookie, rotated, ended>>

RelinkReplacement(h) ==
    /\ At(h, "relink")
    /\ SetReplacement(handler[h].next, handler[h].pair)
    /\ Goto(h, "relinkOwn")
    /\ UNCHANGED <<active, cookie, granted, rotated, ended>>

\* A bug: only the replacement points at the new token.
LeaveToken(h) ==
    /\ At(h, "relinkOwn")
    /\ Reply(h, "refreshed", handler[h].pair)
    /\ UNCHANGED <<tokens, active, cookie, granted, rotated, ended>>

RelinkToken(h) ==
    /\ At(h, "relinkOwn")
    /\ SetReplacement(handler[h].token, handler[h].pair)
    /\ Reply(h, "refreshed", handler[h].pair)
    /\ UNCHANGED <<active, cookie, granted, rotated, ended>>

\* Of a deactivated user, or on reuse: then 401.
EndAllSessions(h) ==
    /\ At(h, "endAll")
    /\ RevokeAll(UserOf(h))
    /\ Refuse(h)
    /\ UNCHANGED <<active, cookie, granted, rotated>>

-----------------------------------------------------------------------------
(* Everybody else.                                                         *)

\* An await that throws, or the process dies: what was written stays.
FailRequest(h) ==
    /\ handler[h].at \notin {"idle"} \cup Answers
    /\ Refuse(h)
    /\ ended' = IF handler[h].at \in {"reload", "reissue", "relink", "relinkOwn", "endAll"}
                THEN ended \cup {SessionOf(h)} ELSE ended
    /\ UNCHANGED <<tokens, active, cookie, granted, rotated>>

SetCustomerActive(u) ==
    /\ active' = [active EXCEPT ![u] = ~@]
    /\ UNCHANGED <<tokens, cookie, handler, granted, rotated, ended>>

\* One transaction for staff.  A change of role or of password only revokes.
RevokeSessions(u, deactivate) ==
    /\ active' = [active EXCEPT ![u] = @ /\ ~deactivate]
    /\ RevokeAll(u)
    /\ UNCHANGED <<cookie, handler, granted, rotated>>

\* Of a row that somebody can present.
PassTime(t) ==
    /\ t \in granted
    /\ ~tokens[t].aged
    /\ Cardinality({i \in Ids : tokens[i].aged}) < MaxAged
    /\ tokens' = [tokens EXCEPT ![t].aged = TRUE]
    /\ UNCHANGED <<active, cookie, handler, granted, rotated, ended>>

Init ==
    /\ tabbed \in SUBSET Clients
    /\ tokens = <<>>
    /\ active = [u \in Users |-> TRUE]
    /\ cookie = [c \in Clients |-> 0]
    /\ handler = [h \in Handlers |-> Idle]
    /\ granted = {} /\ rotated = {} /\ ended = {}

ServeSession(h) == CheckLogin(h) \/ OpenSession(h) \/ Logout(h)
ServeRefresh(h) ==
    \/ FindToken(h) \/ LoadActiveUser(h) \/ IssuePair(h) \/ RotateToken(h)
    \/ DropPair(h) \/ RereadToken(h)
    \/ JudgeRevoked(h) \/ ClaimReplacement(h) \/ RetryClaim(h)
    \/ ReissuePair(h) \/ RelinkReplacement(h) \/ RelinkToken(h) \/ EndAllSessions(h)
Answer(h) == Receive(h) \/ LoseAnswer(h) \/ FailRequest(h)
Call(h, c) == SendLogin(h, c) \/ SendRefresh(h, c) \/ SendLogout(h, c)

Next ==
    /\ \/ \E h \in Handlers : ServeSession(h) \/ ServeRefresh(h) \/ Answer(h)
       \/ \E h \in Handlers, c \in Clients : Call(h, c)
       \/ \E u \in Users : \/ SetCustomerActive(u)
                           \/ \E d \in BOOLEAN : RevokeSessions(u, d)
       \/ \E t \in Ids : PassTime(t)
    /\ UNCHANGED tabbed

Spec == Init /\ [][Next]_vars

-----------------------------------------------------------------------------
(* Properties.                                                             *)

\* The rows and requests are well formed; a link leads to a row.
TypeOK ==
    /\ tabbed \subseteq Clients
    /\ tokens \in Seq(Row)
    /\ \A t \in Ids : tokens[t].replacedBy \in {0} \cup Ids /\ tokens[t].session \in Ids
    /\ active \in [Users -> BOOLEAN]
    /\ cookie \in [Clients -> {0} \cup granted]
    /\ handler \in [Handlers -> {Idle} \cup Request]
    /\ \A h \in Handlers : ~At(h, "idle") => /\ handler[h].token \in {0} \cup granted
                                             /\ handler[h].next \in {0} \cup granted
                                             /\ handler[h].pair \in {0} \cup Ids
    /\ granted \subseteq Ids /\ rotated \subseteq granted /\ ended \subseteq Ids

\* "At most one valid token per session ... (the chain is never forked)": of
\* the tokens that clients are given, however their refreshes overlap, at
\* most one of a session is active.  (A pair that is dropped, or orphaned by
\* a failure before the rotation, reaches nobody.)
NeverForked ==
    \A s, t \in granted \cap Unrevoked : tokens[s].session = tokens[t].session => s = t

\* A browser that sends its refreshes one after the other keeps its session
\* through any number of lost answers: within the grace its next attempt
\* finds the replacement unused, and it is never taken for a thief.
LostAnswerIsRecovered ==
    \A c \in Clients \ tabbed :
        LET t == cookie[c]  next == tokens[t].replacedBy IN
        /\ t # 0 /\ Refreshing(c) = {}
        /\ tokens[t].session \notin ended
        /\ tokens[t].revoked /\ next # 0
        => IF tokens[t].aged THEN next \in Unrevoked \/ tokens[next].replacedBy = 0
                             ELSE next \in Unrevoked

\* "Revoke EVERY session only on proof the session continued past it - its
\* replacement was itself rotated (someone used it)".
SuspectedOnProof ==
    [][\A h \in Handlers : At(h, "decide") /\ At(h, "endAll")'
                               => handler[h].next \in rotated]_vars
=============================================================================
