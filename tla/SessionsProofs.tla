-------------------------- MODULE SessionsProofs ---------------------------
(***************************************************************************)
(* Proofs about Sessions, for any number of users, browsers, requests and  *)
(* tokens.  That the chain never forks rests on who may grant a token:     *)
(* whoever revokes the live token of a session in the same update, and a   *)
(* request that has claimed the live token (Retired), of which there is    *)
(* one in a session.  That a browser recovers from lost answers rests on   *)
(* its being alone in its session (Apart), and on nobody's having been     *)
(* shown the replacement that it has yet to find (RecoveryInv).            *)
(***************************************************************************)
EXTENDS Sessions, SequenceTheorems, TLAPS

-----------------------------------------------------------------------------
(* The inductive invariant.                                                *)

Rows ==
    /\ tokens \in Seq(Row)
    /\ \A t \in Ids : tokens[t].session \in Ids

Rest ==
    /\ tabbed \subseteq Clients
    /\ active \in [Users -> BOOLEAN]
    /\ cookie \in [Clients -> {0} \cup granted]
    /\ granted \subseteq Ids /\ rotated \subseteq granted /\ ended \subseteq Ids

\* Links stay within a session and lead to tokens that somebody was given.
Linked ==
    \A t \in Ids : tokens[t].replacedBy # 0 =>
        /\ tokens[t].replacedBy \in granted
        /\ tokens[tokens[t].replacedBy].session = tokens[t].session

\* What a request holds is of one session.
Holds(q) == q.at # "idle" =>
    /\ q.token \in {0} \cup granted
    /\ q.next \in {0} \cup granted
    /\ q.pair \in {0} \cup Ids
    /\ q.at \in RefreshSteps => q.token \in granted
    /\ q.at \in RefreshSteps /\ q.next # 0 => tokens[q.next].session = tokens[q.token].session
    /\ q.at \in {"rotate", "drop"} => q.pair \in Ids
    /\ q.at \in {"relink", "relinkOwn"} => q.pair \in granted
    /\ q.at \in {"rotate", "drop", "relink", "relinkOwn"} =>
          tokens[q.pair].session = tokens[q.token].session
    /\ q.at \in Answers => q.pair \in {0} \cup granted
Held ==
    /\ handler \in [Handlers -> {Idle} \cup Request]
    /\ \A h \in Handlers : Holds(handler[h])

\* A request that claimed the last live token has the session for itself.
Claimed(h) == handler[h].at \in {"reload", "reissue"}
Retired ==
    \A h \in Handlers : Claimed(h) =>
        /\ \A t \in granted \cap Unrevoked : tokens[t].session # SessionOf(h)
        /\ \A g \in Handlers : Claimed(g) /\ SessionOf(g) = SessionOf(h) => g = h

IInv == Rows /\ Rest /\ Linked /\ Held /\ Retired /\ NeverForked

LEMMA Typed == IInv => TypeOK
<1> SUFFICES ASSUME IInv PROVE TypeOK
  OBVIOUS
<1>1. \A t \in Ids : tokens[t].replacedBy \in {0} \cup Ids
  BY DEF IInv, Linked, Rest
<1>2. \A h \in Handlers : ~At(h, "idle") =>
         /\ handler[h].token \in {0} \cup granted
         /\ handler[h].next \in {0} \cup granted
         /\ handler[h].pair \in {0} \cup Ids
  BY DEF IInv, Held, Holds, At
<1> QED
  BY <1>1, <1>2 DEF IInv, Rows, Rest, Held, TypeOK

-----------------------------------------------------------------------------
(* Writes of the rows.                                                     *)

\* Rows are never deleted, moved to another session or made valid again.
Grown ==
    /\ Ids \subseteq Ids'
    /\ granted \subseteq granted'
    /\ \A t \in Ids : /\ tokens'[t].session = tokens[t].session
                      /\ tokens[t].revoked => tokens'[t].revoked

LEMMA IdsFacts ==
    ASSUME Rows
    PROVE  Ids = 1..Len(tokens) /\ Len(tokens) \in Nat /\ \A t \in Ids : tokens[t] \in Row
  BY LenProperties DEF Rows, Ids

LEMMA IssueFacts ==
    ASSUME Rows, NEW h, NEW user \in Users, NEW session \in 1 .. Len(tokens) + 1,
           Issue(h, user, session)
    PROVE  /\ Rows'
           /\ Len(tokens') = Len(tokens) + 1 /\ Ids' = Ids \cup {Len(tokens')}
           /\ Len(tokens') \notin Ids
           /\ \A t \in Ids : tokens'[t] = tokens[t]
           /\ tokens'[Len(tokens')].session = session
           /\ tokens'[Len(tokens')].replacedBy = 0
           /\ ~tokens'[Len(tokens')].revoked
<1> DEFINE row == [session |-> session, user |-> user, revoked |-> FALSE, replacedBy |-> 0,
                   aged |-> FALSE]
<1>1. Len(tokens) \in Nat
  BY IdsFacts
<1>2. row \in Row
  BY <1>1 DEF Row
<1>3. /\ tokens' \in Seq(Row) /\ Len(tokens') = Len(tokens) + 1
      /\ \A t \in 1 .. Len(tokens) : tokens'[t] = tokens[t]
      /\ tokens'[Len(tokens) + 1] = row
  BY <1>2, AppendProperties DEF Issue, Rows
<1>4. Ids' = Ids \cup {Len(tokens')} /\ Len(tokens') \notin Ids
  BY <1>1, <1>3 DEF Ids
<1>5. \A t \in Ids' : tokens'[t].session \in Ids'
  BY <1>1, <1>3, <1>4 DEF Rows, Ids
<1> QED
  BY <1>3, <1>4, <1>5 DEF Rows, Ids

LEMMA SetFacts ==
    ASSUME Rows, NEW t \in Ids, NEW row \in Row, row.session = tokens[t].session,
           tokens' = [tokens EXCEPT ![t] = row]
    PROVE  /\ Rows' /\ Ids' = Ids
           /\ \A i \in Ids : tokens'[i] = IF i = t THEN row ELSE tokens[i]
<1>1. /\ tokens' \in Seq(Row) /\ Len(tokens') = Len(tokens)
      /\ \A i \in 1 .. Len(tokens) : tokens'[i] = IF i = t THEN row ELSE tokens[i]
  BY ExceptSeq DEF Rows, Ids
<1> QED
  BY <1>1 DEF Rows, Ids

LEMMA RevokedRow ==
    ASSUME NEW row \in Row, NEW next \in Nat
    PROVE  /\ Revoked(row, next) \in Row
           /\ Revoked(row, next).session = row.session
           /\ Revoked(row, next).replacedBy = next
           /\ Revoked(row, next).revoked
  BY DEF Row, Revoked

\* What a revocation does to each row, whoever asks for it.
Fades ==
    /\ Rows' /\ Ids' = Ids
    /\ \A t \in Ids : /\ tokens'[t].session = tokens[t].session
                      /\ tokens'[t].replacedBy = tokens[t].replacedBy
                      /\ tokens[t].revoked => tokens'[t].revoked

LEMMA RevokeIfActiveFacts ==
    ASSUME Rows, NEW t \in Ids, RevokeIfActive(t)
    PROVE  Fades /\ tokens'[t].revoked
<1> DEFINE row == IF tokens[t].revoked THEN tokens[t] ELSE Revoked(tokens[t], tokens[t].replacedBy)
<1>1. tokens[t] \in Row /\ tokens[t].replacedBy \in Nat
  BY IdsFacts DEF Row
<1>2. /\ row \in Row /\ row.session = tokens[t].session /\ row.replacedBy = tokens[t].replacedBy
      /\ row.revoked
  BY <1>1, RevokedRow
<1>3. tokens' = [tokens EXCEPT ![t] = row]
  BY DEF RevokeIfActive
<1>4. /\ Rows' /\ Ids' = Ids
      /\ \A i \in Ids : tokens'[i] = IF i = t THEN row ELSE tokens[i]
  BY <1>2, <1>3, SetFacts
<1> QED
  BY <1>2, <1>4 DEF Fades

LEMMA RevokeAllFacts ==
    ASSUME Rows, NEW user, RevokeAll(user), ended \subseteq Ids
    PROVE  Fades /\ ended' \subseteq Ids
<1>1. /\ Ids = 1..Len(tokens) /\ Len(tokens) \in Nat
      /\ \A t \in Ids : tokens[t] \in Row /\ tokens[t].replacedBy \in Nat
  BY IdsFacts DEF Row
<1> DEFINE row(t) == IF tokens[t].user = user /\ ~tokens[t].revoked
                     THEN Revoked(tokens[t], tokens[t].replacedBy) ELSE tokens[t]
<1>2. \A t \in Ids : /\ row(t) \in Row /\ row(t).session = tokens[t].session
                     /\ row(t).replacedBy = tokens[t].replacedBy
                     /\ tokens[t].revoked => row(t).revoked
  BY <1>1, RevokedRow
<1>3. tokens' = [t \in 1..Len(tokens) |-> row(t)]
  BY <1>1 DEF RevokeAll
<1>4. tokens' \in [1..Len(tokens) -> Row]
  BY <1>1, <1>2, <1>3
<1>5. tokens' \in Seq(Row)
  BY <1>1, <1>4, SeqDef
<1>6. Len(tokens') = Len(tokens)
  BY <1>1, <1>4, <1>5, LenProperties
<1>7. Ids' = Ids /\ \A t \in Ids : tokens'[t] = row(t)
  BY <1>1, <1>3, <1>6 DEF Ids
<1>8. Fades
  BY <1>2, <1>5, <1>7 DEF Fades, Rows
<1> QED
  BY <1>8 DEF RevokeAll, Rows

-----------------------------------------------------------------------------
(* What a step has to show.                                                *)

\* What a request holds stays what it is.
LEMMA HoldsStable ==
    ASSUME IInv, Grown, NEW q, Holds(q)
    PROVE  Holds(q)'
<1>1. granted \subseteq Ids /\ 0 \notin Ids
  BY IdsFacts DEF IInv, Rest
<1>2. \A t \in Ids : t \in Ids' /\ tokens'[t].session = tokens[t].session
  BY DEF Grown
<1>3. \A t \in granted : t \in granted' /\ t \in Ids
  BY <1>1 DEF Grown
<1> SUFFICES ASSUME q.at # "idle"
             PROVE  Holds(q)'
  BY DEF Holds
<1>4. /\ q.token \in {0} \cup granted'
      /\ q.next \in {0} \cup granted'
      /\ q.pair \in {0} \cup Ids'
      /\ q.at \in RefreshSteps => q.token \in granted'
      /\ q.at \in {"rotate", "drop"} => q.pair \in Ids'
      /\ q.at \in {"relink", "relinkOwn"} => q.pair \in granted'
      /\ q.at \in Answers => q.pair \in {0} \cup granted'
  BY <1>2, <1>3 DEF Holds
<1>5. q.at \in RefreshSteps /\ q.next # 0 => tokens'[q.next].session = tokens'[q.token].session
  BY <1>2, <1>3 DEF Holds
<1>6. q.at \in {"rotate", "drop", "relink", "relinkOwn"} =>
          tokens'[q.pair].session = tokens'[q.token].session
  <2>1. q.at \in {"rotate", "drop", "relink", "relinkOwn"} =>
          q.pair \in Ids /\ q.token \in Ids /\ tokens[q.pair].session = tokens[q.token].session
    BY <1>3 DEF Holds, RefreshSteps
  <2> QED
    BY <1>2, <2>1
<1> QED
  BY <1>4, <1>5, <1>6 DEF Holds

LEMMA HeldByOthers ==
    ASSUME IInv, Grown, NEW h \in Handlers, NEW q \in {Idle} \cup Request, Holds(q)',
           handler' = [handler EXCEPT ![h] = q]
    PROVE  Held'
<1> SUFFICES ASSUME NEW g \in Handlers, g # h
             PROVE  Holds(handler[g])'
  BY DEF IInv, Held
<1>1. handler'[g] = handler[g] /\ Holds(handler[g])
  BY DEF IInv, Held
<1> QED
  BY <1>1, HoldsStable DEF Holds

\* A step that grants nothing and lets nobody claim.
LEMMA NothingGranted ==
    ASSUME IInv, Grown, granted' = granted,
           \A g \in Handlers : Claimed(g)' => Claimed(g) /\ handler'[g].token = handler[g].token
    PROVE  Retired' /\ NeverForked'
<1>1. \A t \in granted : t \in Ids /\ tokens'[t].session = tokens[t].session
  BY DEF IInv, Rest, Grown
<1>2. \A t \in granted : t \in Unrevoked' => t \in Unrevoked
  BY <1>1 DEF Grown, Unrevoked
<1>3. \A g \in Handlers : Claimed(g)' => SessionOf(g)' = SessionOf(g)
  BY <1>1 DEF IInv, Held, Holds, Claimed, SessionOf, RefreshSteps
<1>4. NeverForked'
  BY <1>1, <1>2 DEF IInv, NeverForked
<1>5. Retired'
  BY <1>1, <1>2, <1>3 DEF IInv, Retired
<1> QED
  BY <1>4, <1>5

LEMMA FadesGrows ==
    ASSUME IInv, Fades, granted' = granted
    PROVE  Grown /\ Linked'
<1>1. Grown
  BY DEF Fades, Grown
<1>2. granted \subseteq Ids
  BY DEF IInv, Rest
<1>3. Linked'
  BY <1>2 DEF IInv, Linked, Fades
<1> QED
  BY <1>1, <1>3

\* A step of a request that at most revokes.
LEMMA RevokingStep ==
    ASSUME IInv, Fades, granted' = granted, NEW h \in Handlers,
           NEW q \in {Idle} \cup Request, Holds(q), handler' = [handler EXCEPT ![h] = q],
           q.at \in {"reload", "reissue"} => Claimed(h) /\ q.token = handler[h].token,
           tabbed' = tabbed, active' = active, cookie' \in [Clients -> {0} \cup granted],
           rotated' = rotated, ended' \subseteq Ids
    PROVE  IInv'
<1>1. Grown /\ Linked' /\ Rows'
  BY FadesGrows DEF Fades
<1>2. Rest'
  BY DEF IInv, Rest, Fades
<1>3. Holds(q)'
  BY <1>1, HoldsStable
<1>4. Held'
  BY <1>1, <1>3, HeldByOthers
<1>5. \A g \in Handlers : Claimed(g)' => Claimed(g) /\ handler'[g].token = handler[g].token
  BY DEF IInv, Held, Claimed
<1>6. Retired' /\ NeverForked'
  BY <1>1, <1>5, NothingGranted
<1> QED
  BY <1>1, <1>2, <1>4, <1>6 DEF IInv

\* A step of a request that writes no row.
LEMMA QuietStep ==
    ASSUME IInv, UNCHANGED <<tokens, granted, tabbed, active, rotated>>, NEW h \in Handlers,
           NEW q \in {Idle} \cup Request, Holds(q), handler' = [handler EXCEPT ![h] = q],
           q.at \in {"reload", "reissue"} => Claimed(h) /\ q.token = handler[h].token,
           cookie' \in [Clients -> {0} \cup granted], ended' \subseteq Ids
    PROVE  IInv'
<1>1. Fades
  BY DEF Fades, IInv, Rows, Ids
<1> QED
  BY <1>1, RevokingStep

\* A step of somebody else.
LEMMA OutsideStep ==
    ASSUME IInv, Fades, UNCHANGED <<granted, handler, tabbed, cookie, rotated>>,
           active' \in [Users -> BOOLEAN], ended' \subseteq Ids
    PROVE  IInv'
<1>1. Grown /\ Linked' /\ Rows'
  BY FadesGrows DEF Fades
<1>2. Rest'
  BY DEF IInv, Rest, Fades
<1>3. Held'
  BY <1>1, HoldsStable DEF IInv, Held, Holds
<1>4. Retired' /\ NeverForked'
  BY <1>1, NothingGranted DEF Claimed
<1> QED
  BY <1>1, <1>2, <1>3, <1>4 DEF IInv

LEMMA RequestAt ==
    ASSUME IInv, NEW h \in Handlers, ~At(h, "idle")
    PROVE  handler[h] \in Request /\ Holds(handler[h])
  BY DEF IInv, Held, At, Idle

LEMMA RefreshAt ==
    ASSUME IInv, NEW h \in Handlers, handler[h].at \in RefreshSteps
    PROVE  /\ handler[h] \in Request /\ Holds(handler[h])
           /\ handler[h].token \in granted /\ handler[h].token \in Ids
           /\ tokens[handler[h].token] \in Row
           /\ UserOf(h) \in Users /\ SessionOf(h) \in Ids
<1>1. handler[h] \in Request /\ Holds(handler[h])
  BY RequestAt DEF At, RefreshSteps
<1>2. handler[h].token \in granted /\ handler[h].token \in Ids
  BY <1>1 DEF Holds, IInv, Rest, RefreshSteps
<1>3. tokens[handler[h].token] \in Row
  BY <1>2, IdsFacts DEF IInv
<1> QED
  BY <1>1, <1>2, <1>3 DEF UserOf, SessionOf, IInv, Rows, Row

-----------------------------------------------------------------------------
(* Steps that grant nothing.                                               *)

\* Where a step leaves the history of cut sessions and the cookies alone.
Calm == UNCHANGED <<active, cookie, ended, tabbed>>

LEMMA CalmKeeps ==
    ASSUME IInv, Calm
    PROVE  /\ cookie' \in [Clients -> {0} \cup granted] /\ ended' \subseteq Ids
           /\ active' = active /\ tabbed' = tabbed
  BY DEF IInv, Rest, Calm

LEMMA SendKeeps ==
    ASSUME IInv, NEW h \in Handlers, NEW c \in Clients, tabbed' = tabbed,
           SendLogin(h, c) \/ SendRefresh(h, c) \/ SendLogout(h, c)
    PROVE  IInv'
<1>1. PICK step \in {"login", "find", "logout"}, t \in {0} \cup granted :
        Send(h, c, step, t) /\ (step # "login" => t \in granted)
  <2>1. cookie[c] \in {0} \cup granted
    BY DEF IInv, Rest
  <2>2. CASE SendLogin(h, c)
    BY <2>2 DEF SendLogin
  <2>3. CASE SendRefresh(h, c)
    BY <2>1, <2>3 DEF SendRefresh
  <2>4. CASE SendLogout(h, c)
    BY <2>1, <2>4 DEF SendLogout
  <2> QED
    BY <2>2, <2>3, <2>4
<1> DEFINE q == [at |-> step, client |-> c, token |-> t, next |-> 0, grace |-> FALSE, pair |-> 0]
<1>2. t \in Nat
  BY IdsFacts DEF IInv, Rest
<1>3. q \in Request
  BY <1>2 DEF Request, RefreshSteps, Answers
<1>4. Holds(q)
  BY <1>1 DEF Holds, RefreshSteps, Answers
<1>5. handler' = [handler EXCEPT ![h] = q] /\ Calm /\ UNCHANGED <<tokens, granted, rotated>>
  BY <1>1 DEF Send, Calm
<1> QED
  BY <1>3, <1>4, <1>5, QuietStep, CalmKeeps

LEMMA RefuseKeeps ==
    ASSUME IInv, NEW h \in Handlers, Refuse(h), tabbed' = tabbed, active' = active,
           UNCHANGED <<tokens, granted, rotated>>, cookie' \in [Clients -> {0} \cup granted],
           ended' \subseteq Ids
    PROVE  IInv'
  BY QuietStep DEF Refuse, Idle, Holds

LEMMA AnswerKeeps ==
    ASSUME IInv, NEW h \in Handlers, Answer(h), tabbed' = tabbed
    PROVE  IInv'
<1>1. CASE Receive(h)
  <2>1. handler[h] \in Request /\ Holds(handler[h]) /\ handler[h].at \in Answers
    BY <1>1, RequestAt DEF Receive, Answers, At
  <2>2. handler[h].pair \in {0} \cup granted
    BY <2>1 DEF Holds, Answers
  <2>3. cookie' \in [Clients -> {0} \cup granted]
    BY <1>1, <2>2 DEF Receive, IInv, Rest
  <2> QED
    BY <1>1, <2>3, RefuseKeeps DEF Receive, IInv, Rest
<1>2. CASE LoseAnswer(h)
  BY <1>2, RefuseKeeps, CalmKeeps DEF LoseAnswer, Calm
<1>3. CASE FailRequest(h)
  <2>1. handler[h].at \in {"reload", "reissue", "relink", "relinkOwn", "endAll"} =>
          SessionOf(h) \in Ids
    BY RefreshAt DEF RefreshSteps
  <2>2. ended' \subseteq Ids
    BY <1>3, <2>1 DEF FailRequest, IInv, Rest
  <2> QED
    BY <1>3, <2>2, RefuseKeeps DEF FailRequest, IInv, Rest
<1> QED
  BY <1>1, <1>2, <1>3 DEF Answer

\* A request goes on to a step that claims nothing.
LEMMA GotoKeeps ==
    ASSUME IInv, NEW h \in Handlers, handler[h].at \in RefreshSteps,
           NEW step \in RefreshSteps,
           step \in {"rotate", "drop", "relink", "relinkOwn", "reload", "reissue"} => FALSE,
           Goto(h, step), Calm, UNCHANGED <<tokens, granted, rotated>>
    PROVE  IInv'
<1> DEFINE q == [handler[h] EXCEPT !.at = step]
<1>1. handler[h] \in Request /\ Holds(handler[h])
  BY RefreshAt
<1>2. q \in Request /\ q.at = step
  BY <1>1 DEF Request
<1>3. Holds(q)
  BY <1>1, <1>2 DEF Holds, Request, RefreshSteps, Answers
<1>4. handler' = [handler EXCEPT ![h] = q]
  BY DEF Goto
<1>5. q.at \notin {"reload", "reissue"}
  BY <1>2
<1> HIDE DEF q
<1> QED
  BY <1>2, <1>3, <1>4, <1>5, QuietStep, CalmKeeps

LEMMA CheckLoginKeeps ==
    ASSUME IInv, NEW h \in Handlers, CheckLogin(h), tabbed' = tabbed
    PROVE  IInv'
<1>1. Calm /\ UNCHANGED <<tokens, granted, rotated>>
  BY DEF CheckLogin, Calm
<1>2. CASE Goto(h, "open")
  <2> DEFINE q == [handler[h] EXCEPT !.at = "open"]
  <2>1. handler[h] \in Request /\ Holds(handler[h])
    BY RequestAt DEF CheckLogin, At
  <2>2. q \in Request /\ q.at = "open" /\ Holds(q)
    BY <2>1 DEF Request, Holds, RefreshSteps, Answers
  <2>3. handler' = [handler EXCEPT ![h] = q]
    BY <1>2 DEF Goto
  <2> HIDE DEF q
  <2> QED
    BY <1>1, <2>2, <2>3, QuietStep, CalmKeeps
<1>3. CASE Refuse(h)
  BY <1>1, <1>3, RefuseKeeps, CalmKeeps
<1> QED
  BY <1>2, <1>3 DEF CheckLogin

LEMMA LogoutKeeps ==
    ASSUME IInv, NEW h \in Handlers, Logout(h), tabbed' = tabbed
    PROVE  IInv'
<1> DEFINE q == [at |-> "loggedOut", client |-> handler[h].client, token |-> 0, next |-> 0,
                 grace |-> FALSE, pair |-> 0]
<1>1. handler[h] \in Request /\ Holds(handler[h])
  BY RequestAt DEF Logout, At
<1>2. q \in Request /\ Holds(q)
  BY <1>1 DEF Request, Holds, RefreshSteps, Answers
<1>3. handler' = [handler EXCEPT ![h] = q]
  BY DEF Logout, Reply
<1>4. Fades
  <2>1. CASE handler[h].token \in Ids
    BY <2>1, RevokeIfActiveFacts DEF Logout, IInv
  <2>2. CASE handler[h].token \notin Ids
    <3>1. tokens' = tokens
      BY <2>2, LenProperties DEF Logout, RevokeIfActive, IInv, Rows, Ids
    <3> QED
      BY <3>1 DEF Fades, IInv, Rows, Ids
  <2> QED
    BY <2>1, <2>2
<1> QED
  BY <1>2, <1>3, <1>4, RevokingStep, CalmKeeps DEF Logout, Calm

LEMMA FindTokenKeeps ==
    ASSUME IInv, NEW h \in Handlers, FindToken(h), tabbed' = tabbed
    PROVE  IInv'
<1>1. Calm /\ UNCHANGED <<tokens, granted, rotated>> /\ handler[h].at \in RefreshSteps
  BY DEF FindToken, Calm, At, RefreshSteps
<1> DEFINE row == tokens[handler[h].token]
           q == [handler[h] EXCEPT !.at = "decide", !.next = row.replacedBy]
<1>2. CASE handler' = [handler EXCEPT ![h].at = "decide", ![h].next = row.replacedBy]
  <2>1. /\ handler[h] \in Request /\ Holds(handler[h]) /\ handler[h].token \in granted
        /\ handler[h].token \in Ids /\ row \in Row
    BY <1>1, RefreshAt
  <2>2. row.replacedBy \in {0} \cup granted /\ row.replacedBy \in Nat
    BY <2>1 DEF IInv, Linked, Row
  <2>3. row.replacedBy # 0 => tokens[row.replacedBy].session = row.session
    BY <2>1 DEF IInv, Linked
  <2>4. q \in Request /\ q.at = "decide"
    BY <2>1, <2>2 DEF Request, RefreshSteps
  <2>5. Holds(q)
    BY <2>1, <2>2, <2>3 DEF Holds, Request, RefreshSteps, Answers
  <2>6. handler' = [handler EXCEPT ![h] = q]
    BY <1>2
  <2> HIDE DEF q
  <2> QED
    BY <1>1, <2>4, <2>5, <2>6, QuietStep, CalmKeeps
<1>3. CASE Refuse(h)
  BY <1>1, <1>3, RefuseKeeps, CalmKeeps
<1>4. CASE Goto(h, "load")
  BY <1>1, <1>4, GotoKeeps DEF RefreshSteps
<1> QED
  BY <1>2, <1>3, <1>4 DEF FindToken

LEMMA LoadActiveUserKeeps ==
    ASSUME IInv, NEW h \in Handlers, LoadActiveUser(h), tabbed' = tabbed
    PROVE  IInv'
<1>1. Calm /\ UNCHANGED <<tokens, granted, rotated>> /\ handler[h].at \in RefreshSteps
  BY DEF LoadActiveUser, Calm, At, RefreshSteps
<1>2. CASE Goto(h, "issue") \/ Goto(h, "endAll")
  BY <1>1, <1>2, GotoKeeps DEF RefreshSteps
<1>3. CASE At(h, "reload") /\ Goto(h, "reissue")
  <2> DEFINE q == [handler[h] EXCEPT !.at = "reissue"]
  <2>1. handler[h] \in Request /\ Holds(handler[h])
    BY <1>1, RefreshAt
  <2>2. q \in Request /\ q.token = handler[h].token
    BY <2>1 DEF Request, RefreshSteps
  <2>3. Holds(q)
    BY <1>3, <2>1, <2>2 DEF Holds, Request, RefreshSteps, Answers, At
  <2>4. handler' = [handler EXCEPT ![h] = q] /\ Claimed(h)
    BY <1>3 DEF Goto, Claimed, At
  <2> HIDE DEF q
  <2> QED
    BY <1>1, <2>2, <2>3, <2>4, QuietStep, CalmKeeps
<1> QED
  BY <1>2, <1>3 DEF LoadActiveUser

LEMMA DropPairKeeps ==
    ASSUME IInv, NEW h \in Handlers, DropPair(h), tabbed' = tabbed
    PROVE  IInv'
<1> DEFINE q == [handler[h] EXCEPT !.at = "reread", !.pair = 0]
<1>1. handler[h] \in Request /\ Holds(handler[h])
  BY RequestAt DEF DropPair, At
<1>2. q \in Request /\ q.at = "reread"
  BY <1>1 DEF Request, RefreshSteps
<1>3. Holds(q)
  BY <1>1, <1>2 DEF Holds, Request, RefreshSteps, Answers, DropPair, At
<1>4. handler' = [handler EXCEPT ![h] = q]
  BY DEF DropPair
<1>5. Fades
  BY <1>1, RevokeIfActiveFacts DEF Holds, DropPair, At, IInv
<1> HIDE DEF q
<1> QED
  BY <1>2, <1>3, <1>4, <1>5, RevokingStep, CalmKeeps DEF DropPair, Calm

\* The record is read again: what it points at is of its session.
LEMMA LinkRead ==
    ASSUME IInv, NEW h \in Handlers, handler[h].at \in RefreshSteps
    PROVE  LET next == tokens[handler[h].token].replacedBy IN
           /\ next \in {0} \cup granted /\ next \in Nat
           /\ next # 0 => tokens[next].session = tokens[handler[h].token].session
<1>1. handler[h].token \in Ids /\ tokens[handler[h].token] \in Row
  BY RefreshAt
<1> QED
  BY <1>1 DEF IInv, Linked, Row

LEMMA DecideKeeps ==
    ASSUME IInv, NEW h \in Handlers, handler[h].at \in RefreshSteps,
           handler' = [handler EXCEPT ![h].at = "decide",
                                      ![h].next = tokens[handler[h].token].replacedBy],
           Calm, UNCHANGED <<tokens, granted, rotated>>
    PROVE  IInv'
<1> DEFINE next == tokens[handler[h].token].replacedBy
           q == [handler[h] EXCEPT !.at = "decide", !.next = next]
<1>1. handler[h] \in Request /\ Holds(handler[h])
  BY RefreshAt
<1>2. /\ next \in {0} \cup granted /\ next \in Nat
      /\ next # 0 => tokens[next].session = tokens[handler[h].token].session
  BY LinkRead
<1> HIDE DEF next
<1>3. q \in Request /\ q.at = "decide"
  BY <1>1, <1>2 DEF Request, RefreshSteps
<1>4. Holds(q)
  BY <1>1, <1>2, <1>3 DEF Holds, Request, RefreshSteps, Answers
<1>5. handler' = [handler EXCEPT ![h] = q]
  BY DEF next
<1> HIDE DEF q
<1> QED
  BY <1>3, <1>4, <1>5, QuietStep, CalmKeeps

LEMMA RereadTokenKeeps ==
    ASSUME IInv, NEW h \in Handlers, RereadToken(h), tabbed' = tabbed
    PROVE  IInv'
  BY DecideKeeps DEF RereadToken, Calm, At, RefreshSteps

LEMMA RetryClaimKeeps ==
    ASSUME IInv, NEW h \in Handlers, RetryClaim(h), tabbed' = tabbed
    PROVE  IInv'
<1>1. Calm /\ UNCHANGED <<tokens, granted, rotated>> /\ handler[h].at \in RefreshSteps
  BY DEF RetryClaim, Calm, At, RefreshSteps
<1>2. CASE Refuse(h)
  BY <1>1, <1>2, RefuseKeeps, CalmKeeps
<1>3. CASE ~Refuse(h)
  BY <1>1, <1>3, DecideKeeps DEF RetryClaim
<1> QED
  BY <1>2, <1>3

LEMMA JudgeRevokedKeeps ==
    ASSUME IInv, NEW h \in Handlers, JudgeRevoked(h), tabbed' = tabbed
    PROVE  IInv'
<1>1. Calm /\ UNCHANGED <<tokens, granted, rotated>> /\ handler[h].at \in RefreshSteps
  BY DEF JudgeRevoked, Calm, At, RefreshSteps
<1> DEFINE grace == ~tokens[handler[h].token].aged
           q == [handler[h] EXCEPT !.at = "claim", !.grace = grace]
<1>2. CASE handler' = [handler EXCEPT ![h].at = "claim", ![h].grace = grace]
  <2>1. handler[h] \in Request /\ Holds(handler[h]) /\ grace \in BOOLEAN
    BY <1>1, RefreshAt
  <2> HIDE DEF grace
  <2>2. q \in Request /\ q.at = "claim"
    BY <2>1 DEF Request, RefreshSteps
  <2>3. Holds(q)
    BY <1>1, <2>1, <2>2 DEF Holds, Request, RefreshSteps, Answers
  <2>4. handler' = [handler EXCEPT ![h] = q]
    BY <1>2
  <2> HIDE DEF q
  <2> QED
    BY <1>1, <2>2, <2>3, <2>4, QuietStep, CalmKeeps
<1>3. CASE Refuse(h)
  BY <1>1, <1>3, RefuseKeeps, CalmKeeps
<1>4. CASE Goto(h, "endAll")
  BY <1>1, <1>4, GotoKeeps DEF RefreshSteps
<1> QED
  BY <1>2, <1>3, <1>4 DEF JudgeRevoked

LEMMA EndAllSessionsKeeps ==
    ASSUME IInv, NEW h \in Handlers, EndAllSessions(h), tabbed' = tabbed
    PROVE  IInv'
<1>1. Fades /\ ended' \subseteq Ids
  BY RevokeAllFacts DEF EndAllSessions, IInv, Rest
<1>2. Idle \in {Idle} \cup Request /\ Holds(Idle) /\ Idle.at = "idle"
  BY DEF Idle, Holds
<1> QED
  BY <1>1, <1>2, RevokingStep DEF EndAllSessions, Refuse, IInv, Rest

LEMMA OthersKeep ==
    ASSUME IInv, tabbed' = tabbed
    PROVE  /\ \A u \in Users : SetCustomerActive(u) => IInv'
           /\ \A u \in Users, d \in BOOLEAN : RevokeSessions(u, d) => IInv'
           /\ \A t \in Ids : PassTime(t) => IInv'
<1>1. ASSUME NEW u \in Users, SetCustomerActive(u)
      PROVE  IInv'
  <2>1. Fades
    BY <1>1 DEF SetCustomerActive, Fades, IInv, Rows, Ids
  <2> QED
    BY <1>1, <2>1, OutsideStep DEF SetCustomerActive, IInv, Rest
<1>2. ASSUME NEW u \in Users, NEW d \in BOOLEAN, RevokeSessions(u, d)
      PROVE  IInv'
  <2>1. Fades /\ ended' \subseteq Ids
    BY <1>2, RevokeAllFacts DEF RevokeSessions, IInv, Rest
  <2>2. active' \in [Users -> BOOLEAN]
    BY <1>2 DEF RevokeSessions, IInv, Rest
  <2> QED
    BY <1>2, <2>1, <2>2, OutsideStep DEF RevokeSessions
<1>3. ASSUME NEW t \in Ids, PassTime(t)
      PROVE  IInv'
  <2> DEFINE row == [tokens[t] EXCEPT !.aged = TRUE]
  <2>1. tokens[t] \in Row
    BY IdsFacts DEF IInv
  <2>2. /\ row \in Row /\ row.session = tokens[t].session
        /\ row.replacedBy = tokens[t].replacedBy /\ row.revoked = tokens[t].revoked
    BY <2>1 DEF Row
  <2>3. /\ Rows' /\ Ids' = Ids
        /\ \A i \in Ids : tokens'[i] = IF i = t THEN row ELSE tokens[i]
    BY <1>3, <2>2, SetFacts DEF PassTime, IInv
  <2>4. Fades
    BY <2>2, <2>3 DEF Fades
  <2> QED
    BY <1>3, <2>4, OutsideStep DEF PassTime, IInv, Rest
<1> QED
  BY <1>1, <1>2, <1>3

\* A claim: it fails and is retried, it is refused, or the request is now the
\* only one that may give the session a token.
LEMMA ClaimReplacementKeeps ==
    ASSUME IInv, NEW h \in Handlers, ClaimReplacement(h), tabbed' = tabbed
    PROVE  IInv'
<1> DEFINE next == handler[h].next
<1>1. /\ handler[h] \in Request /\ Holds(handler[h]) /\ handler[h].at = "claim"
      /\ handler[h].token \in granted /\ handler[h].token \in Ids
  BY RefreshAt DEF ClaimReplacement, At, RefreshSteps
<1>2. Calm /\ UNCHANGED <<granted, rotated>>
  BY DEF ClaimReplacement, Calm
<1>3. Fades /\ (next \in Ids => tokens'[next].revoked)
  <2>1. CASE next \in Ids
    BY <2>1, RevokeIfActiveFacts DEF ClaimReplacement, IInv
  <2>2. CASE next \notin Ids
    <3>1. tokens' = tokens
      BY <2>2, LenProperties DEF ClaimReplacement, RevokeIfActive, IInv, Rows, Ids
    <3> QED
      BY <2>2, <3>1 DEF Fades, IInv, Rows, Ids
  <2> QED
    BY <2>1, <2>2
<1>4. CASE Refuse(h)
  <2>1. Idle \in {Idle} \cup Request /\ Holds(Idle) /\ Idle.at = "idle"
    BY DEF Idle, Holds
  <2> QED
    BY <1>2, <1>3, <1>4, <2>1, RevokingStep, CalmKeeps DEF Refuse
<1>5. ASSUME handler' = [handler EXCEPT ![h].at = "retry", ![h].grace = FALSE]
      PROVE  IInv'
  <2> DEFINE q == [handler[h] EXCEPT !.at = "retry", !.grace = FALSE]
  <2>1. q \in Request /\ q.at = "retry"
    BY <1>1 DEF Request, RefreshSteps
  <2>2. Holds(q)
    BY <1>1, <2>1 DEF Holds, Request, RefreshSteps, Answers
  <2>3. handler' = [handler EXCEPT ![h] = q]
    BY <1>5
  <2> HIDE DEF q
  <2> QED
    BY <1>2, <1>3, <2>1, <2>2, <2>3, RevokingStep, CalmKeeps
<1>6. ASSUME next \in Unrevoked,
             handler' = [handler EXCEPT ![h].at = "reload", ![h].grace = FALSE]
      PROVE  IInv'
  <2> DEFINE q == [handler[h] EXCEPT !.at = "reload", !.grace = FALSE]
  <2>1. q \in Request /\ q.at = "reload" /\ q.token = handler[h].token
    BY <1>1 DEF Request, RefreshSteps
  <2>2. Holds(q)
    BY <1>1, <2>1 DEF Holds, Request, RefreshSteps, Answers
  <2>3. handler' = [handler EXCEPT ![h] = q]
    BY <1>6
  <2>4. Grown /\ Linked' /\ Rows'
    BY <1>2, <1>3, FadesGrows DEF Fades
  <2>5. Rest'
    BY <1>2, <1>3 DEF IInv, Rest, Fades, Calm
  <2> HIDE DEF q
  <2>6. Held'
    BY <2>1, <2>2, <2>3, <2>4, HoldsStable, HeldByOthers
  <2>7. /\ next \in granted \cap Unrevoked /\ next \in Ids /\ tokens'[next].revoked
        /\ tokens[next].session = SessionOf(h)
    <3>1. next \in Ids /\ next # 0
      BY <1>6, IdsFacts DEF Unrevoked, IInv
    <3> QED
      BY <1>1, <1>3, <1>6, <3>1 DEF Holds, SessionOf, RefreshSteps
  <2>8. \A t \in granted : t \in Ids /\ tokens'[t].session = tokens[t].session
                           /\ (t \in Unrevoked' => t \in Unrevoked)
    BY <1>3 DEF IInv, Rest, Fades, Unrevoked
  <2>9. \A g \in Handlers : Claimed(g)' =>
           /\ SessionOf(g)' = SessionOf(g)
           /\ g # h => Claimed(g) /\ SessionOf(g) # SessionOf(h)
    <3> SUFFICES ASSUME NEW g \in Handlers, Claimed(g)'
                 PROVE  /\ SessionOf(g)' = SessionOf(g)
                        /\ g # h => Claimed(g) /\ SessionOf(g) # SessionOf(h)
      OBVIOUS
    <3>1. CASE g = h
      BY <1>1, <1>2, <2>1, <2>3, <2>8, <3>1 DEF SessionOf, IInv, Held
    <3>2. CASE g # h
      <4>1. handler'[g] = handler[g] /\ Claimed(g)
        BY <2>3, <3>2 DEF Claimed, IInv, Held
      <4>2. handler[g].token \in granted
        BY <4>1, RefreshAt DEF Claimed, RefreshSteps
      <4>3. SessionOf(g) # tokens[next].session
        BY <2>7, <4>1 DEF IInv, Retired
      <4> QED
        BY <2>7, <2>8, <4>1, <4>2, <4>3 DEF SessionOf
    <3> QED
      BY <3>1, <3>2
  <2>10. NeverForked'
    BY <1>2, <2>8 DEF IInv, NeverForked
  <2>11. \A t \in granted : t \in Unrevoked' => tokens'[t].session # SessionOf(h)
    <3> SUFFICES ASSUME NEW t \in granted, t \in Unrevoked', tokens'[t].session = SessionOf(h)
                 PROVE  FALSE
      OBVIOUS
    <3>1. t = next
      BY <2>7, <2>8 DEF IInv, NeverForked
    <3> QED
      BY <2>7, <3>1 DEF Unrevoked
  <2>12. Retired'
    <3> SUFFICES ASSUME NEW g \in Handlers, Claimed(g)'
                 PROVE  /\ \A t \in granted \cap Unrevoked' : tokens'[t].session # SessionOf(g)'
                        /\ \A f \in Handlers : Claimed(f)' /\ SessionOf(f)' = SessionOf(g)' => f = g
      BY <1>2 DEF Retired
    <3>1. CASE g = h
      BY <2>9, <2>11, <3>1
    <3>2. CASE g # h
      BY <2>8, <2>9, <3>2 DEF IInv, Retired
    <3> QED
      BY <3>1, <3>2
  <2> QED
    BY <2>4, <2>5, <2>6, <2>10, <2>12 DEF IInv
<1> QED
  BY <1>4, <1>5, <1>6 DEF ClaimReplacement

-----------------------------------------------------------------------------
(* Steps that grant a token, insert one or move a link.                    *)

\* A grant is safe when it leaves its token the only live one of its session,
\* and nobody has claimed that session.
LEMMA Granting ==
    ASSUME IInv, Grown, NEW p, granted' = granted \cup {p},
           \A t \in granted : t \in Unrevoked' /\ tokens'[t].session = tokens'[p].session
                                 => t = p,
           \A g \in Handlers : Claimed(g)' =>
               /\ Claimed(g) /\ handler'[g].token = handler[g].token
               /\ SessionOf(g) # tokens'[p].session
    PROVE  Retired' /\ NeverForked'
<1>1. \A t \in granted : t \in Ids /\ tokens'[t].session = tokens[t].session
  BY DEF IInv, Rest, Grown
<1>2. \A t \in granted : t \in Unrevoked' => t \in Unrevoked
  BY <1>1 DEF Grown, Unrevoked
<1>3. \A g \in Handlers : Claimed(g)' => SessionOf(g)' = SessionOf(g)
  BY <1>1 DEF IInv, Held, Holds, Claimed, SessionOf, RefreshSteps
<1>4. NeverForked'
  BY <1>1, <1>2 DEF IInv, NeverForked
<1>5. Retired'
  BY <1>1, <1>2, <1>3 DEF IInv, Retired
<1> QED
  BY <1>4, <1>5

LEMMA IssueGrows ==
    ASSUME IInv, NEW h, NEW user \in Users, NEW session \in 1 .. Len(tokens) + 1,
           Issue(h, user, session), granted \subseteq granted'
    PROVE  Grown /\ Linked'
<1>1. /\ Ids' = Ids \cup {Len(tokens')} /\ \A t \in Ids : tokens'[t] = tokens[t]
      /\ tokens'[Len(tokens')].replacedBy = 0
  BY IssueFacts DEF IInv
<1>2. \A t \in granted : t \in Ids
  BY DEF IInv, Rest
<1> QED
  BY <1>1, <1>2 DEF IInv, Linked, Grown

LEMMA RelinkFacts ==
    ASSUME IInv, NEW t \in {0} \cup granted, NEW p \in granted,
           t # 0 => tokens[p].session = tokens[t].session,
           SetReplacement(t, p), granted' = granted
    PROVE  Grown /\ Linked' /\ Rows' /\ Ids' = Ids
<1>1. granted \subseteq Ids /\ 0 \notin Ids /\ p \in Nat
  BY IdsFacts DEF IInv, Rest
<1>2. CASE t = 0
  <2>1. tokens' = tokens
    BY <1>1, <1>2, LenProperties DEF SetReplacement, IInv, Rows, Ids
  <2> QED
    BY <2>1 DEF IInv, Rows, Ids, Grown, Linked
<1>3. CASE t # 0
  <2> DEFINE row == [tokens[t] EXCEPT !.replacedBy = p]
  <2>1. t \in Ids /\ tokens[t] \in Row
    BY <1>1, <1>3, IdsFacts DEF IInv
  <2>2. /\ row \in Row /\ row.session = tokens[t].session /\ row.replacedBy = p
        /\ row.revoked = tokens[t].revoked
    BY <1>1, <2>1 DEF Row
  <2> HIDE DEF row
  <2>3. tokens' = [tokens EXCEPT ![t] = row]
    BY DEF SetReplacement, row
  <2>4. /\ Rows' /\ Ids' = Ids
        /\ \A i \in Ids : tokens'[i] = IF i = t THEN row ELSE tokens[i]
    BY <2>1, <2>2, <2>3, SetFacts DEF IInv
  <2>5. \A i \in Ids : tokens'[i].session = tokens[i].session
    BY <2>2, <2>4
  <2>6. Grown
    BY <2>2, <2>4 DEF Grown
  <2>7. ASSUME NEW i \in Ids, tokens'[i].replacedBy # 0
        PROVE  /\ tokens'[i].replacedBy \in granted
               /\ tokens'[tokens'[i].replacedBy].session = tokens'[i].session
    <3>1. CASE i = t
      BY <1>1, <1>3, <2>1, <2>2, <2>4, <2>5, <3>1
    <3>2. CASE i # t
      <4>1. tokens'[i] = tokens[i]
        BY <2>4, <3>2
      <4>2. /\ tokens[i].replacedBy \in granted
            /\ tokens[tokens[i].replacedBy].session = tokens[i].session
        BY <2>7, <4>1 DEF IInv, Linked
      <4> QED
        BY <1>1, <2>5, <4>1, <4>2
    <3> QED
      BY <3>1, <3>2
  <2>8. Linked'
    BY <2>4, <2>7 DEF Linked
  <2> QED
    BY <2>4, <2>6, <2>8
<1> QED
  BY <1>2, <1>3

LEMMA GrantedStays ==
    ASSUME IInv, Grown
    PROVE  \A t \in granted : /\ t \in Ids /\ t \in granted' /\ t # 0
                              /\ tokens'[t].session = tokens[t].session
  BY IdsFacts DEF IInv, Rest, Grown

LEMMA IssuePairKeeps ==
    ASSUME IInv, NEW h \in Handlers, IssuePair(h), tabbed' = tabbed
    PROVE  IInv'
<1> DEFINE p == Len(tokens')
<1>1. /\ handler[h] \in Request /\ Holds(handler[h]) /\ handler[h].at = "issue"
      /\ handler[h].token \in granted
      /\ UserOf(h) \in Users /\ SessionOf(h) \in 1 .. Len(tokens) + 1
  BY RefreshAt, IdsFacts DEF IssuePair, At, RefreshSteps, IInv
<1>2. granted' = granted /\ Issue(h, UserOf(h), SessionOf(h)) /\ Calm /\ rotated' = rotated
  BY DEF IssuePair, Calm
<1>3. /\ Rows' /\ Ids' = Ids \cup {p} /\ p \in Nat
      /\ tokens'[p].session = SessionOf(h)
  BY <1>1, <1>2, IssueFacts, IdsFacts DEF IInv
<1>4. Grown /\ Linked'
  BY <1>1, <1>2, IssueGrows
<1>5. Rest'
  BY <1>2, <1>3 DEF IInv, Rest, Calm
<1>6. handler' = [handler EXCEPT ![h] = [handler[h] EXCEPT !.at = "rotate", !.pair = p]]
  BY DEF IssuePair
<1> HIDE DEF p
<1>7. PICK q \in Request : /\ handler' = [handler EXCEPT ![h] = q] /\ q.at = "rotate"
                           /\ q.token = handler[h].token /\ q.next = handler[h].next
                           /\ q.pair = p
  <2> DEFINE r == [handler[h] EXCEPT !.at = "rotate", !.pair = p]
  <2>1. /\ r \in Request /\ r.at = "rotate" /\ r.token = handler[h].token
        /\ r.next = handler[h].next /\ r.pair = p
    BY <1>1, <1>3 DEF Request, RefreshSteps
  <2>2. handler' = [handler EXCEPT ![h] = r]
    BY <1>6
  <2> HIDE DEF r
  <2> QED
    BY <2>1, <2>2
<1>8. \A t \in granted : t \in granted' /\ t # 0 /\ tokens'[t].session = tokens[t].session
  BY <1>4, GrantedStays
<1>9. Holds(q)'
  <2>1. q.next \in {0} \cup granted /\ q.token \in granted
    BY <1>1, <1>7 DEF Holds
  <2>2. q.next # 0 => tokens'[q.next].session = tokens'[q.token].session
    BY <1>1, <1>7, <1>8, <2>1 DEF Holds, RefreshSteps
  <2>3. p \in Ids' /\ tokens'[p].session = tokens'[q.token].session
    BY <1>3, <1>7, <1>8, <2>1 DEF SessionOf
  <2> QED
    BY <1>7, <1>8, <2>1, <2>2, <2>3 DEF Holds, Answers
<1>10. Held'
  BY <1>4, <1>7, <1>9, HeldByOthers
<1>11. \A g \in Handlers : Claimed(g)' => Claimed(g) /\ handler'[g].token = handler[g].token
  BY <1>7 DEF IInv, Held, Claimed
<1>12. Retired' /\ NeverForked'
  BY <1>2, <1>4, <1>11, NothingGranted
<1> QED
  BY <1>3, <1>4, <1>5, <1>10, <1>12 DEF IInv

\* The rotation: the only live token of the session is revoked as its
\* successor is granted, so nobody can have claimed the session.
LEMMA RotateTokenKeeps ==
    ASSUME IInv, NEW h \in Handlers, RotateToken(h), tabbed' = tabbed
    PROVE  IInv'
<1> DEFINE t == handler[h].token
           p == handler[h].pair
<1>1. /\ handler[h] \in Request /\ Holds(handler[h]) /\ handler[h].at = "rotate"
      /\ t \in granted /\ t \in Ids /\ tokens[t] \in Row
  BY RefreshAt DEF RotateToken, At, RefreshSteps
<1>2. /\ p \in Ids /\ tokens[p].session = tokens[t].session /\ p \in Nat
  BY <1>1, IdsFacts DEF Holds, IInv
<1>3. Calm
  BY DEF RotateToken, Calm
<1>4. CASE t \in Unrevoked
  <2>1. /\ tokens' = [tokens EXCEPT ![t] = Revoked(tokens[t], p)]
        /\ granted' = granted \cup {p} /\ rotated' = rotated \cup {t}
        /\ Reply(h, "refreshed", p)
    BY <1>4 DEF RotateToken
  <2> DEFINE row == Revoked(tokens[t], p)
  <2>2. row \in Row /\ row.session = tokens[t].session /\ row.replacedBy = p /\ row.revoked
    BY <1>1, <1>2, RevokedRow
  <2> HIDE DEF row, t, p
  <2>3. tokens' = [tokens EXCEPT ![t] = row]
    BY <2>1 DEF row
  <2>4. /\ Rows' /\ Ids' = Ids
        /\ \A i \in Ids : tokens'[i] = IF i = t THEN row ELSE tokens[i]
    BY <1>1, <2>2, <2>3, SetFacts DEF IInv
  <2>5. \A i \in Ids : tokens'[i].session = tokens[i].session
    BY <2>2, <2>4
  <2>6. Grown
    BY <2>1, <2>2, <2>4 DEF Grown
  <2>7. \A i \in granted : i \in Ids /\ i \in granted'
    BY <2>6, GrantedStays
  <2>8. ASSUME NEW i \in Ids, tokens'[i].replacedBy # 0
        PROVE  /\ tokens'[i].replacedBy \in granted'
               /\ tokens'[tokens'[i].replacedBy].session = tokens'[i].session
    <3>1. CASE i = t
      BY <1>2, <2>1, <2>2, <2>4, <2>5, <3>1
    <3>2. CASE i # t
      <4>1. tokens'[i] = tokens[i]
        BY <2>4, <3>2
      <4>2. /\ tokens[i].replacedBy \in granted
            /\ tokens[tokens[i].replacedBy].session = tokens[i].session
        BY <2>8, <4>1 DEF IInv, Linked
      <4> QED
        BY <2>5, <2>7, <4>1, <4>2
    <3> QED
      BY <3>1, <3>2
  <2>9. Linked'
    BY <2>4, <2>8 DEF Linked
  <2>10. Rest'
    BY <1>1, <1>2, <1>3, <2>1, <2>4 DEF IInv, Rest, Calm
  <2>11. PICK q \in Request : /\ handler' = [handler EXCEPT ![h] = q] /\ q.at = "refreshed"
                              /\ q.token = 0 /\ q.next = 0 /\ q.pair = p
    <3> DEFINE r == [at |-> "refreshed", client |-> handler[h].client, token |-> 0,
                     next |-> 0, grace |-> FALSE, pair |-> p]
    <3>1. handler' = [handler EXCEPT ![h] = r]
      BY <2>1 DEF Reply
    <3>2. r \in Request /\ r.at = "refreshed" /\ r.token = 0 /\ r.next = 0 /\ r.pair = p
      BY <1>1, <1>2 DEF Request, Answers
    <3> HIDE DEF r
    <3> QED
      BY <3>1, <3>2
  <2>12. Holds(q)'
    BY <1>2, <2>1, <2>4, <2>11 DEF Holds, RefreshSteps, Answers
  <2>13. Held'
    BY <2>6, <2>11, <2>12, HeldByOthers
  <2>14. \A i \in granted : i \in Unrevoked' /\ tokens'[i].session = tokens'[p].session => i = p
    <3> SUFFICES ASSUME NEW i \in granted, i \in Unrevoked',
                        tokens'[i].session = tokens'[p].session
                 PROVE  FALSE
      OBVIOUS
    <3>1. i \in Unrevoked /\ i # t
      BY <2>2, <2>4, <2>7 DEF Unrevoked
    <3>2. tokens[i].session = tokens[t].session
      BY <1>2, <2>5, <2>7
    <3> QED
      BY <1>1, <1>4, <3>1, <3>2 DEF IInv, NeverForked
  <2>15. \A g \in Handlers : Claimed(g)' =>
            /\ Claimed(g) /\ handler'[g].token = handler[g].token
            /\ SessionOf(g) # tokens'[p].session
    <3> SUFFICES ASSUME NEW g \in Handlers, Claimed(g)'
                 PROVE  /\ Claimed(g) /\ handler'[g].token = handler[g].token
                        /\ SessionOf(g) # tokens'[p].session
      OBVIOUS
    <3>1. g # h /\ handler'[g] = handler[g] /\ Claimed(g)
      BY <2>11 DEF Claimed, IInv, Held
    <3>2. SessionOf(g) # tokens[t].session
      BY <1>1, <1>4, <3>1 DEF IInv, Retired
    <3> QED
      BY <1>2, <2>5, <3>1, <3>2
  <2>16. Retired' /\ NeverForked'
    BY <2>1, <2>6, <2>14, <2>15, Granting
  <2> QED
    BY <2>4, <2>9, <2>10, <2>13, <2>16 DEF IInv
<1>5. CASE t \notin Unrevoked
  <2> DEFINE q == [handler[h] EXCEPT !.at = "drop"]
  <2>1. Goto(h, "drop") /\ UNCHANGED <<tokens, granted, rotated>>
    BY <1>5 DEF RotateToken
  <2>2. q \in Request /\ q.at = "drop"
    BY <1>1 DEF Request, RefreshSteps
  <2>3. Holds(q)
    BY <1>1, <2>2 DEF Holds, Request, RefreshSteps, Answers
  <2>4. handler' = [handler EXCEPT ![h] = q]
    BY <2>1 DEF Goto
  <2> HIDE DEF q
  <2> QED
    BY <1>3, <2>1, <2>2, <2>3, <2>4, QuietStep, CalmKeeps
<1> QED
  BY <1>4, <1>5

\* A claimed session has no live token, and the claimer is the only one.
LEMMA ReissuePairKeeps ==
    ASSUME IInv, NEW h \in Handlers, ReissuePair(h), tabbed' = tabbed
    PROVE  IInv'
<1> DEFINE p == Len(tokens')
<1>1. /\ handler[h] \in Request /\ Holds(handler[h]) /\ handler[h].at = "reissue"
      /\ handler[h].token \in granted
      /\ UserOf(h) \in Users /\ SessionOf(h) \in 1 .. Len(tokens) + 1
  BY RefreshAt, IdsFacts DEF ReissuePair, At, RefreshSteps, IInv
<1>2. /\ granted' = granted \cup {p} /\ Issue(h, UserOf(h), SessionOf(h)) /\ Calm
      /\ rotated' = rotated
  BY DEF ReissuePair, Calm
<1>3. /\ Rows' /\ Ids' = Ids \cup {p} /\ p \in Nat
      /\ tokens'[p].session = SessionOf(h)
  <2>1. Rows /\ Len(tokens) \in Nat /\ Issue(h, UserOf(h), SessionOf(h))
    BY <1>2, IdsFacts DEF IInv
  <2>2. /\ Rows' /\ Len(tokens') = Len(tokens) + 1 /\ Ids' = Ids \cup {Len(tokens')}
        /\ tokens'[Len(tokens')].session = SessionOf(h)
    BY <1>1, <2>1, IssueFacts
  <2> QED
    BY <2>1, <2>2
<1>4. Grown /\ Linked'
  BY <1>1, <1>2, IssueGrows
<1>5. Rest'
  BY <1>2, <1>3 DEF IInv, Rest, Calm
<1>6. handler' = [handler EXCEPT ![h] = [handler[h] EXCEPT !.at = "relink", !.pair = p]]
  BY DEF ReissuePair
<1> HIDE DEF p
<1>7. PICK q \in Request : /\ handler' = [handler EXCEPT ![h] = q] /\ q.at = "relink"
                           /\ q.token = handler[h].token /\ q.next = handler[h].next
                           /\ q.pair = p
  <2> DEFINE r == [handler[h] EXCEPT !.at = "relink", !.pair = p]
  <2>1. /\ r \in Request /\ r.at = "relink" /\ r.token = handler[h].token
        /\ r.next = handler[h].next /\ r.pair = p
    BY <1>1, <1>3 DEF Request, RefreshSteps
  <2>2. handler' = [handler EXCEPT ![h] = r]
    BY <1>6
  <2> HIDE DEF r
  <2> QED
    BY <2>1, <2>2
<1>8. \A t \in granted : /\ t \in Ids /\ t \in granted' /\ t # 0
                         /\ tokens'[t].session = tokens[t].session
  BY <1>4, GrantedStays
<1>9. Holds(q)'
  <2>1. q.next \in {0} \cup granted /\ q.token \in granted
    BY <1>1, <1>7 DEF Holds
  <2>2. q.next # 0 => tokens'[q.next].session = tokens'[q.token].session
    BY <1>1, <1>7, <1>8, <2>1 DEF Holds, RefreshSteps
  <2>3. p \in Ids' /\ p \in granted' /\ tokens'[p].session = tokens'[q.token].session
    BY <1>2, <1>3, <1>7, <1>8, <2>1 DEF SessionOf
  <2> QED
    BY <1>7, <1>8, <2>1, <2>2, <2>3 DEF Holds, Answers
<1>10. Held'
  BY <1>4, <1>7, <1>9, HeldByOthers
<1>11. Claimed(h)
  BY <1>1 DEF Claimed
<1>12. \A t \in granted : t \in Unrevoked' /\ tokens'[t].session = tokens'[p].session => t = p
  <2> SUFFICES ASSUME NEW t \in granted, t \in Unrevoked',
                      tokens'[t].session = tokens'[p].session
               PROVE  FALSE
    OBVIOUS
  <2>1. t \in Unrevoked /\ tokens[t].session = SessionOf(h)
    BY <1>3, <1>4, <1>8 DEF Grown, Unrevoked
  <2> QED
    BY <1>11, <2>1 DEF IInv, Retired
<1>13. \A g \in Handlers : Claimed(g)' =>
           /\ Claimed(g) /\ handler'[g].token = handler[g].token
           /\ SessionOf(g) # tokens'[p].session
  <2> SUFFICES ASSUME NEW g \in Handlers, Claimed(g)'
               PROVE  /\ Claimed(g) /\ handler'[g].token = handler[g].token
                      /\ SessionOf(g) # tokens'[p].session
    OBVIOUS
  <2>1. g # h /\ handler'[g] = handler[g] /\ Claimed(g)
    BY <1>7 DEF Claimed, IInv, Held
  <2> QED
    BY <1>3, <1>11, <2>1 DEF IInv, Retired
<1>14. Retired' /\ NeverForked'
  BY <1>2, <1>4, <1>12, <1>13, Granting
<1> QED
  BY <1>3, <1>4, <1>5, <1>10, <1>14 DEF IInv

\* A session is named after its first row, so that no token of it exists.
LEMMA OpenSessionKeeps ==
    ASSUME IInv, NEW h \in Handlers, OpenSession(h), tabbed' = tabbed
    PROVE  IInv'
<1> DEFINE p == Len(tokens')
           user == Account[handler[h].client]
           session == Len(tokens) + 1
<1>1. handler[h] \in Request /\ handler[h].at = "open"
  BY RequestAt DEF OpenSession, At
<1>2. user \in Users /\ session \in 1 .. Len(tokens) + 1 /\ session \notin Ids
  BY <1>1, SessionsAssumption, IdsFacts DEF SessionsAssumption, Request, IInv
<1>3. /\ granted' = granted \cup {p} /\ Issue(h, user, session) /\ Calm
      /\ rotated' = rotated /\ Reply(h, "loggedIn", p)
  BY DEF OpenSession, Calm
<1> HIDE DEF user, session
<1>4. /\ Rows' /\ Ids' = Ids \cup {p} /\ p \in Nat
      /\ tokens'[p].session = session
  BY <1>2, <1>3, IssueFacts, IdsFacts DEF IInv
<1>5. Grown /\ Linked'
  BY <1>2, <1>3, IssueGrows
<1>6. Rest'
  BY <1>3, <1>4 DEF IInv, Rest, Calm
<1> HIDE DEF p
<1>7. PICK q \in Request : /\ handler' = [handler EXCEPT ![h] = q] /\ q.at = "loggedIn"
                           /\ q.token = 0 /\ q.next = 0 /\ q.pair = p
  <2> DEFINE r == [at |-> "loggedIn", client |-> handler[h].client, token |-> 0,
                   next |-> 0, grace |-> FALSE, pair |-> p]
  <2>1. handler' = [handler EXCEPT ![h] = r]
    BY <1>3 DEF Reply
  <2>2. r \in Request /\ r.at = "loggedIn" /\ r.token = 0 /\ r.next = 0 /\ r.pair = p
    BY <1>1, <1>4 DEF Request, Answers
  <2> HIDE DEF r
  <2> QED
    BY <2>1, <2>2
<1>8. \A t \in granted : /\ t \in Ids /\ tokens'[t].session = tokens[t].session
                         /\ tokens'[t].session # session
  BY <1>2, <1>5, GrantedStays DEF IInv, Rows
<1>9. Holds(q)'
  BY <1>3, <1>4, <1>7 DEF Holds, RefreshSteps, Answers
<1>10. Held'
  BY <1>5, <1>7, <1>9, HeldByOthers
<1>11. \A t \in granted : t \in Unrevoked' /\ tokens'[t].session = tokens'[p].session => t = p
  BY <1>4, <1>8
<1>12. \A g \in Handlers : Claimed(g)' =>
           /\ Claimed(g) /\ handler'[g].token = handler[g].token
           /\ SessionOf(g) # tokens'[p].session
  <2> SUFFICES ASSUME NEW g \in Handlers, Claimed(g)'
               PROVE  /\ Claimed(g) /\ handler'[g].token = handler[g].token
                      /\ SessionOf(g) # tokens'[p].session
    OBVIOUS
  <2>1. g # h /\ handler'[g] = handler[g] /\ Claimed(g)
    BY <1>7 DEF Claimed, IInv, Held
  <2>2. SessionOf(g) \in Ids
    BY <2>1, RefreshAt DEF Claimed, RefreshSteps
  <2> QED
    BY <1>2, <1>4, <2>1, <2>2
<1>13. Retired' /\ NeverForked'
  BY <1>3, <1>5, <1>11, <1>12, Granting
<1> QED
  BY <1>4, <1>5, <1>6, <1>10, <1>13 DEF IInv

\* Moving a link within a session.
LEMMA RelinkKeeps ==
    ASSUME IInv, NEW h \in Handlers, handler[h].at \in {"relink", "relinkOwn"},
           NEW t \in {0} \cup granted, t # 0 => tokens[t].session = SessionOf(h),
           SetReplacement(t, handler[h].pair), Calm, UNCHANGED <<granted, rotated>>,
           NEW q \in Request, Holds(q), q.at \in {"relinkOwn", "refreshed"},
           handler' = [handler EXCEPT ![h] = q]
    PROVE  IInv'
<1>1. Holds(handler[h]) /\ handler[h].pair \in granted
      /\ tokens[handler[h].pair].session = SessionOf(h)
  BY RefreshAt DEF RefreshSteps, Holds, SessionOf
<1>2. Grown /\ Linked' /\ Rows' /\ Ids' = Ids
  BY <1>1, RelinkFacts
<1>3. Rest'
  BY <1>2 DEF IInv, Rest, Calm
<1>4. Held'
  BY <1>2, HoldsStable, HeldByOthers
<1>5. \A g \in Handlers : Claimed(g)' => Claimed(g) /\ handler'[g].token = handler[g].token
  BY DEF IInv, Held, Claimed
<1>6. Retired' /\ NeverForked'
  BY <1>2, <1>5, NothingGranted
<1> QED
  BY <1>2, <1>3, <1>4, <1>6 DEF IInv

LEMMA RelinkReplacementKeeps ==
    ASSUME IInv, NEW h \in Handlers, RelinkReplacement(h), tabbed' = tabbed
    PROVE  IInv'
<1> DEFINE q == [handler[h] EXCEPT !.at = "relinkOwn"]
<1>1. handler[h] \in Request /\ Holds(handler[h]) /\ handler[h].at = "relink"
  BY RefreshAt DEF RelinkReplacement, At, RefreshSteps
<1>2. q \in Request /\ q.at = "relinkOwn"
  BY <1>1 DEF Request, RefreshSteps
<1>3. Holds(q)
  BY <1>1, <1>2 DEF Holds, Request, RefreshSteps, Answers
<1>4. handler' = [handler EXCEPT ![h] = q]
  BY DEF RelinkReplacement, Goto
<1>5. /\ handler[h].next \in {0} \cup granted
      /\ handler[h].next # 0 => tokens[handler[h].next].session = SessionOf(h)
  BY <1>1 DEF Holds, SessionOf, RefreshSteps
<1>6. /\ SetReplacement(handler[h].next, handler[h].pair) /\ Calm
      /\ UNCHANGED <<granted, rotated>>
  BY DEF RelinkReplacement, Calm
<1> HIDE DEF q
<1> QED
  BY <1>1, <1>2, <1>3, <1>4, <1>5, <1>6, RelinkKeeps

LEMMA RelinkTokenKeeps ==
    ASSUME IInv, NEW h \in Handlers, RelinkToken(h), tabbed' = tabbed
    PROVE  IInv'
<1> DEFINE q == [at |-> "refreshed", client |-> handler[h].client, token |-> 0,
                 next |-> 0, grace |-> FALSE, pair |-> handler[h].pair]
<1>1. /\ handler[h] \in Request /\ Holds(handler[h]) /\ handler[h].at = "relinkOwn"
      /\ handler[h].token \in granted
  BY RefreshAt DEF RelinkToken, At, RefreshSteps
<1>2. q \in Request /\ q.at = "refreshed" /\ Holds(q)
  BY <1>1 DEF Request, Answers, Holds, RefreshSteps
<1>3. handler' = [handler EXCEPT ![h] = q]
  BY DEF RelinkToken, Reply
<1>4. /\ SetReplacement(handler[h].token, handler[h].pair) /\ Calm
      /\ UNCHANGED <<granted, rotated>>
  BY DEF RelinkToken, Calm
<1> HIDE DEF q
<1> QED
  BY <1>1, <1>2, <1>3, <1>4, RelinkKeeps DEF SessionOf

-----------------------------------------------------------------------------
(* The theorems.                                                           *)

LEMMA NextKeepsIInv ==
    ASSUME IInv, [Next]_vars
    PROVE  IInv'
<1>1. CASE UNCHANGED vars
  <2>1. Fades /\ active' \in [Users -> BOOLEAN] /\ ended' \subseteq Ids
    BY <1>1 DEF vars, Fades, IInv, Rows, Rest, Ids
  <2> QED
    BY <1>1, <2>1, OutsideStep DEF vars
<1>2. CASE Next
  <2>1. tabbed' = tabbed
    BY <1>2 DEF Next
  <2>2. ASSUME NEW h \in Handlers, ServeSession(h)
        PROVE  IInv'
    BY <2>1, <2>2, CheckLoginKeeps, OpenSessionKeeps, LogoutKeeps DEF ServeSession
  <2>3. ASSUME NEW h \in Handlers, ServeRefresh(h)
        PROVE  IInv'
    BY <2>1, <2>3, FindTokenKeeps, LoadActiveUserKeeps, IssuePairKeeps, RotateTokenKeeps,
       DropPairKeeps, RereadTokenKeeps, JudgeRevokedKeeps, ClaimReplacementKeeps,
       RetryClaimKeeps, ReissuePairKeeps, RelinkReplacementKeeps, RelinkTokenKeeps,
       EndAllSessionsKeeps
       DEF ServeRefresh
  <2>4. ASSUME NEW h \in Handlers, Answer(h)
        PROVE  IInv'
    BY <2>1, <2>4, AnswerKeeps
  <2>5. ASSUME NEW h \in Handlers, NEW c \in Clients, Call(h, c)
        PROVE  IInv'
    BY <2>1, <2>5, SendKeeps DEF Call
  <2>6. ASSUME NEW u \in Users,
               SetCustomerActive(u) \/ \E d \in BOOLEAN : RevokeSessions(u, d)
        PROVE  IInv'
    BY <2>1, <2>6, OthersKeep
  <2>7. ASSUME NEW t \in Ids, PassTime(t)
        PROVE  IInv'
    BY <2>1, <2>7, OthersKeep
  <2> QED
    BY <1>2, <2>2, <2>3, <2>4, <2>5, <2>6, <2>7 DEF Next
<1> QED
  BY <1>1, <1>2

LEMMA InitIInv == Init => IInv
<1> SUFFICES ASSUME Init PROVE IInv
  OBVIOUS
<1>1. tokens = <<>> /\ Ids = {}
  BY DEF Init, Ids
<1>2. Rows
  BY <1>1, EmptySeq DEF Rows
<1>3. Rest
  BY DEF Init, Rest
<1>4. Held
  BY DEF Init, Held, Holds, Idle
<1>5. Retired
  BY DEF Init, Retired, Claimed, Idle
<1> QED
  BY <1>1, <1>2, <1>3, <1>4, <1>5 DEF IInv, Linked, NeverForked, Init

\* The strengthening holds in every reachable state: links stay within a
\* session, and whoever has claimed a session's last live token is alone.
THEOREM InvariantHolds == Spec => []IInv
<1>1. Init => IInv
  BY InitIInv
<1>2. IInv /\ [Next]_vars => IInv'
  BY NextKeepsIInv
<1> QED
  BY <1>1, <1>2, PTL DEF Spec

\* The rows and the requests are well formed, for any number of either.
THEOREM TypeCorrect == Spec => []TypeOK
  BY InvariantHolds, Typed, PTL

\* "The chain is never forked" (refresh-token.use-case.ts): of the tokens
\* that clients are given, a session has at most one that is valid, whatever
\* the overlap of refreshes, logouts, revocations and failures.
THEOREM ChainNeverForks == Spec => []NeverForked
<1>1. IInv => NeverForked
  BY DEF IInv
<1> QED
  BY <1>1, InvariantHolds, PTL

-----------------------------------------------------------------------------
(* Lost answers.  That a browser recovers rests on its session being its   *)
(* own, on one request at a time being under way in it, and on the         *)
(* replacement of its token having been shown to nobody yet.               *)

Presenting == RefreshSteps \cup {"logout"}

\* The token that a request presents or answers.
Bears(q) == IF q.at \in Answers THEN q.pair ELSE IF q.at \in Presenting THEN q.token ELSE 0

\* Requests that move a session or a cookie to a new token.
Live(q) == q.at \in RefreshSteps \/ (q.at \in Answers /\ q.pair # 0)

\* The tokens of a browser: its cookie, and what its requests bear.
Has(c, t) == /\ t # 0
             /\ \/ cookie[c] = t
                \/ \E h \in Handlers : Bears(handler[h]) = t /\ handler[h].client = c

\* A session belongs to one browser.
Owned == \A c, d \in Clients, s, t \in Ids :
    Has(c, s) /\ Has(d, t) /\ tokens[s].session = tokens[t].session => c = d

\* A browser whose tabs are kept apart waits for one refresh.
Single == \A c \in Clients \ tabbed : \A g, h \in Refreshing(c) : g = h

\* There, a refresh of the cookie's session presents the cookie itself, ...
Current == \A h \in Handlers :
    LET q == handler[h]  t == cookie[q.client] IN
    q.at \in RefreshSteps /\ q.client \notin tabbed /\ t # 0
    /\ tokens[t].session = tokens[q.token].session => t = q.token

\* ... a session has one live request, ...
Alone == \A g, h \in Handlers :
    /\ Live(handler[g]) /\ Live(handler[h]) /\ handler[h].client \notin tabbed
    /\ tokens[Bears(handler[g])].session = tokens[Bears(handler[h])].session
    => g = h

\* ... and the answer of a login finds no cookie of its session.
Unopened == \A h \in Handlers :
    LET q == handler[h]  t == cookie[q.client] IN
    q.at \in Answers \ {"refreshed"} /\ q.pair # 0 /\ q.client \notin tabbed /\ t # 0
    => tokens[t].session # tokens[q.pair].session

Apart == Owned /\ Single /\ Current /\ Alone /\ Unopened

LEMMA CookieFacts ==
    ASSUME IInv, NEW c \in Clients, cookie[c] # 0
    PROVE  cookie[c] \in granted /\ cookie[c] \in Ids /\ tokens[cookie[c]].session \in Ids
  BY DEF IInv, Rest, Rows

LEMMA BearsFacts ==
    ASSUME IInv, NEW h \in Handlers
    PROVE  /\ Bears(handler[h]) # 0 =>
                /\ handler[h] \in Request /\ handler[h].client \in Clients
                /\ Bears(handler[h]) \in granted /\ Bears(handler[h]) \in Ids
                /\ tokens[Bears(handler[h])].session \in Ids
           /\ Live(handler[h]) => handler[h] \in Request /\ Bears(handler[h]) # 0
           /\ handler[h].at \in Presenting => Bears(handler[h]) = handler[h].token
<1>1. handler[h] \in {Idle} \cup Request /\ Holds(handler[h])
  BY DEF IInv, Held
<1>2. granted \subseteq Ids /\ 0 \notin granted
  BY IdsFacts DEF IInv, Rest
<1>3. handler[h] = Idle => Bears(handler[h]) = 0 /\ ~Live(handler[h]) /\ handler[h].at \notin Presenting
  BY DEF Idle, Bears, Live, Presenting, RefreshSteps, Answers
<1>4. ASSUME Bears(handler[h]) # 0
      PROVE  Bears(handler[h]) \in granted
  BY <1>1, <1>2, <1>4 DEF Bears, Holds, Presenting, Answers, RefreshSteps
<1>5. handler[h].at \in Presenting => handler[h].at \notin Answers
  BY DEF Presenting, RefreshSteps, Answers
<1>6. handler[h].at \in RefreshSteps => handler[h].token \in granted
  BY <1>1 DEF Holds, RefreshSteps
<1> QED
  BY <1>1, <1>2, <1>3, <1>4, <1>5, <1>6 DEF Request, Bears, Live, Presenting, IInv, Rows

\* Who shares a session is the same browser.
LEMMA OneOwner ==
    ASSUME IInv, Owned, NEW h \in Handlers, Bears(handler[h]) # 0
    PROVE  /\ \A c \in Clients :
                 /\ cookie[c] # 0
                 /\ tokens[cookie[c]].session = tokens[Bears(handler[h])].session
                 => handler[h].client = c
           /\ \A g \in Handlers :
                 /\ Bears(handler[g]) # 0
                 /\ tokens[Bears(handler[g])].session = tokens[Bears(handler[h])].session
                 => handler[h].client = handler[g].client
<1> DEFINE t == Bears(handler[h])
<1>1. t \in Ids /\ handler[h].client \in Clients /\ Has(handler[h].client, t)
  BY BearsFacts DEF Has
<1>2. ASSUME NEW c \in Clients, cookie[c] # 0, tokens[cookie[c]].session = tokens[t].session
      PROVE  handler[h].client = c
  <2>1. cookie[c] \in Ids /\ Has(c, cookie[c])
    BY <1>2, CookieFacts DEF Has
  <2> QED
    BY <1>1, <1>2, <2>1 DEF Owned
<1>3. ASSUME NEW g \in Handlers, Bears(handler[g]) # 0,
             tokens[Bears(handler[g])].session = tokens[t].session
      PROVE  handler[h].client = handler[g].client
  <2>1. /\ Bears(handler[g]) \in Ids /\ handler[g].client \in Clients
        /\ Has(handler[g].client, Bears(handler[g]))
    BY <1>3, BearsFacts DEF Has
  <2> QED
    BY <1>1, <1>3, <2>1 DEF Owned
<1> QED
  BY <1>2, <1>3

\* Sessions stay owned when whoever has a token had one of its session.
LEMMA OwnedStays ==
    ASSUME Owned, \A c \in Clients, t \in Ids' : Has(c, t)' =>
               \E s \in Ids : Has(c, s) /\ tokens[s].session = tokens'[t].session
    PROVE  Owned'
  BY DEF Owned

\* What a request becomes without a browser's taking part: the same, a
\* bystander, a later step of its refresh, or the answer of that.
Onward(g) ==
    \/ handler'[g] = handler[g]
    \/ Bears(handler'[g]) = 0 /\ handler'[g].at \notin RefreshSteps \cup {"refreshed"}
    \/ /\ handler[g].at \in RefreshSteps /\ handler'[g].client = handler[g].client
       /\ \/ handler'[g].at \in RefreshSteps /\ handler'[g].token = handler[g].token
          \/ /\ handler'[g].at = "refreshed" /\ handler'[g].pair # 0
             /\ tokens'[handler'[g].pair].session = SessionOf(g)

LEMMA OnwardFacts ==
    ASSUME IInv, Grown, NEW g \in Handlers, Onward(g)
    PROVE  /\ Bears(handler'[g]) # 0 =>
                /\ Bears(handler[g]) # 0 /\ handler'[g].client = handler[g].client
                /\ tokens'[Bears(handler'[g])].session = tokens[Bears(handler[g])].session
           /\ Live(handler'[g]) => Live(handler[g]) /\ Bears(handler'[g]) # 0
           /\ handler'[g].at \in RefreshSteps \cup {"refreshed"} =>
                /\ handler[g].at \in RefreshSteps \cup {"refreshed"}
                /\ handler'[g].client = handler[g].client
           /\ handler'[g].at \in RefreshSteps =>
                /\ handler[g].at \in RefreshSteps /\ handler'[g].client = handler[g].client
                /\ handler'[g].token = handler[g].token
                /\ tokens'[handler'[g].token].session = tokens[handler[g].token].session
           /\ handler'[g].at \in Answers \ {"refreshed"} /\ handler'[g].pair # 0 =>
                handler'[g] = handler[g]
<1>1. \A t \in granted : t \in Ids /\ tokens'[t].session = tokens[t].session
  BY GrantedStays
<1>2. RefreshSteps \cap Answers = {} /\ "refreshed" \in Answers
  BY DEF RefreshSteps, Answers
<1>3. CASE handler'[g] = handler[g]
  <2>1. Bears(handler[g]) # 0 => Bears(handler[g]) \in granted
    BY BearsFacts
  <2>2. handler[g].at \in RefreshSteps => handler[g].token \in granted
    BY RefreshAt
  <2> QED
    BY <1>1, <1>3, <2>1, <2>2, BearsFacts
<1>4. CASE Bears(handler'[g]) = 0 /\ handler'[g].at \notin RefreshSteps \cup {"refreshed"}
  BY <1>4 DEF Live, Bears
<1>5. CASE /\ handler[g].at \in RefreshSteps /\ handler'[g].client = handler[g].client
           /\ \/ handler'[g].at \in RefreshSteps /\ handler'[g].token = handler[g].token
              \/ /\ handler'[g].at = "refreshed" /\ handler'[g].pair # 0
                 /\ tokens'[handler'[g].pair].session = SessionOf(g)
  <2>1. /\ handler[g].token \in granted /\ Bears(handler[g]) = handler[g].token
        /\ Live(handler[g]) /\ Bears(handler[g]) # 0
    BY <1>5, RefreshAt, BearsFacts DEF Presenting, Live
  <2>2. CASE handler'[g].at \in RefreshSteps /\ handler'[g].token = handler[g].token
    <3>1. Bears(handler'[g]) = handler[g].token
      BY <1>2, <2>2 DEF Bears, Presenting
    <3> QED
      BY <1>1, <1>2, <1>5, <2>1, <2>2, <3>1
  <2>3. CASE /\ handler'[g].at = "refreshed" /\ handler'[g].pair # 0
             /\ tokens'[handler'[g].pair].session = SessionOf(g)
    <3>1. Bears(handler'[g]) = handler'[g].pair
      BY <1>2, <2>3 DEF Bears
    <3> QED
      BY <1>2, <1>5, <2>1, <2>3, <3>1 DEF SessionOf
  <2> QED
    BY <1>5, <2>2, <2>3
<1> QED
  BY <1>3, <1>4, <1>5 DEF Onward

\* Steps of the server and of others leave browsers apart.
LEMMA ApartStays ==
    ASSUME IInv, Apart, Grown, UNCHANGED <<cookie, tabbed>>, \A g \in Handlers : Onward(g)
    PROVE  Apart'
<1>1. \A t \in granted : t \in Ids /\ t # 0 /\ tokens'[t].session = tokens[t].session
  BY GrantedStays
<1>2. \A c \in Clients : cookie[c] # 0 =>
          cookie[c] \in Ids /\ tokens'[cookie[c]].session = tokens[cookie[c]].session
  BY <1>1, CookieFacts
<1>3. Owned'
  <2> SUFFICES ASSUME NEW c \in Clients, NEW t \in Ids', Has(c, t)'
               PROVE  \E s \in Ids : Has(c, s) /\ tokens[s].session = tokens'[t].session
    BY OwnedStays DEF Apart
  <2>1. CASE cookie'[c] = t
    BY <1>2, <2>1 DEF Has
  <2>2. ASSUME NEW g \in Handlers, Bears(handler'[g]) = t, handler'[g].client = c
        PROVE  \E s \in Ids : Has(c, s) /\ tokens[s].session = tokens'[t].session
    <3>1. t # 0
      BY DEF Has
    <3>2. /\ Bears(handler[g]) # 0 /\ handler[g].client = c
          /\ tokens'[t].session = tokens[Bears(handler[g])].session
      BY <2>2, <3>1, OnwardFacts
    <3>3. Bears(handler[g]) \in Ids /\ Has(c, Bears(handler[g]))
      BY <3>2, BearsFacts DEF Has
    <3> QED
      BY <3>2, <3>3
  <2> QED
    BY <2>1, <2>2 DEF Has
<1>4. Single'
  BY OnwardFacts DEF Apart, Single, Refreshing
<1>5. Current'
  <2> SUFFICES ASSUME NEW h \in Handlers, handler'[h].at \in RefreshSteps,
                      handler'[h].client \notin tabbed, cookie[handler'[h].client] # 0,
                      tokens'[cookie[handler'[h].client]].session = tokens'[handler'[h].token].session
               PROVE  cookie[handler'[h].client] = handler'[h].token
    BY DEF Current
  <2>1. /\ handler[h].at \in RefreshSteps /\ handler'[h].client = handler[h].client
        /\ handler'[h].token = handler[h].token
        /\ tokens'[handler'[h].token].session = tokens[handler[h].token].session
    BY OnwardFacts
  <2>2. handler[h].client \in Clients
    BY <2>1, RefreshAt DEF Request
  <2> QED
    BY <1>2, <2>1, <2>2 DEF Apart, Current
<1>6. Alone'
  <2> SUFFICES ASSUME NEW g \in Handlers, NEW h \in Handlers, Live(handler'[g]), Live(handler'[h]),
                      handler'[h].client \notin tabbed,
                      tokens'[Bears(handler'[g])].session = tokens'[Bears(handler'[h])].session
               PROVE  g = h
    BY DEF Alone
  <2>1. /\ Live(handler[g]) /\ Live(handler[h]) /\ handler'[h].client = handler[h].client
        /\ tokens[Bears(handler[g])].session = tokens[Bears(handler[h])].session
    BY OnwardFacts
  <2> QED
    BY <2>1 DEF Apart, Alone
<1>7. Unopened'
  <2> SUFFICES ASSUME NEW h \in Handlers, handler'[h].at \in Answers \ {"refreshed"},
                      handler'[h].pair # 0, handler'[h].client \notin tabbed,
                      cookie[handler'[h].client] # 0
               PROVE  tokens'[cookie[handler'[h].client]].session # tokens'[handler'[h].pair].session
    BY DEF Unopened
  <2>1. handler'[h] = handler[h]
    BY OnwardFacts
  <2>2. Bears(handler[h]) = handler[h].pair /\ Bears(handler[h]) # 0
    BY <2>1 DEF Bears
  <2>3. handler[h].client \in Clients /\ handler[h].pair \in granted
    BY <2>2, BearsFacts
  <2> QED
    BY <1>1, <1>2, <2>1, <2>3 DEF Apart, Unopened
<1> QED
  BY <1>3, <1>4, <1>5, <1>6, <1>7 DEF Apart

\* A request that presents the cookie.
LEMMA SendApart ==
    ASSUME IInv, Apart, NEW h \in Handlers, NEW c \in Clients, tabbed' = tabbed, Call(h, c)
    PROVE  Apart'
<1>1. PICK q \in Request :
         /\ handler' = [handler EXCEPT ![h] = q] /\ q.client = c
         /\ \/ q.at = "login"
            \/ q.at = "logout" /\ q.token = cookie[c] /\ cookie[c] # 0
            \/ /\ q.at = "find" /\ q.token = cookie[c] /\ cookie[c] # 0
               /\ c \in tabbed \/ Refreshing(c) = {}
  <2> DEFINE r(step, t) == [at |-> step, client |-> c, token |-> t, next |-> 0,
                            grace |-> FALSE, pair |-> 0]
  <2>1. cookie[c] \in Nat
    BY IdsFacts DEF IInv, Rest
  <2>2. \A step \in {"login", "logout", "find"}, t \in Nat : r(step, t) \in Request
    BY DEF Request, RefreshSteps
  <2>3. CASE SendLogin(h, c)
    <3>1. handler' = [handler EXCEPT ![h] = r("login", 0)] /\ r("login", 0) \in Request
      BY <2>2, <2>3 DEF SendLogin, Send
    <3> QED
      BY <3>1
  <2>4. CASE SendLogout(h, c)
    <3>1. /\ handler' = [handler EXCEPT ![h] = r("logout", cookie[c])]
          /\ r("logout", cookie[c]) \in Request
      BY <2>1, <2>2, <2>4 DEF SendLogout, Send
    <3> QED
      BY <2>4, <3>1 DEF SendLogout
  <2>5. CASE SendRefresh(h, c)
    <3>1. /\ handler' = [handler EXCEPT ![h] = r("find", cookie[c])]
          /\ r("find", cookie[c]) \in Request
      BY <2>1, <2>2, <2>5 DEF SendRefresh, Send
    <3> QED
      BY <2>5, <3>1 DEF SendRefresh
  <2> QED
    BY <2>3, <2>4, <2>5 DEF Call
<1>2. tokens' = tokens /\ cookie' = cookie /\ Ids' = Ids
  BY DEF Call, SendLogin, SendRefresh, SendLogout, Send, Ids
<1>3. handler'[h] = q /\ \A g \in Handlers \ {h} : handler'[g] = handler[g]
  BY <1>1 DEF IInv, Held
<1>4. /\ q.at \notin Answers
      /\ Live(q) => q.at = "find"
      /\ Bears(q) # 0 => Bears(q) = cookie[c] /\ cookie[c] # 0
      /\ q.at \in Presenting => Bears(q) = q.token
  BY <1>1 DEF Bears, Live, Presenting, RefreshSteps, Answers
<1>5. Owned'
  <2> SUFFICES ASSUME NEW b \in Clients, NEW t \in Ids', Has(b, t)'
               PROVE  \E s \in Ids : Has(b, s) /\ tokens[s].session = tokens'[t].session
    BY OwnedStays DEF Apart
  <2>1. Has(b, t)
    BY <1>1, <1>2, <1>3, <1>4 DEF Has
  <2> QED
    BY <1>2, <2>1
<1>6. Single'
  <2> SUFFICES ASSUME NEW b \in Clients \ tabbed, NEW f \in Handlers, NEW g \in Handlers,
                      f \in Refreshing(b)', g \in Refreshing(b)'
               PROVE  f = g
    BY DEF Single, Refreshing
  <2>1. \A e \in Handlers : e # h /\ e \in Refreshing(b)' => e \in Refreshing(b)
    BY <1>3 DEF Refreshing
  <2>2. h \in Refreshing(b)' => Refreshing(b) = {}
    <3> SUFFICES ASSUME h \in Refreshing(b)'
                 PROVE  Refreshing(b) = {}
      OBVIOUS
    <3>1. q.at \in RefreshSteps \cup {"refreshed"} /\ q.client = b
      BY <1>3 DEF Refreshing
    <3> QED
      BY <1>1, <3>1 DEF RefreshSteps
  <2>3. CASE f = h \/ g = h
    BY <2>1, <2>2, <2>3
  <2>4. CASE f # h /\ g # h
    BY <2>1, <2>4 DEF Apart, Single
  <2> QED
    BY <2>3, <2>4
<1>7. Current'
  <2> SUFFICES ASSUME NEW g \in Handlers, handler'[g].at \in RefreshSteps,
                      handler'[g].client \notin tabbed, cookie[handler'[g].client] # 0,
                      tokens[cookie[handler'[g].client]].session = tokens[handler'[g].token].session
               PROVE  cookie[handler'[g].client] = handler'[g].token
    BY <1>2 DEF Current
  <2>1. CASE g = h
    BY <1>1, <1>3, <2>1 DEF RefreshSteps
  <2>2. CASE g # h
    BY <1>3, <2>2 DEF Apart, Current
  <2> QED
    BY <2>1, <2>2
<1>8. ASSUME c \notin tabbed, q.at = "find", NEW g \in Handlers \ {h}, Live(handler[g]),
             tokens[Bears(handler[g])].session = tokens[cookie[c]].session
      PROVE  FALSE
  <2>1. cookie[c] # 0 /\ Refreshing(c) = {}
    BY <1>1, <1>8
  <2>2. Bears(handler[g]) # 0 /\ handler[g].client = c
    BY <1>8, <2>1, BearsFacts, OneOwner DEF Apart
  <2>3. handler[g].at \in Answers \ {"refreshed"} /\ handler[g].pair # 0
    BY <1>8, <2>1, <2>2 DEF Live, Refreshing
  <2>4. Bears(handler[g]) = handler[g].pair
    BY <2>3 DEF Bears
  <2> QED
    BY <1>8, <2>1, <2>2, <2>3, <2>4 DEF Apart, Unopened
<1>9. Alone'
  <2> SUFFICES ASSUME NEW f \in Handlers, NEW g \in Handlers, Live(handler'[f]), Live(handler'[g]),
                      handler'[g].client \notin tabbed,
                      tokens[Bears(handler'[f])].session = tokens[Bears(handler'[g])].session
               PROVE  f = g
    BY <1>2 DEF Alone
  <2>1. CASE f # h /\ g # h
    BY <1>3, <2>1 DEF Apart, Alone
  <2>2. CASE f = h /\ g # h
    <3>1. q.at = "find" /\ Bears(q) = cookie[c] /\ cookie[c] # 0
      BY <1>1, <1>3, <1>4, <2>2 DEF Presenting, RefreshSteps
    <3>2. Live(handler[g]) /\ tokens[Bears(handler[g])].session = tokens[cookie[c]].session
      BY <1>3, <2>2, <3>1
    <3>3. handler[g].client = c
      BY <3>1, <3>2, BearsFacts, OneOwner DEF Apart
    <3> QED
      BY <1>3, <1>8, <2>2, <3>1, <3>2, <3>3
  <2>3. CASE f # h /\ g = h
    <3>1. q.at = "find" /\ Bears(q) = cookie[c] /\ cookie[c] # 0
      BY <1>1, <1>3, <1>4, <2>3 DEF Presenting, RefreshSteps
    <3>2. Live(handler[f]) /\ tokens[Bears(handler[f])].session = tokens[cookie[c]].session
      BY <1>3, <2>3, <3>1
    <3> QED
      BY <1>1, <1>3, <1>8, <2>3, <3>1, <3>2
  <2> QED
    BY <2>1, <2>2, <2>3
<1>10. Unopened'
  <2> SUFFICES ASSUME NEW g \in Handlers, handler'[g].at \in Answers \ {"refreshed"},
                      handler'[g].pair # 0, handler'[g].client \notin tabbed,
                      cookie[handler'[g].client] # 0
               PROVE  tokens[cookie[handler'[g].client]].session # tokens[handler'[g].pair].session
    BY <1>2 DEF Unopened
  <2>1. g # h /\ handler'[g] = handler[g]
    BY <1>3, <1>4
  <2> QED
    BY <2>1 DEF Apart, Unopened
<1> QED
  BY <1>5, <1>6, <1>7, <1>9, <1>10 DEF Apart

\* An answer that arrives: its token was alone in its session.
LEMMA ReceiveApart ==
    ASSUME IInv, Apart, NEW h \in Handlers, Receive(h), tabbed' = tabbed
    PROVE  Apart'
<1> DEFINE p == handler[h].pair
           b == handler[h].client
<1>1. handler[h] \in Request /\ b \in Clients /\ handler[h].at \in Answers
  BY RequestAt DEF Receive, At, Answers, Request
<1>2. tokens' = tokens /\ Ids' = Ids /\ cookie' = [cookie EXCEPT ![b] = p]
  BY DEF Receive, Ids
<1>3. /\ handler'[h] = Idle /\ \A g \in Handlers \ {h} : handler'[g] = handler[g]
      /\ Bears(Idle) = 0 /\ ~Live(Idle) /\ Idle.at \notin RefreshSteps \cup Answers
  BY DEF Receive, Refuse, IInv, Held, Bears, Live, Idle, Presenting, RefreshSteps, Answers
<1>4. cookie'[b] = p /\ \A c \in Clients \ {b} : cookie'[c] = cookie[c]
  BY <1>1, <1>2 DEF IInv, Rest
<1>5. p = Bears(handler[h]) /\ (p # 0 => Live(handler[h]))
  BY <1>1 DEF Bears, Live
<1> HIDE DEF p, b
<1>6. Owned'
  <2> SUFFICES ASSUME NEW c \in Clients, NEW t \in Ids', Has(c, t)'
               PROVE  \E s \in Ids : Has(c, s) /\ tokens[s].session = tokens'[t].session
    BY OwnedStays DEF Apart
  <2>1. t # 0 /\ (cookie'[c] = t \/ \E g \in Handlers : Bears(handler'[g]) = t /\ handler'[g].client = c)
    BY DEF Has
  <2>2. CASE cookie'[c] = t
    BY <1>2, <1>4, <1>5, <2>1, <2>2 DEF Has, b
  <2>3. ASSUME NEW g \in Handlers, Bears(handler'[g]) = t, handler'[g].client = c
        PROVE  Has(c, t)
    <3>1. g # h
      BY <1>3, <2>1, <2>3
    <3> QED
      BY <1>3, <2>1, <2>3, <3>1 DEF Has
  <2> QED
    BY <1>2, <2>1, <2>2, <2>3
<1>7. Single'
  <2>1. \A c \in Clients : \A g \in Handlers : g \in Refreshing(c)' => g \in Refreshing(c)
    BY <1>3 DEF Refreshing, Answers
  <2> QED
    BY <2>1 DEF Apart, Single, Refreshing
<1>8. ASSUME NEW g \in Handlers \ {h}, Live(handler[g]), p # 0, b \notin tabbed,
             tokens[Bears(handler[g])].session = tokens[p].session
      PROVE  FALSE
  BY <1>5, <1>8 DEF Apart, Alone, b
<1>9. Current'
  <2> SUFFICES ASSUME NEW g \in Handlers, handler'[g].at \in RefreshSteps,
                      handler'[g].client \notin tabbed, cookie'[handler'[g].client] # 0,
                      tokens[cookie'[handler'[g].client]].session = tokens[handler'[g].token].session
               PROVE  cookie'[handler'[g].client] = handler'[g].token
    BY <1>2 DEF Current
  <2>1. g # h /\ handler'[g] = handler[g] /\ handler[g].client \in Clients
    BY <1>3, RefreshAt DEF Request
  <2>2. Live(handler[g]) /\ Bears(handler[g]) = handler[g].token
    BY <2>1, BearsFacts DEF Live, Presenting
  <2>3. handler[g].client # b
    BY <1>4, <1>8, <2>1, <2>2
  <2> QED
    BY <1>4, <2>1, <2>3 DEF Apart, Current
<1>10. Alone'
  <2> SUFFICES ASSUME NEW f \in Handlers, NEW g \in Handlers, Live(handler'[f]), Live(handler'[g]),
                      handler'[g].client \notin tabbed,
                      tokens[Bears(handler'[f])].session = tokens[Bears(handler'[g])].session
               PROVE  f = g
    BY <1>2 DEF Alone
  <2>1. f # h /\ g # h
    BY <1>3
  <2> QED
    BY <1>3, <2>1 DEF Apart, Alone
<1>11. Unopened'
  <2> SUFFICES ASSUME NEW g \in Handlers, handler'[g].at \in Answers \ {"refreshed"},
                      handler'[g].pair # 0, handler'[g].client \notin tabbed,
                      cookie'[handler'[g].client] # 0
               PROVE  tokens[cookie'[handler'[g].client]].session # tokens[handler'[g].pair].session
    BY <1>2 DEF Unopened
  <2>1. g # h /\ handler'[g] = handler[g]
    BY <1>3
  <2>2. Live(handler[g]) /\ Bears(handler[g]) = handler[g].pair /\ handler[g].pair # 0
    BY <2>1 DEF Live, Bears
  <2>3. handler[g].client \in Clients
    BY <2>2, BearsFacts
  <2>4. CASE handler[g].client = b
    BY <1>4, <1>8, <2>1, <2>2, <2>4
  <2>5. CASE handler[g].client # b
    BY <1>4, <2>1, <2>3, <2>5 DEF Apart, Unopened
  <2> QED
    BY <2>4, <2>5
<1> QED
  BY <1>6, <1>7, <1>9, <1>10, <1>11 DEF Apart

\* A new session is of the browser that signs in, and of no cookie yet.
LEMMA OpenSessionApart ==
    ASSUME IInv, IInv', Apart, NEW h \in Handlers, OpenSession(h), tabbed' = tabbed
    PROVE  Apart'
<1> DEFINE p == Len(tokens')
           session == Len(tokens) + 1
           user == Account[handler[h].client]
<1>1. handler[h] \in Request /\ handler[h].at = "open" /\ handler[h].client \in Clients
  BY RequestAt DEF OpenSession, At, Request
<1>2. user \in Users /\ session \in 1 .. Len(tokens) + 1 /\ session \notin Ids
  BY <1>1, SessionsAssumption, IdsFacts DEF SessionsAssumption, IInv
<1>3. /\ Issue(h, user, session) /\ Reply(h, "loggedIn", p) /\ cookie' = cookie
      /\ granted' = granted \cup {p}
  BY DEF OpenSession
<1> HIDE DEF user, session
<1>4. /\ Ids' = Ids \cup {p} /\ p \notin Ids /\ p \in Nat /\ p # 0
      /\ tokens'[p].session = session
      /\ \A t \in Ids : tokens'[t] = tokens[t]
  <2>1. Rows /\ Len(tokens) \in Nat /\ Issue(h, user, session)
    BY <1>3, IdsFacts DEF IInv
  <2>2. /\ Len(tokens') = Len(tokens) + 1 /\ Ids' = Ids \cup {Len(tokens')}
        /\ Len(tokens') \notin Ids
        /\ tokens'[Len(tokens')].session = session
        /\ \A t \in Ids : tokens'[t] = tokens[t]
    BY <1>2, <2>1, IssueFacts
  <2> QED
    BY <2>1, <2>2
<1> HIDE DEF p
<1>5. PICK q : /\ handler'[h] = q /\ q.at = "loggedIn" /\ q.client = handler[h].client
               /\ q.token = 0 /\ q.pair = p
  BY <1>3 DEF Reply, IInv, Held
<1>6. \A g \in Handlers \ {h} : handler'[g] = handler[g]
  BY <1>3 DEF Reply
<1>7. /\ Bears(q) = p /\ p # 0 /\ q.at \notin RefreshSteps \cup {"refreshed"}
  BY <1>4, <1>5 DEF Bears, Answers, RefreshSteps
<1>8. \A t \in granted : t \in Ids /\ tokens'[t] = tokens[t] /\ tokens'[t].session # session
  BY <1>2, <1>4 DEF IInv, Rest, Rows
<1>9. \A c \in Clients : cookie[c] # 0 => cookie[c] \in granted
  BY CookieFacts
<1>10. \A g \in Handlers : /\ Bears(handler[g]) # 0 => Bears(handler[g]) \in granted
                           /\ Live(handler[g]) => Bears(handler[g]) # 0
  BY BearsFacts
<1>11. Owned'
  <2> SUFFICES ASSUME NEW c \in Clients, NEW d \in Clients, NEW s \in Ids', NEW t \in Ids',
                      Has(c, s)', Has(d, t)', tokens'[s].session = tokens'[t].session
               PROVE  c = d
    BY DEF Owned
  <2>1. \A e \in Clients, i \in Ids' : Has(e, i)' =>
           \/ i = p /\ e = handler[h].client
           \/ i \in granted /\ Has(e, i)
    <3> SUFFICES ASSUME NEW e \in Clients, NEW i \in Ids', Has(e, i)'
                 PROVE  \/ i = p /\ e = handler[h].client
                        \/ i \in granted /\ Has(e, i)
      OBVIOUS
    <3>1. i # 0 /\ (cookie[e] = i \/ \E g \in Handlers : Bears(handler'[g]) = i /\ handler'[g].client = e)
      BY <1>3 DEF Has
    <3>2. CASE cookie[e] = i
      BY <1>9, <3>1, <3>2 DEF Has
    <3>3. ASSUME NEW g \in Handlers, Bears(handler'[g]) = i, handler'[g].client = e
          PROVE  \/ i = p /\ e = handler[h].client
                 \/ i \in granted /\ Has(e, i)
      <4>1. CASE g = h
        BY <1>5, <1>7, <3>3, <4>1
      <4>2. CASE g # h
        <5>1. handler'[g] = handler[g]
          BY <1>6, <4>2
        <5> QED
          BY <1>10, <3>1, <3>3, <5>1 DEF Has
      <4> QED
        BY <4>1, <4>2
    <3> QED
      BY <3>1, <3>2, <3>3
  <2>2. CASE s = p \/ t = p
    BY <1>4, <1>8, <2>1, <2>2
  <2>3. CASE s # p /\ t # p
    <3>1. s \in granted /\ t \in granted /\ Has(c, s) /\ Has(d, t)
      BY <2>1, <2>3
    <3> QED
      BY <1>8, <3>1 DEF Apart, Owned
  <2> QED
    BY <2>2, <2>3
<1>12. Single'
  <2>1. \A c \in Clients : \A g \in Handlers : g \in Refreshing(c)' => g \in Refreshing(c)
    BY <1>5, <1>6, <1>7 DEF Refreshing
  <2> QED
    BY <2>1 DEF Apart, Single, Refreshing
<1>13. Current'
  <2> SUFFICES ASSUME NEW g \in Handlers, handler'[g].at \in RefreshSteps,
                      handler'[g].client \notin tabbed, cookie[handler'[g].client] # 0,
                      tokens'[cookie[handler'[g].client]].session = tokens'[handler'[g].token].session
               PROVE  cookie[handler'[g].client] = handler'[g].token
    BY <1>3 DEF Current
  <2>1. g # h /\ handler'[g] = handler[g]
    BY <1>5, <1>6, <1>7
  <2>2. handler[g].client \in Clients /\ handler[g].token \in granted
    BY <2>1, RefreshAt DEF Request
  <2> QED
    BY <1>8, <1>9, <2>1, <2>2 DEF Apart, Current
<1>14. Alone'
  <2> SUFFICES ASSUME NEW f \in Handlers, NEW g \in Handlers, Live(handler'[f]), Live(handler'[g]),
                      handler'[g].client \notin tabbed,
                      tokens'[Bears(handler'[f])].session = tokens'[Bears(handler'[g])].session
               PROVE  f = g
    BY DEF Alone
  <2>1. \A e \in Handlers : e # h /\ Live(handler'[e]) =>
           /\ Live(handler[e]) /\ handler'[e] = handler[e]
           /\ tokens'[Bears(handler[e])].session = tokens[Bears(handler[e])].session
           /\ tokens'[Bears(handler[e])].session # session
    BY <1>6, <1>8, <1>10
  <2>2. tokens'[Bears(handler'[h])].session = session
    BY <1>4, <1>5, <1>7
  <2>3. CASE f = h \/ g = h
    BY <2>1, <2>2, <2>3
  <2>4. CASE f # h /\ g # h
    BY <2>1, <2>4 DEF Apart, Alone
  <2> QED
    BY <2>3, <2>4
<1>15. Unopened'
  <2> SUFFICES ASSUME NEW g \in Handlers, handler'[g].at \in Answers \ {"refreshed"},
                      handler'[g].pair # 0, handler'[g].client \notin tabbed,
                      cookie[handler'[g].client] # 0
               PROVE  tokens'[cookie[handler'[g].client]].session # tokens'[handler'[g].pair].session
    BY <1>3 DEF Unopened
  <2>1. CASE g = h
    BY <1>1, <1>4, <1>5, <1>8, <1>9, <2>1
  <2>2. CASE g # h
    <3>1. handler'[g] = handler[g] /\ Bears(handler[g]) = handler[g].pair
      BY <1>6, <2>2 DEF Bears
    <3>2. handler[g].pair \in granted /\ handler[g].client \in Clients
      BY <1>10, <3>1, BearsFacts
    <3> QED
      BY <1>8, <1>9, <3>1, <3>2 DEF Apart, Unopened
  <2> QED
    BY <2>1, <2>2
<1> QED
  BY <1>11, <1>12, <1>13, <1>14, <1>15 DEF Apart

-----------------------------------------------------------------------------
(* Where a recovery stands.                                                *)

\* No browser has the token, and no request presents it.
Unshown(t) ==
    /\ \A c \in Clients : cookie[c] # t
    /\ \A h \in Handlers : handler[h].at \in Presenting => handler[h].token # t

\* Whoever presents the token finds its replacement unused, or is refused.
Recoverable(t) ==
    LET next == tokens[t].replacedBy IN
    next # 0 => /\ Unshown(next)
                /\ next \in Unrevoked \/ (tokens[t].aged /\ tokens[next].replacedBy = 0)

\* A new token that nobody has seen.
Fresh(t) == t \in Unrevoked /\ Unshown(t)

\* A refresh that is alone in its session never has to retry a claim; where
\* it may stop without cutting the session, its token is recoverable.
OnCourse(q) ==
    /\ q.at # "retry"
    /\ q.at \in {"find", "load", "issue", "rotate", "drop", "reread", "decide", "claim"} =>
          Recoverable(q.token)
    /\ q.at \in {"load", "issue", "rotate", "drop"} => tokens[q.token].replacedBy = 0
    /\ q.at \in {"rotate", "relink", "relinkOwn"} => Fresh(q.pair)
    /\ q.at \in {"decide", "claim"} => q.next = tokens[q.token].replacedBy
    /\ q.at = "claim" => q.next \in Unrevoked /\ (q.grace \/ tokens[q.token].aged)

Underway == {handler[h] : h \in Handlers}

Followed == \A q \in Underway :
    /\ q.at \in RefreshSteps /\ q.client \notin tabbed
    /\ tokens[q.token].session \notin ended
    => OnCourse(q)

Answered == \A q \in Underway :
    /\ q.at \in Answers /\ q.pair # 0 /\ q.client \notin tabbed
    /\ tokens[q.pair].session \notin ended
    => Fresh(q.pair)

Kept == \A c \in Clients \ tabbed, t \in Ids :
    /\ cookie[c] = t /\ tokens[t].session \notin ended
    => \/ Recoverable(t)
       \/ \E q \in Underway : q.at \in RefreshSteps /\ q.client = c /\ q.token = t

\* Only what is revoked has a replacement, and a refresh that judges or
\* replaces a token has seen it revoked.
Unlinked == \A t \in Unrevoked : tokens[t].replacedBy = 0
Withdrawn(q) ==
    /\ q.at \in {"drop", "reread", "decide", "claim", "retry", "reload", "reissue", "relink",
                 "relinkOwn"} => tokens[q.token].revoked
    /\ q.at \in {"reload", "reissue", "relink", "relinkOwn"} =>
          q.next # 0 /\ tokens[q.next].revoked
AllWithdrawn == \A q \in Underway : Withdrawn(q)

RecoveryInv == Apart /\ Unlinked /\ AllWithdrawn /\ Followed /\ Answered /\ Kept

\* What a step may do to the rows of a session that it does not work on.
Gentle(t) ==
    /\ tokens'[t].replacedBy = tokens[t].replacedBy
    /\ tokens[t].revoked /\ tokens[t].aged => tokens'[t].aged
    /\ tokens[t].revoked => tokens'[t].revoked
    /\ t \in Unrevoked /\ Unshown(t) => t \in Unrevoked'
    /\ Unshown(t) => Unshown(t)'
GentleWith(s) == \A t \in Ids : tokens[t].session = s => Gentle(t)

LEMMA LinkFacts ==
    ASSUME IInv, NEW t \in Ids, tokens[t].replacedBy # 0
    PROVE  /\ tokens[t].replacedBy \in Ids /\ tokens[t].replacedBy \in granted
           /\ tokens[tokens[t].replacedBy].session = tokens[t].session
  BY DEF IInv, Linked, Rest

LEMMA RecoverableStays ==
    ASSUME IInv, Unlinked, NEW t \in Ids, GentleWith(tokens[t].session), Recoverable(t)
    PROVE  Recoverable(t)'
<1> DEFINE next == tokens[t].replacedBy
<1>1. tokens'[t].replacedBy = next /\ Gentle(t)
  BY DEF GentleWith, Gentle
<1>2. CASE next = 0
  BY <1>1, <1>2 DEF Recoverable
<1>3. CASE next # 0
  <2>1. next \in Ids /\ Gentle(next)
    BY <1>3, LinkFacts DEF GentleWith
  <2>2. Unshown(next)' /\ Unshown(next)
    BY <1>3, <2>1 DEF Recoverable, Gentle
  <2>3. tokens[t].revoked
    BY <1>3 DEF Unlinked, Unrevoked
  <2>4. next \in Unrevoked' \/ (tokens'[t].aged /\ tokens'[next].replacedBy = 0)
    BY <1>1, <1>3, <2>1, <2>2, <2>3 DEF Recoverable, Gentle
  <2> QED
    BY <1>1, <2>2, <2>4 DEF Recoverable
<1> QED
  BY <1>2, <1>3

LEMMA FreshStays ==
    ASSUME NEW t \in Ids, GentleWith(tokens[t].session), Fresh(t)
    PROVE  Fresh(t)'
  BY DEF Fresh, GentleWith, Gentle

LEMMA OnCourseStays ==
    ASSUME IInv, Unlinked, NEW h \in Handlers, NEW q, q = handler[h], q.at \in RefreshSteps,
           GentleWith(tokens[q.token].session), OnCourse(q)
    PROVE  OnCourse(q)'
<1>1. q.token \in Ids /\ Holds(q)
  BY RefreshAt
<1>2. Gentle(q.token)
  BY <1>1 DEF GentleWith
<1>3. Recoverable(q.token) => Recoverable(q.token)'
  BY <1>1, RecoverableStays
<1>4. q.at \in {"rotate", "relink", "relinkOwn"} =>
          q.pair \in Ids /\ tokens[q.pair].session = tokens[q.token].session
  BY <1>1 DEF Holds, IInv, Rest
<1>5. q.at \in {"rotate", "relink", "relinkOwn"} => Fresh(q.pair)'
  BY <1>4, FreshStays DEF OnCourse
<1>6. ASSUME q.at = "claim"
      PROVE  q.next \in Unrevoked' /\ (q.grace \/ tokens'[q.token].aged)
  <2>1. q.next \in Unrevoked /\ q.next = tokens[q.token].replacedBy /\ Recoverable(q.token)
    BY <1>6 DEF OnCourse
  <2>2. q.next \in Ids /\ q.next # 0
    BY <2>1, IdsFacts DEF Unrevoked, IInv
  <2>3. tokens[q.next].session = tokens[q.token].session /\ Unshown(q.next)
    BY <1>1, <2>1, <2>2, LinkFacts DEF Recoverable
  <2>4. q.next \in Unrevoked'
    BY <2>1, <2>2, <2>3 DEF GentleWith, Gentle
  <2>5. tokens[q.token].revoked
    BY <1>1, <2>1, <2>2 DEF Unlinked, Unrevoked
  <2> QED
    BY <1>2, <1>6, <2>4, <2>5 DEF OnCourse, Gentle
<1> QED
  BY <1>2, <1>3, <1>5, <1>6 DEF OnCourse, Gentle

\* A step of one request, which works on the session of its refresh if it is
\* one, presenting t: what it has to show of what it becomes.
Obliged(h, q, t) ==
    /\ /\ q.at \in RefreshSteps /\ q.client \notin tabbed
       /\ tokens'[q.token].session \notin ended'
       => OnCourse(q)'
    /\ /\ q.at \in Answers /\ q.pair # 0 /\ q.client \notin tabbed
       /\ tokens'[q.pair].session \notin ended'
       => Fresh(q.pair)'
    /\ /\ handler[h].at \in RefreshSteps /\ handler[h].client \notin tabbed
       /\ tokens[t].session \notin ended'
       => \/ q.at \in RefreshSteps /\ q.client = handler[h].client /\ q.token = t
          \/ Recoverable(t)'

WorksOn(h, s) == handler[h].at \in RefreshSteps /\ SessionOf(h) = s
Only(h) == \A g \in Handlers \ {h} : handler'[g] = handler[g]

LEMMA RecoveryStays ==
    ASSUME IInv, RecoveryInv, Grown, ended \subseteq ended', UNCHANGED <<cookie, tabbed>>,
           NEW h \in Handlers, Only(h), NEW q, q = handler'[h],
           NEW x, x = handler[h].token, Obliged(h, q, x),
           \A s \in Ids : s \notin ended' /\ ~WorksOn(h, s) => GentleWith(s)
    PROVE  Followed' /\ Answered' /\ Kept'
<1>1. \A t \in granted : t \in Ids /\ tokens'[t].session = tokens[t].session
                         /\ tokens[t].session \in Ids
  BY GrantedStays DEF IInv, Rows
<1>2. Unlinked /\ Apart
  BY DEF RecoveryInv
<1>3. ASSUME NEW g \in Handlers \ {h}, Live(handler[g]), handler[g].client \notin tabbed
      PROVE  ~WorksOn(h, tokens[Bears(handler[g])].session)
  <2> SUFFICES ASSUME WorksOn(h, tokens[Bears(handler[g])].session)
               PROVE  FALSE
    OBVIOUS
  <2>1. Live(handler[h]) /\ Bears(handler[h]) = handler[h].token
    BY BearsFacts DEF WorksOn, Live, Presenting
  <2> QED
    BY <1>2, <1>3, <2>1 DEF Apart, Alone, WorksOn, SessionOf
<1>4. Followed'
  <2> SUFFICES ASSUME NEW r \in Underway', r.at \in RefreshSteps, r.client \notin tabbed,
                      tokens'[r.token].session \notin ended'
               PROVE  OnCourse(r)'
    BY DEF Followed
  <2>1. PICK g \in Handlers : r = handler'[g]
    BY DEF Underway
  <2>2. CASE g = h
    BY <2>1, <2>2 DEF Obliged
  <2>3. CASE g # h
    <3>1. r = handler[g] /\ r.token \in granted
      BY <2>1, <2>3, RefreshAt DEF Only
    <3>2. Live(handler[g]) /\ Bears(handler[g]) = r.token
      BY <3>1, BearsFacts DEF Live, Presenting
    <3>3. GentleWith(tokens[r.token].session) /\ tokens[r.token].session \notin ended
      BY <1>1, <1>3, <2>3, <3>1, <3>2
    <3>4. OnCourse(r)
      BY <3>1, <3>3 DEF RecoveryInv, Followed, Underway
    <3> QED
      BY <1>2, <3>1, <3>3, <3>4, OnCourseStays
  <2> QED
    BY <2>2, <2>3
<1>5. Answered'
  <2> SUFFICES ASSUME NEW r \in Underway', r.at \in Answers, r.pair # 0, r.client \notin tabbed,
                      tokens'[r.pair].session \notin ended'
               PROVE  Fresh(r.pair)'
    BY DEF Answered
  <2>1. PICK g \in Handlers : r = handler'[g]
    BY DEF Underway
  <2>2. CASE g = h
    BY <2>1, <2>2 DEF Obliged
  <2>3. CASE g # h
    <3>1. r = handler[g] /\ Live(handler[g]) /\ Bears(handler[g]) = r.pair
      BY <2>1, <2>3 DEF Only, Live, Bears
    <3>2. r.pair \in granted
      BY <3>1, BearsFacts
    <3>3. GentleWith(tokens[r.pair].session) /\ tokens[r.pair].session \notin ended
      BY <1>1, <1>3, <2>3, <3>1, <3>2
    <3>4. Fresh(r.pair)
      BY <3>1, <3>3 DEF RecoveryInv, Answered, Underway
    <3> QED
      BY <1>1, <3>2, <3>3, <3>4, FreshStays
  <2> QED
    BY <2>2, <2>3
<1>6. Kept'
  <2> SUFFICES ASSUME NEW c \in Clients \ tabbed, NEW t \in Ids', cookie[c] = t,
                      tokens'[t].session \notin ended', ~Recoverable(t)'
               PROVE  \E r \in Underway' : r.at \in RefreshSteps /\ r.client = c /\ r.token = t
    BY DEF Kept
  <2>1. t # 0
    BY IdsFacts DEF Ids
  <2>2. /\ t \in Ids /\ tokens'[t].session = tokens[t].session
        /\ tokens[t].session \in Ids /\ tokens[t].session \notin ended
    BY <1>1, <2>1, CookieFacts
  <2>3. CASE WorksOn(h, tokens[t].session)
    <3>1. handler[h].at \in RefreshSteps /\ tokens[x].session = tokens[t].session
      BY <2>3 DEF WorksOn, SessionOf
    <3>2. Bears(handler[h]) = x /\ Bears(handler[h]) # 0
      BY <3>1, BearsFacts DEF Presenting, Live
    <3>3. handler[h].client = c
      BY <1>2, <2>1, <3>1, <3>2, OneOwner DEF Apart
    <3>4. x = t
      BY <1>2, <2>1, <3>1, <3>3 DEF Apart, Current
    <3>5. q.at \in RefreshSteps /\ q.client = c /\ q.token = t
      BY <2>2, <3>1, <3>3, <3>4 DEF Obliged
    <3> QED
      BY <3>5 DEF Underway
  <2>4. CASE ~WorksOn(h, tokens[t].session)
    <3>1. GentleWith(tokens[t].session)
      BY <2>2, <2>4
    <3>2. ~Recoverable(t)
      BY <1>2, <2>2, <3>1, RecoverableStays
    <3>3. PICK g \in Handlers : /\ handler[g].at \in RefreshSteps /\ handler[g].client = c
                                /\ handler[g].token = t
      BY <2>2, <3>2 DEF RecoveryInv, Kept, Underway
    <3>4. g # h
      BY <2>4, <3>3 DEF WorksOn, SessionOf
    <3>5. handler'[g] = handler[g] /\ handler'[g] \in Underway'
      BY <3>4 DEF Only, Underway
    <3> QED
      BY <3>3, <3>5
  <2> QED
    BY <2>3, <2>4
<1> QED
  BY <1>4, <1>5, <1>6

LEMMA RecoveryUnmoved ==
    ASSUME IInv, RecoveryInv, Grown, ended \subseteq ended', UNCHANGED <<cookie, tabbed, handler>>,
           \A s \in Ids : s \notin ended' => GentleWith(s)
    PROVE  Followed' /\ Answered' /\ Kept'
<1>1. \A t \in granted : t \in Ids /\ tokens'[t].session = tokens[t].session
                         /\ tokens[t].session \in Ids
  BY GrantedStays DEF IInv, Rows
<1>2. Underway' = Underway
  BY DEF Underway
<1>3. Followed'
  <2> SUFFICES ASSUME NEW q \in Underway, q.at \in RefreshSteps, q.client \notin tabbed,
                      tokens'[q.token].session \notin ended'
               PROVE  OnCourse(q)'
    BY <1>2 DEF Followed
  <2>1. PICK g \in Handlers : q = handler[g]
    BY DEF Underway
  <2>2. q.token \in granted
    BY <2>1, RefreshAt
  <2>3. GentleWith(tokens[q.token].session) /\ OnCourse(q)
    BY <1>1, <2>2 DEF RecoveryInv, Followed
  <2> QED
    BY <2>1, <2>3, OnCourseStays DEF RecoveryInv
<1>4. Answered'
  <2> SUFFICES ASSUME NEW q \in Underway, q.at \in Answers, q.pair # 0, q.client \notin tabbed,
                      tokens'[q.pair].session \notin ended'
               PROVE  Fresh(q.pair)'
    BY <1>2 DEF Answered
  <2>1. PICK g \in Handlers : q = handler[g]
    BY DEF Underway
  <2>2. q.pair \in granted
    BY <2>1, BearsFacts DEF Bears
  <2>3. GentleWith(tokens[q.pair].session) /\ Fresh(q.pair) /\ q.pair \in Ids
    BY <1>1, <2>2 DEF RecoveryInv, Answered
  <2> QED
    BY <2>3, FreshStays
<1>5. Kept'
  <2> SUFFICES ASSUME NEW c \in Clients \ tabbed, NEW t \in Ids', cookie[c] = t,
                      tokens'[t].session \notin ended', ~Recoverable(t)'
               PROVE  \E q \in Underway : q.at \in RefreshSteps /\ q.client = c /\ q.token = t
    BY <1>2 DEF Kept
  <2>1. t # 0
    BY IdsFacts DEF Ids
  <2>2. t \in Ids /\ GentleWith(tokens[t].session) /\ tokens[t].session \notin ended
    BY <1>1, <2>1, CookieFacts
  <2>3. ~Recoverable(t)
    BY <2>2, RecoverableStays DEF RecoveryInv
  <2> QED
    BY <2>2, <2>3 DEF RecoveryInv, Kept
<1> QED
  BY <1>3, <1>4, <1>5

\* What is not shown stays so, unless an answer arrives.
LEMMA UnshownStays ==
    ASSUME NEW h \in Handlers, Only(h), cookie' = cookie,
           handler'[h].at \in Presenting =>
               \/ handler[h].at \in Presenting /\ handler'[h].token = handler[h].token
               \/ \E c \in Clients : cookie[c] = handler'[h].token
    PROVE  \A t : Unshown(t) => Unshown(t)'
<1> SUFFICES ASSUME NEW t, Unshown(t)
             PROVE  Unshown(t)'
  OBVIOUS
<1>1. ASSUME NEW g \in Handlers, handler'[g].at \in Presenting
      PROVE  handler'[g].token # t
  BY <1>1 DEF Only, Unshown
<1> QED
  BY <1>1 DEF Unshown

LEMMA GentleWhereUntouched ==
    ASSUME Ids \subseteq Ids', \A t : Unshown(t) => Unshown(t)',
           NEW s, \A t \in Ids : tokens[t].session = s => tokens'[t] = tokens[t]
    PROVE  GentleWith(s)
  BY DEF GentleWith, Gentle, Unrevoked

\* Revoking all sessions of a user spares the rows of other sessions.
LEMMA RevokeAllSpares ==
    ASSUME Rows, NEW user, RevokeAll(user)
    PROVE  /\ ended \subseteq ended'
           /\ \A t \in Ids : tokens[t].session \notin ended' => tokens'[t] = tokens[t]
           /\ \A t \in Ids : tokens[t].user = user => tokens[t].session \in ended'
<1>1. Ids = 1..Len(tokens)
  BY IdsFacts
<1> QED
  BY <1>1 DEF RevokeAll

LEMMA UnlinkedFades ==
    ASSUME Unlinked, Fades
    PROVE  Unlinked'
<1> SUFFICES ASSUME NEW t \in Unrevoked' PROVE tokens'[t].replacedBy = 0
  BY DEF Unlinked
<1>1. t \in Ids /\ t \in Unrevoked
  BY DEF Fades, Unrevoked
<1> QED
  BY <1>1 DEF Fades, Unlinked

LEMMA WithdrawnStays ==
    ASSUME IInv, Grown, NEW h \in Handlers, NEW q, q = handler[h], Withdrawn(q)
    PROVE  Withdrawn(q)'
<1>1. \A t \in Ids : tokens[t].revoked => tokens'[t].revoked
  BY DEF Grown
<1>2. q.at \in RefreshSteps => q.token \in Ids /\ Holds(q)
  BY RefreshAt
<1>3. q.at \in RefreshSteps /\ q.next # 0 => q.next \in Ids
  BY <1>2 DEF Holds, IInv, Rest, RefreshSteps
<1>4. {"drop", "reread", "decide", "claim", "retry", "reload", "reissue", "relink", "relinkOwn"}
          \subseteq RefreshSteps
  BY DEF RefreshSteps
<1> QED
  BY <1>1, <1>2, <1>3, <1>4 DEF Withdrawn

LEMMA OthersWithdrawn ==
    ASSUME IInv, Grown, AllWithdrawn, NEW h \in Handlers, Only(h), NEW q, q = handler'[h],
           Withdrawn(q)'
    PROVE  AllWithdrawn'
<1> SUFFICES ASSUME NEW g \in Handlers, NEW r, r = handler'[g]
             PROVE  Withdrawn(r)'
  BY DEF AllWithdrawn, Underway
<1>1. CASE g = h
  BY <1>1
<1>2. CASE g # h
  <2>1. r = handler[g] /\ Withdrawn(r)
    BY <1>2 DEF Only, AllWithdrawn, Underway
  <2> QED
    BY <2>1, WithdrawnStays
<1> QED
  BY <1>1, <1>2

\* A refresh goes on, and works on its own session only.
LEMMA RefreshProgress ==
    ASSUME IInv, RecoveryInv, Grown, ended \subseteq ended', UNCHANGED <<cookie, tabbed>>,
           NEW h \in Handlers, handler[h].at \in RefreshSteps, Only(h), NEW q, q = handler'[h],
           NEW x, x = handler[h].token,
           \A t \in Ids : \/ tokens'[t] = tokens[t] \/ tokens[t].session = SessionOf(h)
                          \/ tokens[t].session \in ended',
           Unlinked', Withdrawn(q)',
           \/ q = Idle
           \/ /\ q.at \in RefreshSteps /\ q.client = handler[h].client
              /\ q.token = handler[h].token
           \/ /\ q.at = "refreshed" /\ q.client = handler[h].client
              /\ q.pair = handler[h].pair /\ handler[h].at \in {"rotate", "relinkOwn"},
           /\ handler[h].client \notin tabbed /\ SessionOf(h) \notin ended'
           /\ OnCourse(handler[h])
           /\ \A t : Unshown(t) => Unshown(t)'
           => /\ q.at \in RefreshSteps => OnCourse(q)'
              /\ q.at = "refreshed" => Fresh(q.pair)'
              /\ q.at \notin RefreshSteps => Recoverable(x)'
    PROVE  RecoveryInv'
<1>1. /\ handler[h] \in Request /\ Holds(handler[h])
      /\ handler[h].token \in granted /\ handler[h].token \in Ids
  BY RefreshAt
<1>2. /\ "refreshed" \in Answers /\ "refreshed" \notin Presenting /\ RefreshSteps \cap Answers = {}
      /\ RefreshSteps \subseteq Presenting
      /\ Idle.at \notin Presenting \cup Answers /\ Bears(Idle) = 0
  BY DEF Answers, RefreshSteps, Presenting, Idle, Bears
<1>3. ASSUME q.at = "refreshed"
      PROVE  /\ q.client = handler[h].client /\ q.pair # 0 /\ q.pair \in Ids
             /\ tokens[q.pair].session = SessionOf(h)
             /\ tokens'[q.pair].session = SessionOf(h)
  <2>1. q.client = handler[h].client /\ q.pair = handler[h].pair
        /\ handler[h].at \in {"rotate", "relinkOwn"}
    BY <1>2, <1>3 DEF Idle, RefreshSteps
  <2>2. q.pair \in Ids /\ tokens[q.pair].session = SessionOf(h)
    BY <1>1, <2>1 DEF Holds, IInv, Rest, SessionOf
  <2> QED
    BY <2>1, <2>2, IdsFacts DEF Grown, IInv
<1>4. \A g \in Handlers : Onward(g)
  BY <1>2, <1>3 DEF Only, Onward, Idle
<1>5. Apart'
  BY <1>4, ApartStays DEF RecoveryInv
<1>6. \A t : Unshown(t) => Unshown(t)'
  <2>1. handler'[h].at \in Presenting =>
            handler[h].at \in Presenting /\ handler'[h].token = handler[h].token
    BY <1>2
  <2> QED
    BY <2>1, UnshownStays
<1>7. ASSUME NEW s \in Ids, s \notin ended', ~WorksOn(h, s)
      PROVE  GentleWith(s)
  <2>1. \A t \in Ids : tokens[t].session = s => tokens'[t] = tokens[t]
    BY <1>7 DEF WorksOn
  <2> QED
    BY <1>6, <2>1, GentleWhereUntouched DEF Grown
<1>8. handler[h].client \notin tabbed /\ SessionOf(h) \notin ended' => OnCourse(handler[h])
  BY DEF RecoveryInv, Followed, Underway, SessionOf
<1>9. tokens'[handler[h].token].session = SessionOf(h)
  BY <1>1 DEF Grown, SessionOf
<1>10. Obliged(h, q, x)
  <2>1. ASSUME q.at \in RefreshSteps, q.client \notin tabbed, tokens'[q.token].session \notin ended'
        PROVE  OnCourse(q)'
    <3>1. q.client = handler[h].client /\ q.token = handler[h].token
      BY <1>2, <2>1
    <3> QED
      BY <1>6, <1>8, <1>9, <2>1, <3>1
  <2>2. ASSUME q.at \in Answers, q.client \notin tabbed, tokens'[q.pair].session \notin ended'
        PROVE  Fresh(q.pair)'
    <3>1. q.at = "refreshed"
      BY <1>2, <2>2
    <3> QED
      BY <1>3, <1>6, <1>8, <2>2, <3>1
  <2>3. ASSUME handler[h].client \notin tabbed, SessionOf(h) \notin ended'
        PROVE  \/ q.at \in RefreshSteps /\ q.client = handler[h].client /\ q.token = x
               \/ Recoverable(x)'
    BY <1>2, <1>6, <1>8, <2>3
  <2> QED
    BY <2>1, <2>2, <2>3 DEF Obliged, SessionOf
<1>11. Followed' /\ Answered' /\ Kept'
  BY <1>7, <1>10, RecoveryStays
<1>12. AllWithdrawn'
  BY OthersWithdrawn DEF RecoveryInv
<1> QED
  BY <1>5, <1>11, <1>12 DEF RecoveryInv

\* A refresh that writes no row.
LEMMA RefreshReads ==
    ASSUME IInv, RecoveryInv, ended \subseteq ended', UNCHANGED <<tokens, cookie, tabbed, granted>>,
           NEW h \in Handlers, handler[h].at \in RefreshSteps, Only(h), NEW q, q = handler'[h],
           NEW x, x = handler[h].token,
           Withdrawn(q),
           \/ q = Idle
           \/ /\ q.at \in RefreshSteps /\ q.client = handler[h].client
              /\ q.token = handler[h].token,
           /\ handler[h].client \notin tabbed /\ SessionOf(h) \notin ended'
           /\ OnCourse(handler[h])
           => /\ q.at \in RefreshSteps => OnCourse(q)
              /\ q.at \notin RefreshSteps => Recoverable(x)
    PROVE  RecoveryInv'
<1>1. Ids' = Ids /\ Unrevoked' = Unrevoked /\ Grown
  BY DEF Ids, Unrevoked, Grown
<1>2. Unlinked' /\ Withdrawn(q)'
  BY <1>1 DEF RecoveryInv, Unlinked, Withdrawn
<1>3. ASSUME \A t : Unshown(t) => Unshown(t)'
      PROVE  /\ OnCourse(q) => OnCourse(q)'
             /\ \A t : Recoverable(t) => Recoverable(t)'
  <2>1. \A t : Recoverable(t) => Recoverable(t)'
    BY <1>1, <1>3 DEF Recoverable
  <2>2. \A t : Fresh(t) => Fresh(t)'
    BY <1>1, <1>3 DEF Fresh
  <2> QED
    BY <1>1, <2>1, <2>2 DEF OnCourse
<1>4. q.at # "refreshed"
  BY DEF Idle, RefreshSteps
<1>5. /\ handler[h].client \notin tabbed /\ SessionOf(h) \notin ended'
      /\ OnCourse(handler[h])
      /\ \A t : Unshown(t) => Unshown(t)'
      => /\ q.at \in RefreshSteps => OnCourse(q)'
         /\ q.at = "refreshed" => Fresh(q.pair)'
         /\ q.at \notin RefreshSteps => Recoverable(x)'
  BY <1>3, <1>4
<1> QED
  BY <1>1, <1>2, <1>5, RefreshProgress

-----------------------------------------------------------------------------
(* The steps of a refresh.                                                 *)

LEMMA Moves ==
    ASSUME IInv, NEW h \in Handlers, NEW q, handler' = [handler EXCEPT ![h] = q]
    PROVE  handler'[h] = q /\ Only(h)
  BY DEF IInv, Held, Only

LEMMA RefreshFacts ==
    ASSUME IInv, RecoveryInv, NEW h \in Handlers, handler[h].at \in RefreshSteps
    PROVE  /\ handler[h] \in Request /\ handler[h].token \in Ids
           /\ Withdrawn(handler[h]) /\ Unlinked
  BY RefreshAt DEF RecoveryInv, AllWithdrawn, Underway

LEMMA IdleFacts ==
    /\ Idle.at \notin RefreshSteps /\ Idle.at \notin Answers
    /\ Idle.at # "refreshed"
    /\ Withdrawn(Idle) /\ Withdrawn(Idle)'
  BY DEF Idle, RefreshSteps, Answers, Withdrawn

\* Refused, with nothing written.
LEMMA RefusedRecovery ==
    ASSUME IInv, RecoveryInv, ended \subseteq ended', UNCHANGED <<tokens, cookie, tabbed, granted>>,
           NEW h \in Handlers, handler[h].at \in RefreshSteps, Refuse(h),
           SessionOf(h) \notin ended' /\ OnCourse(handler[h]) => Recoverable(handler[h].token)
    PROVE  RecoveryInv'
<1>1. handler'[h] = Idle /\ Only(h)
  BY Moves DEF Refuse
<1> QED
  BY <1>1, IdleFacts, RefreshReads

\* The request goes on to a step, with nothing written.
LEMMA GoneOnRecovery ==
    ASSUME IInv, RecoveryInv, ended' = ended, UNCHANGED <<tokens, cookie, tabbed, granted>>,
           NEW h \in Handlers, handler[h].at \in RefreshSteps,
           NEW q, handler' = [handler EXCEPT ![h] = q], q.at \in RefreshSteps,
           q.client = handler[h].client, q.token = handler[h].token,
           Withdrawn(q), OnCourse(handler[h]) => OnCourse(q)
    PROVE  RecoveryInv'
<1>1. handler'[h] = q /\ Only(h)
  BY Moves
<1> QED
  BY <1>1, RefreshReads

LEMMA FindTokenRecovery ==
    ASSUME IInv, RecoveryInv, NEW h \in Handlers, FindToken(h), tabbed' = tabbed
    PROVE  RecoveryInv'
<1> DEFINE t == handler[h].token
<1>1. /\ handler[h].at = "find" /\ handler[h].at \in RefreshSteps
      /\ UNCHANGED <<tokens, cookie, granted, ended>>
  BY DEF FindToken, At, RefreshSteps
<1>2. handler[h] \in Request /\ t \in Ids /\ Unlinked
  BY <1>1, RefreshFacts
<1>3. OnCourse(handler[h]) => Recoverable(t)
  BY <1>1 DEF OnCourse
<1>4. CASE tokens[t].revoked
  <2> DEFINE q == [handler[h] EXCEPT !.at = "decide", !.next = tokens[t].replacedBy]
  <2>1. handler' = [handler EXCEPT ![h] = q]
    BY <1>4 DEF FindToken
  <2>2. /\ q.at = "decide" /\ q.client = handler[h].client /\ q.token = t
        /\ q.next = tokens[t].replacedBy
    BY <1>2 DEF Request
  <2> HIDE DEF q
  <2>3. Withdrawn(q) /\ (OnCourse(handler[h]) => OnCourse(q)) /\ q.at \in RefreshSteps
    BY <1>3, <1>4, <2>2 DEF Withdrawn, OnCourse, RefreshSteps
  <2> QED
    BY <1>1, <2>1, <2>2, <2>3, GoneOnRecovery
<1>5. CASE ~tokens[t].revoked /\ tokens[t].aged
  <2>1. Refuse(h)
    BY <1>5 DEF FindToken
  <2> QED
    BY <1>1, <1>3, <2>1, RefusedRecovery
<1>6. CASE ~tokens[t].revoked /\ ~tokens[t].aged
  <2> DEFINE q == [handler[h] EXCEPT !.at = "load"]
  <2>1. handler' = [handler EXCEPT ![h] = q]
    BY <1>6 DEF FindToken, Goto
  <2>2. q.at = "load" /\ q.client = handler[h].client /\ q.token = t
    BY <1>2 DEF Request
  <2> HIDE DEF q
  <2>3. tokens[t].replacedBy = 0
    BY <1>2, <1>6 DEF Unlinked, Unrevoked
  <2>4. Withdrawn(q) /\ (OnCourse(handler[h]) => OnCourse(q)) /\ q.at \in RefreshSteps
    BY <1>3, <2>2, <2>3 DEF Withdrawn, OnCourse, RefreshSteps
  <2> QED
    BY <1>1, <2>1, <2>2, <2>4, GoneOnRecovery
<1> QED
  BY <1>4, <1>5, <1>6

LEMMA LoadActiveUserRecovery ==
    ASSUME IInv, RecoveryInv, NEW h \in Handlers, LoadActiveUser(h), tabbed' = tabbed
    PROVE  RecoveryInv'
<1>1. /\ handler[h].at \in {"load", "reload"} /\ handler[h].at \in RefreshSteps
      /\ UNCHANGED <<tokens, cookie, granted, ended>>
  BY DEF LoadActiveUser, At, RefreshSteps
<1>2. handler[h] \in Request /\ Withdrawn(handler[h])
  BY <1>1, RefreshFacts
<1>3. PICK step \in {"issue", "reissue", "endAll"} :
        /\ Goto(h, step)
        /\ step = "issue" => handler[h].at = "load"
        /\ step = "reissue" => handler[h].at = "reload"
  <2>1. CASE At(h, "load")
    BY <2>1 DEF LoadActiveUser, At
  <2>2. CASE At(h, "reload")
    BY <2>2 DEF LoadActiveUser, At
  <2> QED
    BY <2>1, <2>2 DEF LoadActiveUser
<1> DEFINE q == [handler[h] EXCEPT !.at = step]
<1>4. handler' = [handler EXCEPT ![h] = q]
  BY <1>3 DEF Goto
<1>5. /\ q.at = step /\ q.client = handler[h].client /\ q.token = handler[h].token
      /\ q.next = handler[h].next
  BY <1>2 DEF Request
<1> HIDE DEF q
<1>6. q.at \in RefreshSteps
  BY <1>3, <1>5 DEF RefreshSteps
<1>7. Withdrawn(q)
  BY <1>2, <1>3, <1>5 DEF Withdrawn
<1>8. OnCourse(handler[h]) => OnCourse(q)
  BY <1>3, <1>5 DEF OnCourse
<1> QED
  BY <1>1, <1>4, <1>5, <1>6, <1>7, <1>8, GoneOnRecovery

\* The record is read again and judged.
LEMMA DecideRecovery ==
    ASSUME IInv, RecoveryInv, UNCHANGED <<tokens, cookie, tabbed, granted, ended>>,
           NEW h \in Handlers, handler[h].at \in {"reread", "retry"},
           handler' = [handler EXCEPT ![h].at = "decide",
                                      ![h].next = tokens[handler[h].token].replacedBy]
    PROVE  RecoveryInv'
<1> DEFINE q == [handler[h] EXCEPT !.at = "decide",
                                   !.next = tokens[handler[h].token].replacedBy]
<1>1. handler[h].at \in RefreshSteps
  BY DEF RefreshSteps
<1>2. handler[h] \in Request /\ tokens[handler[h].token].revoked
  BY <1>1, RefreshFacts DEF Withdrawn
<1>3. handler' = [handler EXCEPT ![h] = q]
  OBVIOUS
<1>4. /\ q.at = "decide" /\ q.client = handler[h].client /\ q.token = handler[h].token
      /\ q.next = tokens[handler[h].token].replacedBy
  BY <1>2 DEF Request
<1> HIDE DEF q
<1>5. Withdrawn(q) /\ (OnCourse(handler[h]) => OnCourse(q)) /\ q.at \in RefreshSteps
  BY <1>2, <1>4 DEF Withdrawn, OnCourse, RefreshSteps
<1> QED
  BY <1>1, <1>3, <1>4, <1>5, GoneOnRecovery

LEMMA RetryClaimRecovery ==
    ASSUME IInv, RecoveryInv, NEW h \in Handlers, RetryClaim(h), tabbed' = tabbed
    PROVE  RecoveryInv'
<1>1. /\ handler[h].at = "retry" /\ handler[h].at \in RefreshSteps
      /\ UNCHANGED <<tokens, cookie, granted, ended>>
  BY DEF RetryClaim, At, RefreshSteps
<1>2. ~OnCourse(handler[h])
  BY <1>1 DEF OnCourse
<1>3. CASE tokens[handler[h].token].replacedBy # handler[h].next
  BY <1>1, <1>3, DecideRecovery DEF RetryClaim
<1>4. CASE tokens[handler[h].token].replacedBy = handler[h].next
  BY <1>1, <1>2, <1>4, RefusedRecovery DEF RetryClaim
<1> QED
  BY <1>3, <1>4

\* The judgement finds the replacement unused, or the grace over and the
\* replacement not exchanged.
LEMMA JudgeRevokedRecovery ==
    ASSUME IInv, RecoveryInv, NEW h \in Handlers, JudgeRevoked(h), tabbed' = tabbed
    PROVE  RecoveryInv'
<1> DEFINE t == handler[h].token
           next == handler[h].next
<1>1. /\ handler[h].at = "decide" /\ handler[h].at \in RefreshSteps
      /\ UNCHANGED <<tokens, cookie, granted, ended>>
  BY DEF JudgeRevoked, At, RefreshSteps
<1>2. handler[h] \in Request /\ tokens[t].revoked
  BY <1>1, RefreshFacts DEF Withdrawn
<1>3. OnCourse(handler[h]) => Recoverable(t) /\ next = tokens[t].replacedBy
  BY <1>1 DEF OnCourse
<1>4. CASE Refuse(h)
  BY <1>1, <1>3, <1>4, RefusedRecovery
<1>5. CASE next \in Unrevoked /\ next # 0
  <2> DEFINE q == [handler[h] EXCEPT !.at = "claim", !.grace = ~tokens[t].aged]
  <2>1. handler' = [handler EXCEPT ![h] = q]
    BY <1>5 DEF JudgeRevoked
  <2>2. /\ q.at = "claim" /\ q.client = handler[h].client /\ q.token = t
        /\ q.next = next /\ q.grace = ~tokens[t].aged
    BY <1>2 DEF Request
  <2> HIDE DEF q
  <2>3. Withdrawn(q) /\ q.at \in RefreshSteps
    BY <1>2, <2>2 DEF Withdrawn, RefreshSteps
  <2>4. OnCourse(handler[h]) => OnCourse(q)
    BY <1>3, <1>5, <2>2 DEF OnCourse
  <2> QED
    BY <1>1, <2>1, <2>2, <2>3, <2>4, GoneOnRecovery
<1>6. CASE Goto(h, "endAll")
  <2> DEFINE q == [handler[h] EXCEPT !.at = "endAll"]
  <2>1. handler' = [handler EXCEPT ![h] = q]
    BY <1>6 DEF Goto
  <2>2. q.at = "endAll" /\ q.client = handler[h].client /\ q.token = t
    BY <1>2 DEF Request
  <2> HIDE DEF q
  <2>3. Withdrawn(q) /\ q.at \in RefreshSteps /\ OnCourse(q)
    BY <2>2 DEF Withdrawn, RefreshSteps, OnCourse
  <2> QED
    BY <1>1, <2>1, <2>2, <2>3, GoneOnRecovery
<1> QED
  BY <1>4, <1>5, <1>6 DEF JudgeRevoked

\* A refresh that fails after its claim has cut the session short.
LEMMA FailRefreshRecovery ==
    ASSUME IInv, RecoveryInv, NEW h \in Handlers, handler[h].at \in RefreshSteps,
           FailRequest(h), tabbed' = tabbed
    PROVE  RecoveryInv'
<1>1. /\ Refuse(h) /\ ended \subseteq ended' /\ UNCHANGED <<tokens, cookie, granted>>
      /\ handler[h].at \in {"reload", "reissue", "relink", "relinkOwn", "endAll"} =>
            SessionOf(h) \in ended'
  BY DEF FailRequest
<1>2. SessionOf(h) \notin ended' /\ OnCourse(handler[h]) => Recoverable(handler[h].token)
  BY <1>1 DEF OnCourse, RefreshSteps
<1> QED
  BY <1>1, <1>2, RefusedRecovery

\* A token that was not there has been shown to nobody.
LEMMA Unseen ==
    ASSUME IInv, NEW t, t \notin Ids, t # 0
    PROVE  Unshown(t)
<1>1. granted \subseteq Ids /\ \A c \in Clients : cookie[c] \in {0} \cup granted
  BY DEF IInv, Rest
<1>2. ASSUME NEW h \in Handlers, handler[h].at \in Presenting
      PROVE  handler[h].token \in {0} \cup granted
  <2>1. Holds(handler[h]) /\ handler[h].at # "idle"
    BY <1>2 DEF IInv, Held, Presenting, RefreshSteps
  <2> QED
    BY <2>1 DEF Holds
<1> QED
  BY <1>1, <1>2 DEF Unshown

LEMMA ShownByRefresh ==
    ASSUME NEW h \in Handlers, handler[h].at \in RefreshSteps, NEW t, Unshown(t)
    PROVE  t # handler[h].token
  BY DEF Unshown, Presenting

\* A new row has no replacement.
LEMMA IssueLinks ==
    ASSUME IInv, Unlinked, NEW h \in Handlers, NEW user \in Users,
           NEW session \in 1 .. Len(tokens) + 1, Issue(h, user, session)
    PROVE  /\ Ids \subseteq Ids' /\ \A t \in Ids : tokens'[t] = tokens[t]
           /\ Len(tokens') \in Ids' /\ Len(tokens') \in Unrevoked' /\ Unshown(Len(tokens'))
           /\ Len(tokens') # 0 /\ Unlinked'
<1> DEFINE p == Len(tokens')
<1>2. Rows /\ Len(tokens) \in Nat
  BY IdsFacts DEF IInv
<1>3. /\ p = Len(tokens) + 1 /\ Ids' = Ids \cup {p} /\ p \notin Ids
      /\ \A t \in Ids : tokens'[t] = tokens[t]
      /\ tokens'[p].replacedBy = 0 /\ ~tokens'[p].revoked
  BY <1>2, IssueFacts
<1>4. p # 0
  BY <1>2, <1>3
<1> HIDE DEF p
<1>5. Unshown(p)
  BY <1>3, <1>4, Unseen
<1>6. Unlinked'
  BY <1>3 DEF Unlinked, Unrevoked
<1> QED
  BY <1>3, <1>4, <1>5, <1>6 DEF Unrevoked, p

LEMMA IssuePairRecovery ==
    ASSUME IInv, RecoveryInv, NEW h \in Handlers, IssuePair(h), tabbed' = tabbed
    PROVE  RecoveryInv'
<1>0. PICK p, x : p = Len(tokens') /\ x = handler[h].token
  OBVIOUS
<1>1. /\ handler[h].at = "issue" /\ handler[h].at \in RefreshSteps
      /\ UNCHANGED <<cookie, granted, ended>> /\ Issue(h, UserOf(h), SessionOf(h))
  BY DEF IssuePair, At, RefreshSteps
<1>2. handler[h] \in Request /\ x \in Ids /\ Unlinked
  BY <1>0, <1>1, RefreshFacts
<1>typed. UserOf(h) \in Users /\ SessionOf(h) \in 1 .. Len(tokens) + 1
  BY <1>1, RefreshAt, IdsFacts DEF IInv
<1>3. /\ Ids \subseteq Ids' /\ \A t \in Ids : tokens'[t] = tokens[t]
      /\ p \in Ids' /\ p \in Unrevoked' /\ Unshown(p) /\ Unlinked'
  BY <1>0, <1>1, <1>2, <1>typed, IssueLinks
<1>4. Grown
  BY <1>1, <1>3 DEF Grown
<1>5. PICK q : /\ handler' = [handler EXCEPT ![h] = q] /\ q.at = "rotate"
               /\ q.client = handler[h].client /\ q.token = x /\ q.pair = p
  <2> DEFINE r == [handler[h] EXCEPT !.at = "rotate", !.pair = p]
  <2>1. r.at = "rotate" /\ r.client = handler[h].client /\ r.token = x /\ r.pair = p
    BY <1>0, <1>2 DEF Request
  <2>2. handler' = [handler EXCEPT ![h] = r]
    BY <1>0 DEF IssuePair
  <2> QED
    BY <2>1, <2>2
<1>6. handler'[h] = q /\ Only(h)
  BY <1>5, Moves
<1>7. Withdrawn(q)' /\ q.at \in RefreshSteps
  BY <1>5 DEF Withdrawn, RefreshSteps
<1>8. ASSUME OnCourse(handler[h]), \A t : Unshown(t) => Unshown(t)'
      PROVE  OnCourse(q)'
  <2>1. tokens'[x].replacedBy = 0
    BY <1>0, <1>1, <1>2, <1>3, <1>8 DEF OnCourse
  <2>2. Fresh(p)'
    BY <1>3, <1>8 DEF Fresh
  <2>3. Recoverable(x)'
    BY <2>1 DEF Recoverable
  <2> QED
    BY <1>5, <2>1, <2>2, <2>3 DEF OnCourse
<1> QED
  BY <1>0, <1>1, <1>3, <1>4, <1>5, <1>6, <1>7, <1>8, RefreshProgress

LEMMA ReissuePairRecovery ==
    ASSUME IInv, RecoveryInv, NEW h \in Handlers, ReissuePair(h), tabbed' = tabbed
    PROVE  RecoveryInv'
<1>0. PICK p, x : p = Len(tokens') /\ x = handler[h].token
  OBVIOUS
<1>1. /\ handler[h].at = "reissue" /\ handler[h].at \in RefreshSteps
      /\ UNCHANGED <<cookie, ended>> /\ granted \subseteq granted'
      /\ Issue(h, UserOf(h), SessionOf(h))
  BY DEF ReissuePair, At, RefreshSteps
<1>2. handler[h] \in Request /\ x \in Ids /\ Unlinked /\ Withdrawn(handler[h])
  BY <1>0, <1>1, RefreshFacts
<1>typed. UserOf(h) \in Users /\ SessionOf(h) \in 1 .. Len(tokens) + 1
  BY <1>1, RefreshAt, IdsFacts DEF IInv
<1>3. /\ Ids \subseteq Ids' /\ \A t \in Ids : tokens'[t] = tokens[t]
      /\ p \in Ids' /\ p \in Unrevoked' /\ Unshown(p) /\ Unlinked'
  BY <1>0, <1>1, <1>2, <1>typed, IssueLinks
<1>4. Grown
  BY <1>1, <1>3 DEF Grown
<1>5. PICK q : /\ handler' = [handler EXCEPT ![h] = q] /\ q.at = "relink"
               /\ q.client = handler[h].client /\ q.token = x /\ q.pair = p
               /\ q.next = handler[h].next
  <2> DEFINE r == [handler[h] EXCEPT !.at = "relink", !.pair = p]
  <2>1. /\ r.at = "relink" /\ r.client = handler[h].client /\ r.token = x /\ r.pair = p
        /\ r.next = handler[h].next
    BY <1>0, <1>2 DEF Request
  <2>2. handler' = [handler EXCEPT ![h] = r]
    BY <1>0 DEF ReissuePair
  <2> QED
    BY <2>1, <2>2
<1>6. handler'[h] = q /\ Only(h)
  BY <1>5, Moves
<1>7. Withdrawn(q)' /\ q.at \in RefreshSteps
  <2>1. q.next # 0 /\ tokens[q.next].revoked /\ tokens[x].revoked
    BY <1>0, <1>1, <1>2, <1>5 DEF Withdrawn
  <2>2. q.next \in Ids
    BY <1>1, <1>5, <2>1, RefreshAt DEF Holds, RefreshSteps, IInv, Rest
  <2> QED
    BY <1>2, <1>3, <1>5, <2>1, <2>2 DEF Withdrawn, RefreshSteps
<1>8. ASSUME \A t : Unshown(t) => Unshown(t)'
      PROVE  OnCourse(q)'
  <2>1. Fresh(p)'
    BY <1>3, <1>8 DEF Fresh
  <2> QED
    BY <1>5, <2>1 DEF OnCourse
<1> QED
  BY <1>0, <1>1, <1>3, <1>4, <1>5, <1>6, <1>7, <1>8, RefreshProgress

\* The token's successor is new and shown to nobody, until the answer comes.
LEMMA RotateTokenRecovery ==
    ASSUME IInv, RecoveryInv, NEW h \in Handlers, RotateToken(h), tabbed' = tabbed
    PROVE  RecoveryInv'
<1>0. PICK p, x : p = handler[h].pair /\ x = handler[h].token
  OBVIOUS
<1>1. /\ handler[h].at = "rotate" /\ handler[h].at \in RefreshSteps
      /\ UNCHANGED <<cookie, ended>>
  BY DEF RotateToken, At, RefreshSteps
<1>2. handler[h] \in Request /\ x \in Ids /\ Unlinked /\ Withdrawn(handler[h])
  BY <1>0, <1>1, RefreshFacts
<1>3. CASE x \in Unrevoked
  <2> DEFINE row == Revoked(tokens[x], p)
  <2>1. tokens' = [tokens EXCEPT ![x] = row] /\ granted' = granted \cup {p}
    BY <1>0, <1>3 DEF RotateToken
  <2>2. tokens[x] \in Row /\ p \in Nat /\ Rows
    BY <1>0, <1>1, <1>2, RefreshAt DEF Request, IInv
  <2>3. row \in Row /\ row.session = tokens[x].session /\ row.replacedBy = p /\ row.revoked
    BY <2>2, RevokedRow
  <2>4. PICK q : /\ handler' = [handler EXCEPT ![h] = q] /\ q.at = "refreshed"
                 /\ q.client = handler[h].client /\ q.pair = p
    BY <1>0, <1>3 DEF RotateToken, Reply
  <2> HIDE DEF row
  <2>5. Ids' = Ids /\ \A i \in Ids : tokens'[i] = IF i = x THEN row ELSE tokens[i]
    BY <1>2, <2>1, <2>2, <2>3, SetFacts
  <2>6. Grown
    BY <2>1, <2>3, <2>5 DEF Grown
  <2>7. Unlinked'
    BY <1>2, <2>3, <2>5 DEF Unlinked, Unrevoked
  <2>8. handler'[h] = q /\ Only(h)
    BY <2>4, Moves
  <2>9. Withdrawn(q)' /\ q.at \notin RefreshSteps
    BY <2>4 DEF Withdrawn, RefreshSteps
  <2>10. ASSUME OnCourse(handler[h]), \A t : Unshown(t) => Unshown(t)'
         PROVE  Fresh(p)' /\ Recoverable(x)'
    <3>1. p \in Unrevoked /\ Unshown(p)
      BY <1>0, <1>1, <2>10 DEF OnCourse, Fresh
    <3>2. p # x
      BY <1>0, <1>1, <3>1, ShownByRefresh
    <3>3. p \in Unrevoked' /\ Unshown(p)'
      BY <2>5, <2>10, <3>1, <3>2 DEF Unrevoked
    <3>4. tokens'[x].replacedBy = p
      BY <1>2, <2>3, <2>5
    <3> QED
      BY <3>3, <3>4 DEF Fresh, Recoverable
  <2>11. \A t \in Ids : tokens'[t] = tokens[t] \/ tokens[t].session = SessionOf(h)
    BY <1>0, <2>5 DEF SessionOf
  <2> QED
    BY <1>0, <1>1, <2>4, <2>6, <2>7, <2>8, <2>9, <2>10, <2>11, RefreshProgress
<1>4. CASE x \notin Unrevoked
  <2> DEFINE q == [handler[h] EXCEPT !.at = "drop"]
  <2>1. handler' = [handler EXCEPT ![h] = q] /\ UNCHANGED <<tokens, granted>>
    BY <1>0, <1>4 DEF RotateToken, Goto
  <2>2. q.at = "drop" /\ q.client = handler[h].client /\ q.token = x
    BY <1>0, <1>2 DEF Request
  <2> HIDE DEF q
  <2>3. Withdrawn(q) /\ (OnCourse(handler[h]) => OnCourse(q)) /\ q.at \in RefreshSteps
    BY <1>0, <1>1, <1>2, <1>4, <2>2 DEF Withdrawn, OnCourse, RefreshSteps, Unrevoked
  <2> QED
    BY <1>0, <1>1, <2>1, <2>2, <2>3, GoneOnRecovery
<1> QED
  BY <1>3, <1>4

\* A revocation of one row.
LEMMA RevokeOneSpares ==
    ASSUME Rows, NEW t \in Ids, RevokeIfActive(t)
    PROVE  \A i \in Ids : i # t => tokens'[i] = tokens[i]
<1> DEFINE row == IF tokens[t].revoked THEN tokens[t] ELSE Revoked(tokens[t], tokens[t].replacedBy)
<1>1. tokens' = [tokens EXCEPT ![t] = row]
  BY DEF RevokeIfActive
<1>2. tokens \in Seq(Row)
  BY DEF Rows
<1> HIDE DEF row
<1> QED
  BY <1>1, <1>2, IdsFacts

LEMMA DropPairRecovery ==
    ASSUME IInv, RecoveryInv, NEW h \in Handlers, DropPair(h), tabbed' = tabbed
    PROVE  RecoveryInv'
<1>0. PICK p, x : p = handler[h].pair /\ x = handler[h].token
  OBVIOUS
<1>1. /\ handler[h].at = "drop" /\ handler[h].at \in RefreshSteps
      /\ UNCHANGED <<cookie, ended, granted>> /\ RevokeIfActive(p)
  BY <1>0 DEF DropPair, At, RefreshSteps
<1>2. handler[h] \in Request /\ x \in Ids /\ Unlinked /\ Withdrawn(handler[h])
  BY <1>0, <1>1, RefreshFacts
<1>3. p \in Ids /\ tokens[p].session = SessionOf(h)
  BY <1>0, <1>1, RefreshAt DEF Holds, SessionOf
<1>4. PICK q : /\ handler' = [handler EXCEPT ![h] = q] /\ q.at = "reread"
               /\ q.client = handler[h].client /\ q.token = x
  <2> DEFINE r == [handler[h] EXCEPT !.at = "reread", !.pair = 0]
  <2>1. r.at = "reread" /\ r.client = handler[h].client /\ r.token = x
    BY <1>0, <1>2 DEF Request
  <2>2. handler' = [handler EXCEPT ![h] = r]
    BY DEF DropPair
  <2> QED
    BY <2>1, <2>2
<1>5. Fades /\ \A i \in Ids : i # p => tokens'[i] = tokens[i]
  BY <1>1, <1>3, RevokeIfActiveFacts, RevokeOneSpares DEF IInv
<1>6. Grown /\ Unlinked'
  BY <1>1, <1>2, <1>5, FadesGrows, UnlinkedFades
<1>7. handler'[h] = q /\ Only(h)
  BY <1>4, Moves
<1>8. Withdrawn(q)' /\ q.at \in RefreshSteps
  BY <1>0, <1>1, <1>2, <1>4, <1>5 DEF Withdrawn, RefreshSteps, Fades
<1>9. ASSUME OnCourse(handler[h])
      PROVE  OnCourse(q)'
  <2>1. tokens'[x].replacedBy = 0
    BY <1>0, <1>1, <1>2, <1>5, <1>9 DEF OnCourse, Fades
  <2>2. Recoverable(x)'
    BY <2>1 DEF Recoverable
  <2> QED
    BY <1>4, <2>2 DEF OnCourse
<1>10. \A t \in Ids : tokens'[t] = tokens[t] \/ tokens[t].session = SessionOf(h)
  BY <1>3, <1>5
<1> QED
  BY <1>0, <1>1, <1>4, <1>6, <1>7, <1>8, <1>9, <1>10, RefreshProgress

\* A refresh that claims the unused replacement revokes it, and has the
\* session; without the grace it stops where it found the token.
LEMMA ClaimReplacementRecovery ==
    ASSUME IInv, RecoveryInv, NEW h \in Handlers, ClaimReplacement(h), tabbed' = tabbed
    PROVE  RecoveryInv'
<1>0. PICK n, x : n = handler[h].next /\ x = handler[h].token
  OBVIOUS
<1>1. /\ handler[h].at = "claim" /\ handler[h].at \in RefreshSteps
      /\ UNCHANGED <<cookie, ended, granted>> /\ RevokeIfActive(n)
  BY <1>0 DEF ClaimReplacement, At, RefreshSteps
<1>2. /\ handler[h] \in Request /\ x \in Ids /\ Unlinked /\ tokens[x].revoked
  BY <1>0, <1>1, RefreshFacts DEF Withdrawn
<1>3. n \in {0} \cup granted /\ (n # 0 => tokens[n].session = SessionOf(h))
  BY <1>0, <1>1, RefreshAt DEF Holds, SessionOf
<1>4. /\ Fades /\ (n \in Ids => tokens'[n].revoked)
      /\ \A i \in Ids : i # n => tokens'[i] = tokens[i]
  <2>1. CASE n \in Ids
    BY <1>1, <2>1, RevokeIfActiveFacts, RevokeOneSpares DEF IInv
  <2>2. CASE n \notin Ids
    <3>1. tokens' = tokens
      BY <1>1, <2>2, IdsFacts DEF RevokeIfActive, IInv, Rows
    <3> QED
      BY <2>2, <3>1 DEF Fades, IInv, Rows, Ids
  <2> QED
    BY <2>1, <2>2
<1>5. Grown /\ Unlinked'
  BY <1>1, <1>2, <1>4, FadesGrows, UnlinkedFades
<1>6. \A t \in Ids : tokens'[t] = tokens[t] \/ tokens[t].session = SessionOf(h)
  BY <1>3, <1>4, IdsFacts DEF IInv
<1>7. CASE n \in Unrevoked /\ handler[h].grace
  <2>1. PICK q : /\ handler' = [handler EXCEPT ![h] = q] /\ q.at = "reload"
                 /\ q.client = handler[h].client /\ q.token = x /\ q.next = n
    <3> DEFINE r == [handler[h] EXCEPT !.at = "reload", !.grace = FALSE]
    <3>1. r.at = "reload" /\ r.client = handler[h].client /\ r.token = x /\ r.next = n
      BY <1>0, <1>2 DEF Request
    <3>2. handler' = [handler EXCEPT ![h] = r]
      BY <1>0, <1>7 DEF ClaimReplacement
    <3> QED
      BY <3>1, <3>2
  <2>2. handler'[h] = q /\ Only(h) /\ q.at \in RefreshSteps
    BY <2>1, Moves DEF RefreshSteps
  <2>3. n \in Ids /\ n # 0
    BY <1>7, IdsFacts DEF Unrevoked, IInv
  <2>4. Withdrawn(q)'
    BY <1>2, <1>4, <2>1, <2>3 DEF Withdrawn, Fades
  <2>5. OnCourse(q)'
    BY <2>1 DEF OnCourse
  <2> QED
    BY <1>0, <1>1, <1>5, <1>6, <2>1, <2>2, <2>4, <2>5, RefreshProgress
<1>8. CASE n \in Unrevoked /\ ~handler[h].grace
  <2>1. handler'[h] = Idle /\ Only(h)
    BY <1>0, <1>8, Moves DEF ClaimReplacement, Refuse
  <2>2. ASSUME OnCourse(handler[h]), \A t : Unshown(t) => Unshown(t)'
        PROVE  Recoverable(x)'
    <3>1. n = tokens[x].replacedBy /\ tokens[x].aged /\ Recoverable(x)
      BY <1>0, <1>1, <1>8, <2>2 DEF OnCourse
    <3>2. n # x /\ n \in Ids /\ n # 0 /\ tokens[n].replacedBy = 0
      BY <1>2, <1>8, IdsFacts DEF Unrevoked, Unlinked, IInv
    <3>3. tokens'[x] = tokens[x] /\ tokens'[n].replacedBy = 0
      BY <1>2, <1>4, <3>2 DEF Fades
    <3>4. Unshown(n)'
      BY <2>2, <3>1, <3>2 DEF Recoverable
    <3> QED
      BY <3>1, <3>3, <3>4 DEF Recoverable
  <2> QED
    BY <1>0, <1>1, <1>5, <1>6, <2>1, <2>2, IdleFacts, RefreshProgress
<1>9. CASE n \notin Unrevoked
  <2>1. PICK q : /\ handler' = [handler EXCEPT ![h] = q] /\ q.at = "retry"
                 /\ q.client = handler[h].client /\ q.token = x
    <3> DEFINE r == [handler[h] EXCEPT !.at = "retry", !.grace = FALSE]
    <3>1. r.at = "retry" /\ r.client = handler[h].client /\ r.token = x
      BY <1>0, <1>2 DEF Request
    <3>2. handler' = [handler EXCEPT ![h] = r]
      BY <1>0, <1>9 DEF ClaimReplacement
    <3> QED
      BY <3>1, <3>2
  <2>2. handler'[h] = q /\ Only(h) /\ q.at \in RefreshSteps
    BY <2>1, Moves DEF RefreshSteps
  <2>3. Withdrawn(q)'
    BY <1>2, <1>4, <2>1 DEF Withdrawn, Fades
  <2>4. ~OnCourse(handler[h])
    BY <1>0, <1>1, <1>9 DEF OnCourse
  <2> QED
    BY <1>0, <1>1, <1>5, <1>6, <2>1, <2>2, <2>3, <2>4, RefreshProgress
<1> QED
  BY <1>7, <1>8, <1>9

\* A link of one row.
LEMMA RelinkOne ==
    ASSUME Rows, NEW t \in Ids, NEW p, SetReplacement(t, p)
    PROVE  /\ \A i \in Ids : i # t => tokens'[i] = tokens[i]
           /\ tokens'[t].replacedBy = p /\ tokens'[t].revoked = tokens[t].revoked
<1>1. Ids = 1..Len(tokens) /\ tokens \in Seq(Row)
  BY IdsFacts DEF Rows
<1>2. tokens' = [tokens EXCEPT ![t] = [tokens[t] EXCEPT !.replacedBy = p]]
  BY DEF SetReplacement
<1>3. tokens[t] \in Row
  BY IdsFacts
<1> QED
  BY <1>1, <1>2, <1>3 DEF Row

LEMMA RelinkReplacementRecovery ==
    ASSUME IInv, RecoveryInv, NEW h \in Handlers, RelinkReplacement(h), tabbed' = tabbed
    PROVE  RecoveryInv'
<1>0. PICK n, p, x : n = handler[h].next /\ p = handler[h].pair /\ x = handler[h].token
  OBVIOUS
<1>1. /\ handler[h].at = "relink" /\ handler[h].at \in RefreshSteps
      /\ UNCHANGED <<cookie, ended, granted>> /\ SetReplacement(n, p)
  BY <1>0 DEF RelinkReplacement, At, RefreshSteps
<1>2. /\ handler[h] \in Request /\ x \in Ids /\ Unlinked /\ tokens[x].revoked
      /\ n # 0 /\ tokens[n].revoked
  BY <1>0, <1>1, RefreshFacts DEF Withdrawn
<1>3. /\ n \in granted /\ n \in Ids /\ p \in granted /\ tokens[n].session = SessionOf(h)
      /\ tokens[p].session = SessionOf(h)
  BY <1>0, <1>1, <1>2, RefreshAt DEF Holds, SessionOf, IInv, Rest
<1>4. Grown /\ Ids' = Ids
  BY <1>1, <1>3, RelinkFacts
<1>5. /\ \A i \in Ids : i # n => tokens'[i] = tokens[i]
      /\ tokens'[n].revoked
  BY <1>1, <1>2, <1>3, RelinkOne DEF IInv
<1>6. Unlinked'
  BY <1>2, <1>4, <1>5 DEF Unlinked, Unrevoked
<1>7. PICK q : /\ handler' = [handler EXCEPT ![h] = q] /\ q.at = "relinkOwn"
               /\ q.client = handler[h].client /\ q.token = x /\ q.next = n /\ q.pair = p
  <2> DEFINE r == [handler[h] EXCEPT !.at = "relinkOwn"]
  <2>1. /\ r.at = "relinkOwn" /\ r.client = handler[h].client /\ r.token = x
        /\ r.next = n /\ r.pair = p
    BY <1>0, <1>2 DEF Request
  <2>2. handler' = [handler EXCEPT ![h] = r]
    BY DEF RelinkReplacement, Goto
  <2> QED
    BY <2>1, <2>2
<1>8. handler'[h] = q /\ Only(h) /\ q.at \in RefreshSteps
  BY <1>7, Moves DEF RefreshSteps
<1>9. Withdrawn(q)'
  BY <1>2, <1>4, <1>5, <1>7 DEF Withdrawn, Grown
<1>10. ASSUME OnCourse(handler[h]), \A t : Unshown(t) => Unshown(t)'
       PROVE  OnCourse(q)'
  <2>1. p \in Unrevoked /\ Unshown(p)
    BY <1>0, <1>1, <1>10 DEF OnCourse, Fresh
  <2>2. p \in Unrevoked'
    BY <1>2, <1>4, <1>5, <2>1 DEF Unrevoked
  <2>3. Fresh(p)'
    BY <1>10, <2>1, <2>2 DEF Fresh
  <2> QED
    BY <1>7, <2>3 DEF OnCourse
<1>11. \A t \in Ids : tokens'[t] = tokens[t] \/ tokens[t].session = SessionOf(h)
  BY <1>3, <1>5
<1> QED
  BY <1>0, <1>1, <1>4, <1>6, <1>7, <1>8, <1>9, <1>10, <1>11, RefreshProgress

LEMMA RelinkTokenRecovery ==
    ASSUME IInv, RecoveryInv, NEW h \in Handlers, RelinkToken(h), tabbed' = tabbed
    PROVE  RecoveryInv'
<1>0. PICK p, x : p = handler[h].pair /\ x = handler[h].token
  OBVIOUS
<1>1. /\ handler[h].at = "relinkOwn" /\ handler[h].at \in RefreshSteps
      /\ UNCHANGED <<cookie, ended, granted>> /\ SetReplacement(x, p)
  BY <1>0 DEF RelinkToken, At, RefreshSteps
<1>2. /\ handler[h] \in Request /\ x \in Ids /\ Unlinked /\ tokens[x].revoked
  BY <1>0, <1>1, RefreshFacts DEF Withdrawn
<1>3. p \in granted /\ x \in granted /\ tokens[x].session = SessionOf(h)
      /\ tokens[p].session = tokens[x].session
  BY <1>0, <1>1, RefreshAt DEF Holds, SessionOf
<1>4. Grown /\ Ids' = Ids
  BY <1>1, <1>3, RelinkFacts
<1>5. /\ \A i \in Ids : i # x => tokens'[i] = tokens[i]
      /\ tokens'[x].revoked /\ tokens'[x].replacedBy = p
  BY <1>1, <1>2, RelinkOne DEF IInv
<1>6. Unlinked'
  BY <1>2, <1>4, <1>5 DEF Unlinked, Unrevoked
<1>7. PICK q : /\ handler' = [handler EXCEPT ![h] = q] /\ q.at = "refreshed"
               /\ q.client = handler[h].client /\ q.pair = p
  <2> DEFINE r == [at |-> "refreshed", client |-> handler[h].client, token |-> 0,
                   next |-> 0, grace |-> FALSE, pair |-> p]
  <2>1. handler' = [handler EXCEPT ![h] = r]
    BY <1>0 DEF RelinkToken, Reply
  <2>2. r.at = "refreshed" /\ r.client = handler[h].client /\ r.pair = p
    OBVIOUS
  <2> HIDE DEF r
  <2> QED
    BY <2>1, <2>2
<1>8. handler'[h] = q /\ Only(h) /\ q.at \notin RefreshSteps
  BY <1>7, Moves DEF RefreshSteps
<1>9. Withdrawn(q)'
  BY <1>7 DEF Withdrawn
<1>10. ASSUME OnCourse(handler[h]), \A t : Unshown(t) => Unshown(t)'
       PROVE  Fresh(p)' /\ Recoverable(x)'
  <2>1. p \in Unrevoked /\ Unshown(p)
    BY <1>0, <1>1, <1>10 DEF OnCourse, Fresh
  <2>2. p \in Unrevoked' /\ Unshown(p)'
    BY <1>2, <1>4, <1>5, <1>10, <2>1 DEF Unrevoked
  <2> QED
    BY <1>5, <2>2 DEF Fresh, Recoverable
<1>11. \A t \in Ids : tokens'[t] = tokens[t] \/ tokens[t].session = SessionOf(h)
  BY <1>3, <1>5
<1> QED
  BY <1>0, <1>1, <1>4, <1>6, <1>7, <1>8, <1>9, <1>10, <1>11, RefreshProgress

LEMMA EndAllSessionsRecovery ==
    ASSUME IInv, RecoveryInv, NEW h \in Handlers, EndAllSessions(h), tabbed' = tabbed
    PROVE  RecoveryInv'
<1>0. PICK x : x = handler[h].token
  OBVIOUS
<1>1. /\ handler[h].at = "endAll" /\ handler[h].at \in RefreshSteps
      /\ UNCHANGED <<cookie, granted>> /\ RevokeAll(UserOf(h)) /\ Refuse(h)
  BY DEF EndAllSessions, At, RefreshSteps
<1>2. x \in Ids /\ Unlinked
  BY <1>0, <1>1, RefreshFacts
<1>3. Rows /\ ended \subseteq Ids
  BY DEF IInv, Rest
<1>4. /\ ended \subseteq ended'
      /\ \A t \in Ids : tokens[t].session \notin ended' => tokens'[t] = tokens[t]
      /\ SessionOf(h) \in ended'
  BY <1>0, <1>1, <1>2, <1>3, RevokeAllSpares DEF UserOf, SessionOf
<1>5. Fades
  BY <1>1, <1>3, RevokeAllFacts
<1>6. Grown /\ Unlinked'
  BY <1>1, <1>2, <1>5, FadesGrows, UnlinkedFades
<1>7. handler'[h] = Idle /\ Only(h)
  BY <1>1, Moves DEF Refuse
<1> QED
  BY <1>0, <1>1, <1>4, <1>6, <1>7, IdleFacts, RefreshProgress

LEMMA ServeRefreshRecovery ==
    ASSUME IInv, RecoveryInv, NEW h \in Handlers, ServeRefresh(h), tabbed' = tabbed
    PROVE  RecoveryInv'
<1>1. RereadToken(h) => RecoveryInv'
  BY DecideRecovery DEF RereadToken, At
<1> QED
  BY <1>1, FindTokenRecovery, LoadActiveUserRecovery, IssuePairRecovery, RotateTokenRecovery,
     DropPairRecovery, JudgeRevokedRecovery, ClaimReplacementRecovery, RetryClaimRecovery,
     ReissuePairRecovery, RelinkReplacementRecovery, RelinkTokenRecovery, EndAllSessionsRecovery
     DEF ServeRefresh

-----------------------------------------------------------------------------
(* The steps beside a refresh.                                             *)

\* A request that is not refreshing, and what it becomes.
LEMMA BesideRecovery ==
    ASSUME IInv, RecoveryInv, Grown, ended \subseteq ended', UNCHANGED <<cookie, tabbed>>,
           NEW h \in Handlers, handler[h].at \notin RefreshSteps, Only(h),
           NEW q, q = handler'[h], Apart', Unlinked', Withdrawn(q)',
           /\ q.at \in RefreshSteps /\ q.client \notin tabbed
           /\ tokens'[q.token].session \notin ended'
           => OnCourse(q)',
           q.at \in Answers /\ q.pair # 0 => Fresh(q.pair)',
           \A s \in Ids : s \notin ended' => GentleWith(s)
    PROVE  RecoveryInv'
<1>1. PICK x : x = handler[h].token
  OBVIOUS
<1>2. Obliged(h, q, x)
  BY DEF Obliged
<1>3. Followed' /\ Answered' /\ Kept'
  BY <1>1, <1>2, RecoveryStays
<1>4. AllWithdrawn'
  BY OthersWithdrawn DEF RecoveryInv
<1> QED
  BY <1>3, <1>4 DEF RecoveryInv

\* Such a request that writes no row; it may present a cookie.
LEMMA BesideReads ==
    ASSUME IInv, RecoveryInv, ended \subseteq ended', UNCHANGED <<tokens, cookie, tabbed, granted>>,
           NEW h \in Handlers, handler[h].at \notin RefreshSteps, Only(h),
           NEW q, q = handler'[h], Apart', q.at \notin Answers,
           q.at \in Presenting => \E c \in Clients : cookie[c] = q.token,
           q.at \in RefreshSteps =>
               /\ q.at = "find"
               /\ q.client \notin tabbed /\ tokens[q.token].session \notin ended
                  => Recoverable(q.token)
    PROVE  RecoveryInv'
<1>1. Ids' = Ids /\ Unrevoked' = Unrevoked /\ Grown
  BY DEF Ids, Unrevoked, Grown
<1>2. Unlinked'
  BY <1>1 DEF RecoveryInv, Unlinked
<1>3. Withdrawn(q)'
  BY DEF Withdrawn, RefreshSteps
<1>4. \A t : Unshown(t) => Unshown(t)'
  BY UnshownStays
<1>5. \A s \in Ids : GentleWith(s)
  BY <1>1, <1>4, GentleWhereUntouched
<1>6. \A t : Recoverable(t) => Recoverable(t)'
  BY <1>1, <1>4 DEF Recoverable
<1>7. /\ q.at \in RefreshSteps /\ q.client \notin tabbed
      /\ tokens'[q.token].session \notin ended'
      => OnCourse(q)'
  BY <1>6 DEF OnCourse
<1> QED
  BY <1>1, <1>2, <1>3, <1>5, <1>7, BesideRecovery

\* Between its refreshes the cookie of a browser is recoverable.
LEMMA RestingCookie ==
    ASSUME IInv, RecoveryInv, NEW c \in Clients \ tabbed, cookie[c] # 0, Refreshing(c) = {},
           tokens[cookie[c]].session \notin ended
    PROVE  Recoverable(cookie[c])
<1>1. cookie[c] \in Ids
  BY CookieFacts
<1>2. \A q \in Underway : ~(q.at \in RefreshSteps /\ q.client = c)
  BY DEF Underway, Refreshing
<1> QED
  BY <1>1, <1>2 DEF RecoveryInv, Kept

LEMMA CallRecovery ==
    ASSUME IInv, RecoveryInv, NEW h \in Handlers, NEW c \in Clients, Call(h, c), tabbed' = tabbed
    PROVE  RecoveryInv'
<1>1. Apart'
  BY SendApart DEF RecoveryInv
<1>2. PICK step, t :
        /\ Send(h, c, step, t)
        /\ \/ step = "login"
           \/ step = "logout" /\ t = cookie[c]
           \/ /\ step = "find" /\ t = cookie[c] /\ cookie[c] # 0
              /\ c \in tabbed \/ Refreshing(c) = {}
  BY DEF Call, SendLogin, SendLogout, SendRefresh
<1>3. /\ handler[h].at \notin RefreshSteps
      /\ UNCHANGED <<tokens, cookie, granted, ended>>
  BY <1>2 DEF Send, At, RefreshSteps
<1>4. PICK q : /\ handler' = [handler EXCEPT ![h] = q] /\ q.at = step /\ q.client = c
               /\ q.token = t
  <2> DEFINE r == [at |-> step, client |-> c, token |-> t, next |-> 0, grace |-> FALSE,
                   pair |-> 0]
  <2>1. handler' = [handler EXCEPT ![h] = r]
    BY <1>2 DEF Send
  <2>2. r.at = step /\ r.client = c /\ r.token = t
    OBVIOUS
  <2> HIDE DEF r
  <2> QED
    BY <2>1, <2>2
<1>5. handler'[h] = q /\ Only(h)
  BY <1>4, Moves
<1>6. /\ q.at \notin Answers
      /\ q.at \in Presenting => cookie[c] = q.token
      /\ q.at \in RefreshSteps => q.at = "find"
  BY <1>2, <1>4 DEF Answers, Presenting, RefreshSteps
<1>7. q.at = "find" /\ q.client \notin tabbed /\ tokens[q.token].session \notin ended
      => Recoverable(q.token)
  BY <1>2, <1>4, RestingCookie
<1> QED
  BY <1>1, <1>3, <1>5, <1>6, <1>7, BesideReads

\* A request that is refused, or goes on to a step that presents nothing.
LEMMA BystanderRecovery ==
    ASSUME IInv, RecoveryInv, ended \subseteq ended', UNCHANGED <<tokens, cookie, tabbed, granted>>,
           NEW h \in Handlers, handler[h].at \notin RefreshSteps,
           NEW q, handler' = [handler EXCEPT ![h] = q], q.at \notin Presenting \cup Answers
    PROVE  RecoveryInv'
<1>1. handler'[h] = q /\ Only(h)
  BY Moves
<1>2. Bears(q) = 0 /\ q.at \notin RefreshSteps \cup {"refreshed"}
  BY DEF Bears, Presenting, Answers
<1>3. Grown
  BY DEF Grown, Ids
<1>4. \A g \in Handlers : Onward(g)
  BY <1>1, <1>2 DEF Only, Onward
<1>5. Apart'
  BY <1>3, <1>4, ApartStays DEF RecoveryInv
<1> QED
  BY <1>1, <1>2, <1>5, BesideReads

LEMMA CheckLoginRecovery ==
    ASSUME IInv, RecoveryInv, NEW h \in Handlers, CheckLogin(h), tabbed' = tabbed
    PROVE  RecoveryInv'
<1>1. /\ handler[h].at = "login" /\ handler[h].at \notin RefreshSteps
      /\ UNCHANGED <<tokens, cookie, granted, ended>>
  BY DEF CheckLogin, At, RefreshSteps
<1>2. CASE Refuse(h)
  <2>1. handler' = [handler EXCEPT ![h] = Idle] /\ Idle.at \notin Presenting \cup Answers
    BY <1>2 DEF Refuse, Idle, Presenting, RefreshSteps, Answers
  <2> QED
    BY <1>1, <2>1, BystanderRecovery
<1>3. CASE Goto(h, "open")
  <2> DEFINE q == [handler[h] EXCEPT !.at = "open"]
  <2>1. handler[h] \in Request
    BY <1>1, RequestAt DEF At
  <2>2. q.at \notin Presenting \cup Answers
    BY <2>1 DEF Request, Presenting, RefreshSteps, Answers
  <2>3. handler' = [handler EXCEPT ![h] = q]
    BY <1>3 DEF Goto
  <2> HIDE DEF q
  <2> QED
    BY <1>1, <2>2, <2>3, BystanderRecovery
<1> QED
  BY <1>2, <1>3 DEF CheckLogin

\* A lost answer, or a login or a logout that fails.
LEMMA GivenUpRecovery ==
    ASSUME IInv, RecoveryInv, NEW h \in Handlers, tabbed' = tabbed,
           LoseAnswer(h) \/ (FailRequest(h) /\ handler[h].at \notin RefreshSteps)
    PROVE  RecoveryInv'
<1>1. /\ handler[h].at \notin RefreshSteps
      /\ Refuse(h) /\ UNCHANGED <<tokens, cookie, granted>> /\ ended \subseteq ended'
  BY DEF LoseAnswer, FailRequest, Answers, RefreshSteps
<1>2. handler' = [handler EXCEPT ![h] = Idle] /\ Idle.at \notin Presenting \cup Answers
  BY <1>1 DEF Refuse, Idle, Presenting, RefreshSteps, Answers
<1> QED
  BY <1>1, <1>2, BystanderRecovery

\* A new session's token is new to everybody.
LEMMA OpenSessionRecovery ==
    ASSUME IInv, IInv', RecoveryInv, NEW h \in Handlers, OpenSession(h), tabbed' = tabbed
    PROVE  RecoveryInv'
<1>0. PICK p : p = Len(tokens')
  OBVIOUS
<1> DEFINE session == Len(tokens) + 1
           user == Account[handler[h].client]
<1>1. /\ handler[h] \in Request /\ handler[h].at = "open"
      /\ handler[h].at \notin RefreshSteps
  BY RequestAt DEF OpenSession, At, RefreshSteps
<1>2. user \in Users /\ session \in 1 .. Len(tokens) + 1
  BY <1>1, SessionsAssumption, IdsFacts DEF SessionsAssumption, Request, IInv
<1>3. /\ Issue(h, user, session) /\ UNCHANGED <<cookie, ended>> /\ granted \subseteq granted'
  BY DEF OpenSession
<1>4. Apart' /\ Unlinked
  BY OpenSessionApart DEF RecoveryInv
<1> HIDE DEF session, user
<1>5. /\ Ids \subseteq Ids' /\ \A t \in Ids : tokens'[t] = tokens[t]
      /\ p \in Ids' /\ p \in Unrevoked' /\ Unshown(p) /\ Unlinked'
  BY <1>0, <1>2, <1>3, <1>4, IssueLinks
<1>6. Grown
  BY <1>3, <1>5 DEF Grown
<1>7. PICK q : /\ handler' = [handler EXCEPT ![h] = q] /\ q.at = "loggedIn"
               /\ q.pair = p
  <2> DEFINE r == [at |-> "loggedIn", client |-> handler[h].client, token |-> 0,
                   next |-> 0, grace |-> FALSE, pair |-> p]
  <2>1. handler' = [handler EXCEPT ![h] = r]
    BY <1>0 DEF OpenSession, Reply
  <2>2. r.at = "loggedIn" /\ r.pair = p
    OBVIOUS
  <2> HIDE DEF r
  <2> QED
    BY <2>1, <2>2
<1>8. handler'[h] = q /\ Only(h)
  BY <1>7, Moves
<1>9. q.at \notin RefreshSteps \cup Presenting /\ Withdrawn(q)'
  BY <1>7 DEF RefreshSteps, Presenting, Withdrawn
<1>10. \A t : Unshown(t) => Unshown(t)'
  BY <1>3, <1>8, <1>9, UnshownStays
<1>11. \A s \in Ids : GentleWith(s)
  BY <1>5, <1>10, GentleWhereUntouched
<1>12. Fresh(p)'
  BY <1>5, <1>10 DEF Fresh
<1> QED
  BY <1>1, <1>3, <1>4, <1>5, <1>6, <1>7, <1>8, <1>9, <1>11, <1>12, BesideRecovery

\* A logout revokes what it presents.
LEMMA LogoutRecovery ==
    ASSUME IInv, RecoveryInv, NEW h \in Handlers, Logout(h), tabbed' = tabbed
    PROVE  RecoveryInv'
<1>0. PICK x : x = handler[h].token
  OBVIOUS
<1>1. /\ handler[h].at = "logout" /\ handler[h].at \notin RefreshSteps
      /\ handler[h].at \in Presenting
      /\ UNCHANGED <<cookie, granted, ended>> /\ RevokeIfActive(x)
  BY <1>0 DEF Logout, At, RefreshSteps, Presenting
<1>2. /\ Fades /\ \A i \in Ids : tokens'[i] = tokens[i] \/ (i = x /\ ~tokens[i].revoked)
  <2>1. CASE x \in Ids /\ ~tokens[x].revoked
    BY <1>1, <2>1, RevokeIfActiveFacts, RevokeOneSpares DEF IInv
  <2>2. CASE x \notin Ids \/ tokens[x].revoked
    <3>1. tokens' = tokens
      BY <1>1, <2>2, IdsFacts DEF RevokeIfActive, IInv, Rows
    <3> QED
      BY <3>1 DEF Fades, IInv, Rows, Ids
  <2> QED
    BY <2>1, <2>2
<1>3. Grown /\ Unlinked'
  BY <1>1, <1>2, FadesGrows, UnlinkedFades DEF RecoveryInv
<1>4. PICK q : handler' = [handler EXCEPT ![h] = q] /\ q.at = "loggedOut" /\ q.pair = 0
  <2> DEFINE r == [at |-> "loggedOut", client |-> handler[h].client, token |-> 0,
                   next |-> 0, grace |-> FALSE, pair |-> 0]
  <2>1. handler' = [handler EXCEPT ![h] = r]
    BY DEF Logout, Reply
  <2>2. r.at = "loggedOut" /\ r.pair = 0
    OBVIOUS
  <2> HIDE DEF r
  <2> QED
    BY <2>1, <2>2
<1>5. handler'[h] = q /\ Only(h)
  BY <1>4, Moves
<1>6. /\ q.at \notin RefreshSteps \cup Presenting \cup {"refreshed"} /\ Bears(q) = 0
      /\ Withdrawn(q)'
  BY <1>4 DEF RefreshSteps, Presenting, Bears, Answers, Withdrawn
<1>7. \A g \in Handlers : Onward(g)
  BY <1>5, <1>6 DEF Only, Onward
<1>8. Apart'
  BY <1>1, <1>3, <1>7, ApartStays DEF RecoveryInv
<1>9. \A t : Unshown(t) => Unshown(t)'
  BY <1>1, <1>5, <1>6, UnshownStays
<1>10. \A i \in Ids : Gentle(i)
  <2> SUFFICES ASSUME NEW i \in Ids PROVE Gentle(i)
    OBVIOUS
  <2>1. CASE tokens'[i] = tokens[i]
    BY <1>2, <1>9, <2>1 DEF Gentle, Unrevoked, Fades
  <2>2. CASE i = x /\ ~tokens[i].revoked
    BY <1>0, <1>1, <1>2, <1>9, <2>2 DEF Gentle, Unshown, Fades
  <2> QED
    BY <1>2, <2>1, <2>2
<1>11. \A s \in Ids : GentleWith(s)
  BY <1>10 DEF GentleWith
<1> QED
  BY <1>1, <1>3, <1>4, <1>5, <1>6, <1>8, <1>11, BesideRecovery

\* An answer arrives.  Its token is nobody's replacement yet, and whatever
\* else its session has to show belongs to nobody else.
LEMMA ReceiveRecovery ==
    ASSUME IInv, RecoveryInv, NEW h \in Handlers, Receive(h), tabbed' = tabbed
    PROVE  RecoveryInv'
<1>0. PICK p, b : p = handler[h].pair /\ b = handler[h].client
  OBVIOUS
<1>1. /\ handler[h] \in Request /\ b \in Clients /\ handler[h].at \in Answers
      /\ UNCHANGED <<tokens, granted, ended>> /\ cookie' = [cookie EXCEPT ![b] = p]
  BY <1>0, RequestAt DEF Receive, At, Answers, Request
<1>2. handler'[h] = Idle /\ Only(h)
  BY Moves DEF Receive, Refuse
<1>3. /\ Ids' = Ids /\ Unrevoked' = Unrevoked /\ Grown
      /\ cookie'[b] = p /\ \A c \in Clients \ {b} : cookie'[c] = cookie[c]
  BY <1>1 DEF Ids, Unrevoked, Grown, IInv, Rest
<1>4. Apart' /\ Apart /\ Unlinked
  BY ReceiveApart DEF RecoveryInv
<1>5. Unlinked'
  BY <1>1, <1>3, <1>4 DEF Unlinked
<1>6. AllWithdrawn'
  BY <1>2, <1>3, IdleFacts, OthersWithdrawn DEF RecoveryInv
<1>7. \A t : t # p /\ Unshown(t) => Unshown(t)'
  <2> SUFFICES ASSUME NEW t, t # p, Unshown(t)
               PROVE  Unshown(t)'
    OBVIOUS
  <2>1. \A c \in Clients : cookie'[c] # t
    BY <1>3 DEF Unshown
  <2>2. ASSUME NEW g \in Handlers, handler'[g].at \in Presenting
        PROVE  handler'[g].token # t
    BY <1>2, <2>2 DEF Only, Unshown, Idle, Presenting, RefreshSteps
  <2> QED
    BY <2>1, <2>2 DEF Unshown
<1>8. \A s : (p # 0 => tokens[p].session # s) => GentleWith(s)
  <2> SUFFICES ASSUME NEW s, p # 0 => tokens[p].session # s, NEW t \in Ids, tokens[t].session = s
               PROVE  Gentle(t)
    BY DEF GentleWith
  <2>1. t # p
    BY IdsFacts DEF IInv
  <2> QED
    BY <1>1, <1>3, <1>7, <2>1 DEF Gentle
<1>9. p # 0 => Live(handler[h]) /\ Bears(handler[h]) = p
  BY <1>0, <1>1 DEF Live, Bears
<1>10. ASSUME NEW g \in Handlers \ {h}, Live(handler[g]), handler[g].client \notin tabbed
       PROVE  GentleWith(tokens[Bears(handler[g])].session)
  <2>1. p # 0 => tokens[p].session # tokens[Bears(handler[g])].session
    BY <1>4, <1>9, <1>10 DEF Apart, Alone
  <2> QED
    BY <1>8, <2>1
<1>11. Followed'
  <2> SUFFICES ASSUME NEW q \in Underway', q.at \in RefreshSteps, q.client \notin tabbed,
                      tokens[q.token].session \notin ended
               PROVE  OnCourse(q)'
    BY <1>1 DEF Followed
  <2>1. PICK g \in Handlers : q = handler'[g]
    BY DEF Underway
  <2>2. g # h /\ q = handler[g]
    BY <1>2, <2>1, IdleFacts DEF Only
  <2>3. Live(handler[g]) /\ Bears(handler[g]) = q.token
    BY <2>2, BearsFacts DEF Live, Presenting
  <2>4. GentleWith(tokens[q.token].session)
    BY <1>10, <2>2, <2>3
  <2>5. OnCourse(q)
    BY <2>2 DEF RecoveryInv, Followed, Underway
  <2> QED
    BY <1>4, <2>2, <2>4, <2>5, OnCourseStays
<1>12. Answered'
  <2> SUFFICES ASSUME NEW q \in Underway', q.at \in Answers, q.pair # 0, q.client \notin tabbed,
                      tokens[q.pair].session \notin ended
               PROVE  Fresh(q.pair)'
    BY <1>1 DEF Answered
  <2>1. PICK g \in Handlers : q = handler'[g]
    BY DEF Underway
  <2>2. g # h /\ q = handler[g]
    BY <1>2, <2>1, IdleFacts DEF Only
  <2>3. Live(handler[g]) /\ Bears(handler[g]) = q.pair
    BY <2>2 DEF Live, Bears
  <2>4. GentleWith(tokens[q.pair].session) /\ q.pair \in Ids
    BY <1>10, <2>2, <2>3, BearsFacts
  <2>5. Fresh(q.pair)
    BY <2>2 DEF RecoveryInv, Answered, Underway
  <2> QED
    BY <2>4, <2>5, FreshStays
<1>13. Kept'
  <2> SUFFICES ASSUME NEW c \in Clients \ tabbed, NEW t \in Ids, cookie'[c] = t,
                      tokens[t].session \notin ended
               PROVE  \/ Recoverable(t)'
                      \/ \E q \in Underway' : /\ q.at \in RefreshSteps /\ q.client = c
                                              /\ q.token = t
    BY <1>1, <1>3 DEF Kept
  <2>1. t # 0
    BY IdsFacts DEF IInv
  <2>2. CASE c = b
    <3>1. p = t /\ handler[h] \in Underway
      BY <1>3, <2>2 DEF Underway
    <3>2. Fresh(p)
      BY <1>0, <1>1, <2>1, <2>2, <3>1 DEF RecoveryInv, Answered
    <3>3. tokens'[t].replacedBy = 0
      BY <1>1, <1>4, <3>1, <3>2 DEF Fresh, Unlinked
    <3> QED
      BY <3>3 DEF Recoverable
  <2>3. CASE c # b
    <3>1. cookie[c] = t
      BY <1>3, <2>3
    <3>2. p # 0 => tokens[p].session # tokens[t].session
      BY <1>0, <1>4, <1>9, <2>1, <2>3, <3>1, OneOwner DEF Apart
    <3>3. GentleWith(tokens[t].session)
      BY <1>8, <3>2
    <3>4. CASE Recoverable(t)
      BY <1>4, <3>3, <3>4, RecoverableStays
    <3>5. ASSUME NEW g \in Handlers, handler[g].at \in RefreshSteps, handler[g].client = c,
                 handler[g].token = t
          PROVE  \E q \in Underway' : q.at \in RefreshSteps /\ q.client = c /\ q.token = t
      <4>1. g # h
        BY <1>1, <3>5 DEF Answers, RefreshSteps
      <4>2. handler'[g] = handler[g] /\ handler'[g] \in Underway'
        BY <1>2, <4>1 DEF Only, Underway
      <4> QED
        BY <3>5, <4>2
    <3> QED
      BY <3>1, <3>4, <3>5 DEF RecoveryInv, Kept, Underway
  <2> QED
    BY <2>2, <2>3
<1> QED
  BY <1>4, <1>5, <1>6, <1>11, <1>12, <1>13 DEF RecoveryInv

\* Steps of nobody's request.
LEMMA UnattendedRecovery ==
    ASSUME IInv, RecoveryInv, Grown, ended \subseteq ended', UNCHANGED <<cookie, tabbed, handler>>,
           Unlinked', \A s \in Ids : s \notin ended' => GentleWith(s)
    PROVE  RecoveryInv'
<1>1. \A g \in Handlers : Onward(g)
  BY DEF Onward
<1>2. Apart'
  BY <1>1, ApartStays DEF RecoveryInv
<1>3. Followed' /\ Answered' /\ Kept'
  BY RecoveryUnmoved
<1>4. AllWithdrawn'
  <2> SUFFICES ASSUME NEW g \in Handlers, NEW r, r = handler'[g]
               PROVE  Withdrawn(r)'
    BY DEF AllWithdrawn, Underway
  <2>1. r = handler[g] /\ Withdrawn(r)
    BY DEF RecoveryInv, AllWithdrawn, Underway
  <2> QED
    BY <2>1, WithdrawnStays
<1> QED
  BY <1>2, <1>3, <1>4 DEF RecoveryInv

LEMMA UntouchedRecovery ==
    ASSUME IInv, RecoveryInv, UNCHANGED <<tokens, granted, ended, cookie, tabbed, handler>>
    PROVE  RecoveryInv'
<1>1. Ids' = Ids /\ Unrevoked' = Unrevoked /\ Grown
  BY DEF Ids, Unrevoked, Grown
<1>2. Unlinked'
  BY <1>1 DEF RecoveryInv, Unlinked
<1>3. \A t : Unshown(t) => Unshown(t)'
  BY DEF Unshown
<1>4. \A s \in Ids : GentleWith(s)
  BY <1>1, <1>3, GentleWhereUntouched
<1> QED
  BY <1>1, <1>2, <1>4, UnattendedRecovery

LEMMA RevokeSessionsRecovery ==
    ASSUME IInv, RecoveryInv, NEW u \in Users, NEW d \in BOOLEAN, RevokeSessions(u, d),
           tabbed' = tabbed
    PROVE  RecoveryInv'
<1>1. /\ RevokeAll(u) /\ UNCHANGED <<cookie, handler, granted>>
      /\ Rows /\ ended \subseteq Ids
  BY DEF RevokeSessions, IInv, Rest
<1>2. /\ ended \subseteq ended'
      /\ \A t \in Ids : tokens[t].session \notin ended' => tokens'[t] = tokens[t]
  BY <1>1, RevokeAllSpares
<1>3. Fades
  BY <1>1, RevokeAllFacts
<1>4. Grown /\ Unlinked'
  BY <1>1, <1>3, FadesGrows, UnlinkedFades DEF RecoveryInv
<1>5. \A t : Unshown(t) => Unshown(t)'
  BY <1>1 DEF Unshown
<1>6. \A s \in Ids : s \notin ended' => GentleWith(s)
  BY <1>2, <1>4, <1>5, GentleWhereUntouched DEF Grown
<1> QED
  BY <1>1, <1>2, <1>4, <1>6, UnattendedRecovery

\* Time only ends a lifetime or a grace.
LEMMA PassTimeRecovery ==
    ASSUME IInv, RecoveryInv, NEW t \in Ids, PassTime(t), tabbed' = tabbed
    PROVE  RecoveryInv'
<1>1. /\ tokens' = [tokens EXCEPT ![t] = [tokens[t] EXCEPT !.aged = TRUE]]
      /\ UNCHANGED <<cookie, handler, granted, ended>>
  BY DEF PassTime
<1>2. /\ Ids = 1..Len(tokens) /\ tokens \in Seq(Row) /\ \A i \in Ids : tokens[i] \in Row
      /\ Rows
  BY IdsFacts DEF IInv, Rows
<1> DEFINE row == [tokens[t] EXCEPT !.aged = TRUE]
<1>3. /\ row \in Row /\ row.session = tokens[t].session /\ row.revoked = tokens[t].revoked
      /\ row.replacedBy = tokens[t].replacedBy /\ row.aged
  BY <1>2 DEF Row
<1> HIDE DEF row
<1>4. Ids' = Ids /\ \A i \in Ids : tokens'[i] = IF i = t THEN row ELSE tokens[i]
  BY <1>1, <1>2, <1>3, SetFacts DEF row
<1>5. Grown /\ Unrevoked' = Unrevoked
  BY <1>1, <1>3, <1>4 DEF Grown, Unrevoked
<1>6. Unlinked'
  BY <1>3, <1>4, <1>5 DEF RecoveryInv, Unlinked, Unrevoked
<1>7. \A i : Unshown(i) => Unshown(i)'
  BY <1>1 DEF Unshown
<1>8. \A i \in Ids : Gentle(i)
  BY <1>3, <1>4, <1>5, <1>7 DEF Gentle
<1>9. \A s \in Ids : GentleWith(s)
  BY <1>8 DEF GentleWith
<1> QED
  BY <1>1, <1>5, <1>6, <1>9, UnattendedRecovery

LEMMA NextRecovery ==
    ASSUME IInv, IInv', RecoveryInv, [Next]_vars
    PROVE  RecoveryInv'
<1>1. CASE UNCHANGED vars
  BY <1>1, UntouchedRecovery DEF vars
<1>2. CASE Next
  <2>1. tabbed' = tabbed
    BY <1>2 DEF Next
  <2>2. ASSUME NEW h \in Handlers, ServeSession(h)
        PROVE  RecoveryInv'
    BY <2>1, <2>2, CheckLoginRecovery, OpenSessionRecovery, LogoutRecovery DEF ServeSession
  <2>3. ASSUME NEW h \in Handlers, ServeRefresh(h)
        PROVE  RecoveryInv'
    BY <2>1, <2>3, ServeRefreshRecovery
  <2>4. ASSUME NEW h \in Handlers, Answer(h)
        PROVE  RecoveryInv'
    BY <2>1, <2>4, ReceiveRecovery, GivenUpRecovery, FailRefreshRecovery DEF Answer
  <2>5. ASSUME NEW h \in Handlers, NEW c \in Clients, Call(h, c)
        PROVE  RecoveryInv'
    BY <2>1, <2>5, CallRecovery
  <2>6. ASSUME NEW u \in Users, SetCustomerActive(u)
        PROVE  RecoveryInv'
    BY <2>1, <2>6, UntouchedRecovery DEF SetCustomerActive
  <2>7. ASSUME NEW u \in Users, NEW d \in BOOLEAN, RevokeSessions(u, d)
        PROVE  RecoveryInv'
    BY <2>1, <2>7, RevokeSessionsRecovery
  <2>8. ASSUME NEW t \in Ids, PassTime(t)
        PROVE  RecoveryInv'
    BY <2>1, <2>8, PassTimeRecovery
  <2> QED
    BY <1>2, <2>2, <2>3, <2>4, <2>5, <2>6, <2>7, <2>8 DEF Next
<1> QED
  BY <1>1, <1>2

LEMMA InitRecovery == Init => RecoveryInv
<1> SUFFICES ASSUME Init PROVE RecoveryInv
  OBVIOUS
<1>1. Ids = {} /\ \A q \in Underway : q = Idle
  BY DEF Init, Ids, Underway
<1>2. Idle.at \notin RefreshSteps \cup Answers \cup {"refreshed"} /\ ~Live(Idle)
  BY DEF Idle, RefreshSteps, Answers, Live
<1>3. \A h \in Handlers : handler[h] = Idle
  BY DEF Init
<1>4. Apart
  BY <1>1, <1>2, <1>3 DEF Apart, Owned, Single, Current, Alone, Unopened, Refreshing
<1>5. Unlinked /\ AllWithdrawn
  BY <1>1, IdleFacts DEF Unlinked, Unrevoked, AllWithdrawn
<1>6. Followed /\ Answered /\ Kept
  BY <1>1, <1>2 DEF Followed, Answered, Kept
<1> QED
  BY <1>4, <1>5, <1>6 DEF RecoveryInv

LEMMA Recovered ==
    ASSUME IInv, RecoveryInv
    PROVE  LostAnswerIsRecovered
<1> DEFINE t(c) == cookie[c]
           next(c) == tokens[t(c)].replacedBy
<1> SUFFICES ASSUME NEW c \in Clients \ tabbed, t(c) # 0, Refreshing(c) = {},
                    tokens[t(c)].session \notin ended, tokens[t(c)].revoked, next(c) # 0
             PROVE  IF tokens[t(c)].aged
                    THEN next(c) \in Unrevoked \/ tokens[next(c)].replacedBy = 0
                    ELSE next(c) \in Unrevoked
  BY DEF LostAnswerIsRecovered
<1>1. Recoverable(t(c))
  BY RestingCookie
<1> QED
  BY <1>1 DEF Recoverable

\* In every reachable state a session is one browser's, a browser whose tabs
\* are kept apart has one live request in it, and the replacement of the
\* token that the browser presents has been shown to nobody.
THEOREM RecoveryHolds == Spec => []RecoveryInv
<1>1. Init => RecoveryInv
  BY InitRecovery
<1>2. IInv /\ IInv' /\ RecoveryInv /\ [Next]_vars => RecoveryInv'
  BY NextRecovery
<1> QED
  BY <1>1, <1>2, InvariantHolds, PTL DEF Spec

\* "A client that never RECEIVED its rotation response ... still holds the
\* old token and would otherwise trigger the theft path on its next refresh"
\* (refresh-token.use-case.ts): a browser that sends one refresh after the
\* other finds, after any number of lost answers, the replacement of its
\* token unused within the grace, and is never taken for a thief after it.
THEOREM LostAnswersRecovered == Spec => []LostAnswerIsRecovered
<1>1. IInv /\ RecoveryInv => LostAnswerIsRecovered
  BY Recovered
<1> QED
  BY <1>1, InvariantHolds, RecoveryHolds, PTL
=============================================================================
