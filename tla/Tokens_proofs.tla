---------------------------- MODULE Tokens_proofs ----------------------------
(***************************************************************************)
(* Two consents never mix, and nobody is signed out by the plugin alone:   *)
(* for any number of requests, managers, consents and tokens.              *)
(***************************************************************************)
EXTENDS Tokens, TLAPS

AnyToken == [grant : Nat, n : Nat]
Keys     == [refresh : AnyToken, access : AnyToken]
Call     == [at : {"none", "sent", "ok", "denied"}, refresh : AnyToken, access : AnyToken]
State    == [refresh : AnyToken, access : AnyToken, failed : BOOLEAN, hooked : BOOLEAN,
             call : Call]
Sent     == [at : {"idle", "waiting", "api", "refused", "failed"}, mgr : Manager \cup {None},
             token : AnyToken, retried : BOOLEAN]

ConnectType == [at : {"no", "exchange", "rebind", "revoke"}, mgr : Manager \cup {None},
                nonce : BOOLEAN]

ServerState == [grants : Nat, refresh : Nat, access : Nat, spent : SUBSET AnyToken,
                over : SUBSET AnyToken, due : SUBSET AnyToken, withdrawn : SUBSET Nat]

TokenTypeOK ==
  /\ world \in Worlds
  /\ server \in ServerState
  /\ secrets \in Keys
  /\ mgr \in [Manager -> State]
  /\ slot \in Manager \cup {None} /\ fsAuth \in Manager \cup {None}
  /\ connect \in ConnectType
  /\ req \in [Request -> Sent]
  /\ events \in Nat

InUse(r) == req[r].at \in {"waiting", "api"}

(* A request under way has a manager, an exchange too. *)
Roles ==
  /\ \A r \in Request : InUse(r) => req[r].mgr \in Manager
  /\ connect.at = "exchange" => connect.mgr \in Manager
  /\ connect.at # "exchange" => connect.mgr = None
  /\ fsAuth # None => mgr[fsAuth].refresh # NoToken

(* A refresh is of the consent its manager holds, its answer too.          *)
Calls ==
  \A m \in Manager :
    LET c == mgr[m].call IN
    /\ c.at = "none" => c = NoCall
    /\ c.at # "none" => /\ c.refresh # NoToken /\ mgr[m].refresh # NoToken
                        /\ c.refresh.grant = mgr[m].refresh.grant
                        /\ \E r \in Request : req[r].at = "waiting" /\ req[r].mgr = m
    /\ c.at = "ok" => c.access # NoToken /\ c.access.grant = c.refresh.grant

(* Where nothing rotates the shared manager has what is stored, and a      *)
(* refresh goes out with, and comes back with, what its manager holds.     *)
Unrotated ==
  world.policy = "never" =>
    /\ slot # None => mgr[slot].refresh \in {NoToken, secrets.refresh}
    /\ \A m \in Manager : mgr[m].call # NoCall => mgr[m].call.refresh = mgr[m].refresh

(* Where tokens rotate whatever is in use is of the consent that is stored. *)
Bound(t) == secrets.refresh # NoToken /\ t.grant = secrets.refresh.grant
Binds(m) == mgr[m].refresh = NoToken \/ Bound(mgr[m].refresh)

Rotated ==
  world.policy # "never" =>
    /\ slot # None => Binds(slot)
    /\ fsAuth # None /\ ~Superseded => Binds(fsAuth)
    /\ \A r \in Request : InUse(r) => Binds(req[r].mgr)
    /\ \A m \in Manager : mgr[m].call # NoCall => Bound(mgr[m].call.refresh)

(* Both tokens are there, and of one consent; or neither. *)
Paired(s) == IF s.refresh = NoToken THEN s.access = NoToken
             ELSE s.access # NoToken /\ s.access.grant = s.refresh.grant

Pairs == Paired(secrets) /\ \A m \in Manager : Paired(mgr[m])

GrantInv == TokenTypeOK /\ Roles /\ Calls /\ Unrotated /\ Rotated /\ Pairs

(* The schedules in which two consents do mix: a reconnection that overlaps a *)
(* refresh, and one whose callback brings no refresh token.                *)
NoMixing == {"overlaps", "partial"} \cap Modes = {}
NoModes  == Modes = {}

-----------------------------------------------------------------------------
Gone(t) == t.grant \in server.withdrawn \cup {0}

(* Who is refused, or will be, was signed out by the provider. *)
Refusals ==
  /\ \A r \in Request : req[r].at = "refused" => Gone(req[r].token)
  /\ \A m \in Manager : mgr[m].failed => Gone(mgr[m].refresh)
  /\ \A m \in Manager : mgr[m].call.at = "denied" => Gone(mgr[m].refresh)

(* The server counts its tokens. *)
Numbered ==
  /\ \A a \in server.over : a.n <= server.access
  /\ \A t \in server.spent : t # NoToken /\ t.n <= server.refresh
  /\ secrets.refresh.n <= server.refresh /\ secrets.access.n <= server.access
  /\ \A m \in Manager :
       /\ mgr[m].refresh.n <= server.refresh /\ mgr[m].access.n <= server.access
       /\ mgr[m].call.refresh.n <= server.refresh
       /\ mgr[m].call.at = "ok" => mgr[m].call.access.n <= server.access

(* An answer under way brings an access token nobody has yet, so none that *)
(* was dropped; nor is one dropped while a request is sent again with it.  *)
Pending ==
  \A m \in Manager : mgr[m].call.at = "ok" =>
    /\ mgr[m].call.access \notin server.over /\ mgr[m].call.access # secrets.access
    /\ \A o \in Manager : mgr[o].access # mgr[m].call.access
    /\ \A o \in Manager \ {m} :
         mgr[o].call.at = "ok" => mgr[o].call.access # mgr[m].call.access

Retries ==
  \A r \in Request : req[r].at = "api" /\ req[r].retried => req[r].token \notin server.over

(* A strict server: only the live manager is used, and nobody presents what *)
(* was spent.                                                              *)
Unspent ==
  /\ ~Strict => server.spent = {}
  /\ Strict =>
       /\ \A r \in Request : InUse(r) => req[r].mgr = fsAuth
       /\ \A m \in Manager : LET c == mgr[m].call IN
            /\ c.at = "sent" => c.refresh = mgr[m].refresh
            /\ c.at = "ok" => c.refresh \notin server.spent
       /\ fsAuth # None /\ mgr[fsAuth].call.at # "ok" => mgr[fsAuth].refresh \notin server.spent
       /\ fsAuth = None => secrets.refresh \notin server.spent

SignedInv == Refusals /\ Numbered /\ Pending /\ Retries /\ Unspent
-----------------------------------------------------------------------------
(* Types. *)

LEMMA Bounds ==
  /\ Managers \in Nat \ {0} /\ MaxGrants \in Nat \ {0} /\ MaxRefresh \in Nat \ {0}
  /\ MaxAccess \in Nat \ {0} /\ MaxEnded \in Nat \ {0} /\ MaxEvents \in Nat \ {0}
  /\ None \notin Manager /\ 1 \in Manager
BY TokenBounds DEF Manager, None

LEMMA Constants ==
  /\ NoToken \in AnyToken /\ NoToken.grant = 0 /\ NoToken.n = 0
  /\ NoCall \in Call /\ NoCall.at = "none" /\ NoCall.refresh = NoToken
  /\ Blank \in State /\ Blank.refresh = NoToken /\ Blank.access = NoToken
  /\ Blank.call = NoCall /\ ~Blank.failed
  /\ Idle \in Sent /\ Idle.at = "idle"
BY DEF NoToken, AnyToken, NoCall, Call, Blank, State, Idle, Sent, None

LEMMA KeptFacts ==
  ASSUME NEW ms \in [Manager -> State], NEW used
  PROVE  /\ Kept(ms, used) \in [Manager -> State]
         /\ \A m \in Manager : \/ Kept(ms, used)[m] = ms[m]
                               \/ /\ Kept(ms, used)[m] = Blank
                                  /\ m \notin used /\ ms[m].call = NoCall
         /\ \A m \in Manager \cap used : Kept(ms, used)[m] = ms[m]
BY Constants DEF Kept

LEMMA SetFacts ==
  ASSUME NEW m \in State, NEW s \in Keys
  PROVE  /\ setTokens(m, s) \in State
         /\ setTokens(m, s).refresh = s.refresh /\ setTokens(m, s).access = s.access
         /\ setTokens(m, s).failed = FALSE /\ setTokens(m, s).call = m.call
BY DEF setTokens, State, Keys

LEMMA StoreFacts ==
  ASSUME NEW m \in State, NEW t \in AnyToken, NEW a \in AnyToken
  PROVE  LET w == storeTokenResponse(m, t, a) IN
         /\ w \in State
         /\ w.refresh = (IF t = NoToken THEN m.refresh ELSE t) /\ w.access = a
         /\ w.failed = FALSE /\ w.call = m.call
BY DEF storeTokenResponse, State

LEMMA FreshFacts ==
  ASSUME TokenTypeOK, Free # {}
  PROVE  /\ Fresh \in Manager /\ Fresh \notin {slot, fsAuth, connect.mgr}
         /\ mgr[Fresh].call = NoCall
         /\ \A r \in Request : req[r].mgr # Fresh
BY DEF Fresh, Free, Busy

LEMMA TypesInit == Init => TokenTypeOK
BY Constants, Bounds, TokenBounds
DEF Init, TokenTypeOK, ServerState, Keys, Idle, None, ConnectType

(* The requests after a shared refresh has ended. *)
LEMMA SettleFacts ==
  ASSUME TokenTypeOK, NEW m \in Manager, NEW at \in {"api", "refused", "failed"},
         NEW t \in AnyToken, Settle(m, [at |-> at, token |-> t])
  PROVE  /\ req' \in [Request -> Sent]
         /\ \A r \in Request :
              IF req[r].at = "waiting" /\ req[r].mgr = m
              THEN /\ req'[r].at = at /\ req'[r].token = t
                   /\ req'[r].mgr = m /\ req'[r].retried = req[r].retried
              ELSE req'[r] = req[r]
<1> SUFFICES ASSUME NEW r \in Request
             PROVE  /\ req'[r] \in Sent
                    /\ IF req[r].at = "waiting" /\ req[r].mgr = m
                       THEN /\ req'[r].at = at /\ req'[r].token = t
                            /\ req'[r].mgr = m /\ req'[r].retried = req[r].retried
                       ELSE req'[r] = req[r]
  BY DEF Settle
<1> DEFINE w == [req[r] EXCEPT !.at = at, !.token = t]
<1>1. req[r] \in Sent
  BY DEF TokenTypeOK
<1>2. w \in Sent /\ w.at = at /\ w.token = t /\ w.mgr = req[r].mgr /\ w.retried = req[r].retried
  BY <1>1 DEF Sent
<1>3. req'[r] = IF req[r].at = "waiting" /\ req[r].mgr = m THEN w ELSE req[r]
  BY DEF Settle
<1> HIDE DEF w
<1> QED
  BY <1>1, <1>2, <1>3

LEMMA SentCall ==
  ASSUME NEW t \in AnyToken
  PROVE  LET sent == [at |-> "sent", refresh |-> t, access |-> NoToken]
         IN  [NoCall EXCEPT !.at = "sent", !.refresh = t] = sent /\ sent \in Call
<1>1. [NoCall EXCEPT !.at = "sent"] = [at |-> "sent", refresh |-> NoToken, access |-> NoToken]
  BY DEF NoCall
<1>2. [[at |-> "sent", refresh |-> NoToken, access |-> NoToken] EXCEPT !.refresh = t]
      = [at |-> "sent", refresh |-> t, access |-> NoToken]
  OBVIOUS
<1> QED
  BY <1>1, <1>2, Constants DEF Call

(* The answer to getAccessToken. *)
LEMMA AccessFacts ==
  ASSUME TokenTypeOK, NEW r \in Request, NEW q \in Sent, q.mgr \in Manager,
         NEW force \in BOOLEAN, getAccessToken(r, q, force)
  PROVE  /\ req' \in [Request -> Sent] /\ mgr' \in [Manager -> State]
         /\ \A o \in Request \ {r} : req'[o] = req[o]
         /\ req'[r].mgr = q.mgr /\ req'[r].retried = q.retried
         /\ \/ /\ req'[r].at = "refused" /\ req'[r].token = mgr[q.mgr].refresh /\ mgr' = mgr
               /\ mgr[q.mgr].refresh = NoToken \/ mgr[q.mgr].failed
            \/ /\ req'[r].at = "api" /\ req'[r].token = mgr[q.mgr].access /\ mgr' = mgr
               /\ ~force
            \/ /\ req'[r].at = "waiting" /\ mgr[q.mgr].call # NoCall /\ mgr' = mgr
            \/ /\ req'[r].at = "waiting" /\ mgr[q.mgr].call = NoCall
               /\ mgr[q.mgr].refresh # NoToken
               /\ \A o \in Manager \ {q.mgr} : mgr'[o] = mgr[o]
               /\ mgr'[q.mgr] = [mgr[q.mgr] EXCEPT !.call = mgr'[q.mgr].call]
               /\ mgr'[q.mgr].call = [at |-> "sent", refresh |-> mgr[q.mgr].refresh,
                                      access |-> NoToken]
<1> DEFINE m == mgr[q.mgr]
           sent == [at |-> "sent", refresh |-> m.refresh, access |-> NoToken]
           refused == [q EXCEPT !.at = "refused", !.token = m.refresh]
           api == [q EXCEPT !.at = "api", !.token = m.access]
<1>0. m \in State /\ m.refresh \in AnyToken /\ m.access \in AnyToken /\ m.call \in Call
  BY DEF TokenTypeOK, State
<1>b. /\ [q EXCEPT !.at = "waiting"] \in Sent
      /\ [q EXCEPT !.at = "waiting"].at = "waiting"
      /\ [q EXCEPT !.at = "waiting"].mgr = q.mgr
      /\ [q EXCEPT !.at = "waiting"].retried = q.retried
  BY DEF Sent
<1>1. CASE Refuses(m, force)
  <2>1. req' = [req EXCEPT ![r] = refused] /\ mgr' = mgr
    BY <1>1 DEF getAccessToken
  <2>2. m.refresh = NoToken \/ m.failed
    BY <1>1 DEF Refuses
  <2>3. /\ refused \in Sent /\ refused.at = "refused" /\ refused.token = m.refresh
        /\ refused.mgr = q.mgr /\ refused.retried = q.retried
    BY <1>0 DEF Sent
  <2> QED
    <3> HIDE DEF refused
    <3> QED
      BY <1>0, <2>1, <2>2, <2>3 DEF TokenTypeOK
<1>2. CASE ~Refuses(m, force) /\ Reuses(m, force)
  <2>1. req' = [req EXCEPT ![r] = api] /\ mgr' = mgr /\ ~force
    BY <1>2 DEF getAccessToken, Reuses
  <2>3. /\ api \in Sent /\ api.at = "api" /\ api.token = m.access
        /\ api.mgr = q.mgr /\ api.retried = q.retried
    BY <1>0 DEF Sent
  <2> QED
    <3> HIDE DEF api
    <3> QED
      BY <1>0, <2>1, <2>3 DEF TokenTypeOK
<1>3. CASE ~Refuses(m, force) /\ ~Reuses(m, force)
  <2>1. m.refresh # NoToken
    BY <1>3 DEF Refuses, Reuses
  <2>2. /\ req' = [req EXCEPT ![r] = [q EXCEPT !.at = "waiting"]]
        /\ mgr' = IF m.call # NoCall THEN mgr
                  ELSE [mgr EXCEPT ![q.mgr].call =
                         [NoCall EXCEPT !.at = "sent", !.refresh = m.refresh]]
    BY <1>3 DEF getAccessToken
  <2>3. [NoCall EXCEPT !.at = "sent", !.refresh = m.refresh] = sent /\ sent \in Call
    BY <1>0, SentCall
  <2>4. CASE m.call # NoCall
    BY <1>b, <2>2, <2>4 DEF TokenTypeOK
  <2>5. CASE m.call = NoCall
    <3>1. mgr' = [mgr EXCEPT ![q.mgr] = [m EXCEPT !.call = sent]]
      BY <2>2, <2>3, <2>5
    <3>2. [m EXCEPT !.call = sent] \in State /\ [m EXCEPT !.call = sent].call = sent
      BY <1>0, <2>3 DEF State
    <3> HIDE DEF m, sent
    <3>3. /\ mgr' \in [Manager -> State] /\ \A o \in Manager \ {q.mgr} : mgr'[o] = mgr[o]
          /\ mgr'[q.mgr] = [m EXCEPT !.call = sent] /\ mgr'[q.mgr].call = sent
      BY <3>1, <3>2 DEF TokenTypeOK
    <3>4. req' \in [Request -> Sent] /\ req'[r] = [q EXCEPT !.at = "waiting"]
          /\ \A o \in Request \ {r} : req'[o] = req[o]
      BY <1>b, <2>2 DEF TokenTypeOK
    <3> QED
      BY <1>b, <2>1, <2>5, <3>3, <3>4 DEF m, sent
  <2> QED
    BY <2>4, <2>5
<1> QED
  BY <1>1, <1>2, <1>3

(* What a manager has besides the call under way. *)
Alike(m) == /\ mgr'[m].refresh = mgr[m].refresh /\ mgr'[m].access = mgr[m].access
            /\ mgr'[m].failed = mgr[m].failed

LEMMA CallChanges ==
  ASSUME TokenTypeOK, NEW m \in Manager, NEW c \in Call, mgr' = [mgr EXCEPT ![m].call = c]
  PROVE  /\ mgr' \in [Manager -> State] /\ mgr'[m].call = c /\ Alike(m)
         /\ \A o \in Manager \ {m} : mgr'[o] = mgr[o]
<1>1. mgr[m] \in State
  BY DEF TokenTypeOK
<1> DEFINE w == [mgr[m] EXCEPT !.call = c]
<1>2. /\ w \in State /\ w.call = c /\ w.refresh = mgr[m].refresh /\ w.access = mgr[m].access
      /\ w.failed = mgr[m].failed
  BY <1>1 DEF State
<1>3. mgr' = [mgr EXCEPT ![m] = w]
  OBVIOUS
<1> HIDE DEF w
<1> QED
  BY <1>2, <1>3 DEF TokenTypeOK, Alike

LEMMA IssueFacts ==
  ASSUME server \in ServerState, NEW t \in AnyToken, NEW a \in AnyToken,
         NEW used \in SUBSET AnyToken, Issue(t, a, used)
  PROVE  /\ server' \in ServerState
         /\ server'.access = a.n /\ server'.spent = server.spent \cup used
         /\ server'.over = server.over /\ server'.withdrawn = server.withdrawn
         /\ server'.refresh = IF t.n > server.refresh THEN t.n ELSE server.refresh
         /\ server'.refresh >= server.refresh
<1> DEFINE r == IF t.n > server.refresh THEN t.n ELSE server.refresh
<1>1. r \in Nat /\ a.n \in Nat /\ r >= server.refresh /\ server.refresh \in Nat
  BY DEF ServerState, AnyToken
<1>2. server' = [server EXCEPT !.refresh = r, !.access = a.n, !.spent = server.spent \cup used]
  BY DEF Issue, ServerState
<1> HIDE DEF r
<1>3. /\ server' \in ServerState
      /\ server'.access = a.n /\ server'.spent = server.spent \cup used
      /\ server'.over = server.over /\ server'.withdrawn = server.withdrawn
      /\ server'.refresh = r
  BY <1>1, <1>2 DEF ServerState
<1> QED
  BY <1>1, <1>3 DEF r

(* The server's answer. *)
LEMMA AnswerFacts ==
  ASSUME TokenTypeOK, NEW m \in Manager, ServerRefreshes(m)
  PROVE  LET t == mgr[m].call.refresh
             c == mgr'[m].call
         IN
         /\ mgr[m].call.at = "sent"
         /\ mgr' \in [Manager -> State] /\ Alike(m)
         /\ \A o \in Manager \ {m} : mgr'[o] = mgr[o]
         /\ server' \in ServerState
         /\ server'.over = server.over /\ server'.withdrawn = server.withdrawn
         /\ \/ c.at = "denied" /\ c.refresh = t /\ ~Honoured(t) /\ server' = server
            \/ /\ c.at = "ok" /\ Honoured(t)
               /\ c.access = [grant |-> t.grant, n |-> server.access + 1]
               /\ server'.access = server.access + 1
               /\ \/ /\ c.refresh = t /\ server'.spent = server.spent
                     /\ server'.refresh >= server.refresh
                  \/ /\ world.policy # "never"
                     /\ c.refresh = [grant |-> t.grant, n |-> server.refresh + 1]
                     /\ server'.refresh = server.refresh + 1
                     /\ server'.spent = server.spent \cup (IF Strict THEN {t} ELSE {})
<1> DEFINE c == mgr[m].call
           t == c.refresh
           a == [grant |-> t.grant, n |-> server.access + 1]
           next == [grant |-> t.grant, n |-> server.refresh + 1]
           answered(u) == [at |-> "ok", refresh |-> u, access |-> a]
<1>1. /\ c \in Call /\ server \in ServerState
  BY DEF TokenTypeOK, State
<1>3. /\ t \in AnyToken /\ t.n \in Nat /\ t.grant \in Nat /\ server.access \in Nat
      /\ server.refresh \in Nat /\ server.spent \in SUBSET AnyToken
  BY <1>1 DEF Call, AnyToken, ServerState
<1>a. a \in AnyToken /\ a.n = server.access + 1
  BY <1>3 DEF AnyToken
<1>n. next \in AnyToken /\ next.n = server.refresh + 1
  BY <1>3 DEF AnyToken
<1>2. c.at = "sent"
  BY DEF ServerRefreshes
<1>4. CASE ~Honoured(t) /\ mgr' = [mgr EXCEPT ![m].call.at = "denied"] /\ server' = server
  <2> DEFINE w == [c EXCEPT !.at = "denied"]
  <2>1. w \in Call /\ w.at = "denied" /\ w.refresh = t
    BY <1>1 DEF Call
  <2>2. mgr' = [mgr EXCEPT ![m].call = w]
    BY <1>4
  <2> HIDE DEF w
  <2> QED
    BY <1>1, <1>2, <1>4, <2>1, <2>2, CallChanges
<1>5. ASSUME NEW u \in AnyToken, mgr' = [mgr EXCEPT ![m].call = answered(u)]
      PROVE  /\ mgr' \in [Manager -> State] /\ Alike(m)
             /\ mgr'[m].call.at = "ok" /\ mgr'[m].call.refresh = u /\ mgr'[m].call.access = a
             /\ \A o \in Manager \ {m} : mgr'[o] = mgr[o]
  <2> HIDE DEF a
  <2>1. answered(u) \in Call /\ answered(u).at = "ok" /\ answered(u).refresh = u
        /\ answered(u).access = a
    BY <1>a DEF Call
  <2> HIDE DEF answered
  <2> QED
    BY <1>5, <2>1, CallChanges
<1>6. CASE /\ Honoured(t) /\ mgr' = [mgr EXCEPT ![m].call = answered(t)]
           /\ Issue(t, a, {})
  <2>1. /\ mgr' \in [Manager -> State] /\ Alike(m)
        /\ mgr'[m].call.at = "ok" /\ mgr'[m].call.refresh = t /\ mgr'[m].call.access = a
        /\ \A o \in Manager \ {m} : mgr'[o] = mgr[o]
    BY <1>3, <1>5, <1>6
  <2> HIDE DEF a, t, answered
  <2>2. Issue(t, a, {}) /\ {} \in SUBSET AnyToken
    BY <1>6
  <2>3. /\ server'.access = a.n /\ server'.refresh >= server.refresh
        /\ server'.spent = server.spent \cup {} /\ server'.over = server.over
        /\ server'.withdrawn = server.withdrawn /\ server' \in ServerState
    BY <1>1, <1>3, <1>a, <2>2, IssueFacts
  <2>4. server'.spent = server.spent
    BY <2>3
  <2> QED
    BY <1>2, <1>6, <1>a, <2>1, <2>3, <2>4 DEF a, t, c
<1>7. CASE /\ Honoured(t) /\ world.policy # "never"
           /\ mgr' = [mgr EXCEPT ![m].call = answered(next)]
           /\ Issue(next, a, IF Strict THEN {t} ELSE {})
  <2> DEFINE used == IF Strict THEN {t} ELSE {}
  <2>1. /\ mgr' \in [Manager -> State] /\ Alike(m)
        /\ mgr'[m].call.at = "ok" /\ mgr'[m].call.refresh = next /\ mgr'[m].call.access = a
        /\ \A o \in Manager \ {m} : mgr'[o] = mgr[o]
    BY <1>n, <1>5, <1>7
  <2>2. used \in SUBSET AnyToken
    BY <1>3
  <2> HIDE DEF used, a, next, answered, t
  <2>3. Issue(next, a, used)
    BY <1>7 DEF used
  <2>4. /\ server'.access = a.n /\ server'.spent = server.spent \cup used
        /\ server'.refresh = IF next.n > server.refresh THEN next.n ELSE server.refresh
        /\ server'.over = server.over
        /\ server'.withdrawn = server.withdrawn /\ server' \in ServerState
    BY <1>1, <1>a, <1>n, <2>2, <2>3, IssueFacts
  <2>5. server'.refresh = server.refresh + 1
    BY <1>3, <1>n, <2>4
  <2> QED
    BY <1>2, <1>7, <1>a, <2>1, <2>4, <2>5 DEF used, a, next, t, c
<1> QED
  BY <1>4, <1>6, <1>7 DEF ServerRefreshes

(* A refresh ends without a token. *)
LEMMA FailureFacts ==
  ASSUME TokenTypeOK, NEW m \in Manager, RefreshLost(m) \/ PublishFails(m) \/ RefreshDenied(m)
  PROVE  /\ mgr' \in [Manager -> State] /\ mgr'[m].call = NoCall /\ mgr[m].call.at # "none"
         /\ mgr'[m].refresh = mgr[m].refresh /\ mgr'[m].access = mgr[m].access
         /\ mgr'[m].failed # mgr[m].failed => mgr[m].call.at = "denied"
         /\ \A o \in Manager \ {m} : mgr'[o] = mgr[o]
         /\ req' \in [Request -> Sent]
         /\ \A r \in Request :
              \/ req'[r] = req[r] /\ ~(req[r].at = "waiting" /\ req[r].mgr = m)
              \/ /\ req'[r].at \in {"failed", "refused"}
                 /\ req'[r].at = "refused" => /\ mgr[m].call.at = "denied"
                                              /\ req'[r].token = mgr[m].refresh
         /\ UNCHANGED <<world, server, secrets, slot, fsAuth, connect, events>>
<1>1. mgr[m] \in State /\ mgr[m].refresh \in AnyToken
  BY DEF TokenTypeOK, State
<1>2. CASE RefreshLost(m) \/ PublishFails(m)
  <2>1. /\ mgr' = [mgr EXCEPT ![m].call = NoCall] /\ mgr[m].call.at # "none"
        /\ Settle(m, [at |-> "failed", token |-> NoToken])
        /\ UNCHANGED <<world, server, secrets, slot, fsAuth, connect, events>>
    BY <1>2 DEF RefreshLost, PublishFails
  <2>2. /\ mgr' \in [Manager -> State] /\ mgr'[m].call = NoCall /\ Alike(m)
        /\ \A o \in Manager \ {m} : mgr'[o] = mgr[o]
    BY <2>1, CallChanges, Constants
  <2>3. /\ req' \in [Request -> Sent]
        /\ \A r \in Request :
             \/ req'[r] = req[r] /\ ~(req[r].at = "waiting" /\ req[r].mgr = m)
             \/ req'[r].at = "failed"
    BY <2>1, SettleFacts, Constants
  <2> QED
    BY <2>1, <2>2, <2>3 DEF Alike
<1>3. CASE RefreshDenied(m)
  <2> DEFINE w == [mgr[m] EXCEPT !.call = NoCall, !.failed = TRUE]
  <2>1. /\ w \in State /\ w.call = NoCall /\ w.refresh = mgr[m].refresh
        /\ w.access = mgr[m].access
    BY <1>1, Constants DEF State
  <2>2. /\ mgr' = [mgr EXCEPT ![m] = w] /\ mgr[m].call.at = "denied"
        /\ Settle(m, [at |-> "refused", token |-> mgr[m].refresh])
        /\ UNCHANGED <<world, server, secrets, slot, fsAuth, connect, events>>
    BY <1>3 DEF RefreshDenied
  <2> HIDE DEF w
  <2>3. /\ req' \in [Request -> Sent]
        /\ \A r \in Request :
             \/ req'[r] = req[r] /\ ~(req[r].at = "waiting" /\ req[r].mgr = m)
             \/ req'[r].at = "refused" /\ req'[r].token = mgr[m].refresh
    BY <1>1, <2>2, SettleFacts
  <2> QED
    BY <2>1, <2>2, <2>3 DEF TokenTypeOK
<1> QED
  BY <1>2, <1>3

LEMMA SuccessFacts ==
  ASSUME TokenTypeOK, Calls, NEW m \in Manager, RefreshSucceeds(m)
  PROVE  LET c == mgr[m].call IN
         /\ c.at = "ok" /\ c \in Call
         /\ mgr' \in [Manager -> State] /\ mgr'[m].call = NoCall /\ mgr'[m].failed = FALSE
         /\ mgr'[m].refresh = c.refresh /\ mgr'[m].access = c.access
         /\ \A o \in Manager \ {m} : mgr'[o] = mgr[o]
         /\ req' \in [Request -> Sent]
         /\ \A r \in Request :
              IF req[r].at = "waiting" /\ req[r].mgr = m
              THEN /\ req'[r].at = "api" /\ req'[r].token = c.access
                   /\ req'[r].mgr = m /\ req'[r].retried = req[r].retried
              ELSE req'[r] = req[r]
         /\ secrets' \in Keys /\ secrets'.access = secrets.access
         /\ \/ secrets' = secrets
            \/ mgr[m].refresh # c.refresh /\ secrets'.refresh = c.refresh
         /\ UNCHANGED <<world, server, slot, fsAuth, connect, events>>
<1> DEFINE c == mgr[m].call
           v == storeTokenResponse(mgr[m], c.refresh, c.access)
           w == [v EXCEPT !.call = NoCall]
<1>1. mgr[m] \in State /\ c \in Call
  BY DEF TokenTypeOK, State
<1>2. c.refresh \in AnyToken /\ c.access \in AnyToken
  BY <1>1 DEF Call
<1>3. c.at = "ok" /\ c.refresh # NoToken
  BY DEF RefreshSucceeds, Calls
<1>4. v \in State /\ v.refresh = c.refresh /\ v.access = c.access /\ v.failed = FALSE
  <2> HIDE DEF c
  <2> QED
    BY <1>1, <1>2, <1>3 DEF storeTokenResponse, State
<1>5. /\ w \in State /\ w.call = NoCall /\ w.refresh = c.refresh /\ w.access = c.access
      /\ w.failed = FALSE
  <2> HIDE DEF v
  <2> QED
    BY <1>4, Constants DEF State
<1>6. mgr' = [mgr EXCEPT ![m] = w]
  BY DEF RefreshSucceeds
<1>7. /\ mgr' \in [Manager -> State] /\ mgr'[m] = w
      /\ \A o \in Manager \ {m} : mgr'[o] = mgr[o]
  <2> HIDE DEF w
  <2> QED
    BY <1>5, <1>6 DEF TokenTypeOK
<1>8. /\ req' \in [Request -> Sent]
      /\ \A r \in Request :
           IF req[r].at = "waiting" /\ req[r].mgr = m
           THEN /\ req'[r].at = "api" /\ req'[r].token = c.access
                /\ req'[r].mgr = m /\ req'[r].retried = req[r].retried
           ELSE req'[r] = req[r]
  BY <1>2, SettleFacts DEF RefreshSucceeds
<1>9. /\ secrets' \in Keys /\ secrets'.access = secrets.access
      /\ \/ secrets' = secrets
         \/ mgr[m].refresh # c.refresh /\ secrets'.refresh = c.refresh
  <2>1. secrets \in Keys
    BY DEF TokenTypeOK
  <2>2. CASE secrets' = secrets
    BY <2>1, <2>2
  <2>3. CASE secrets' = [secrets EXCEPT !.refresh = c.refresh] /\ mgr[m].refresh # c.refresh
    BY <1>2, <2>1, <2>3 DEF Keys
  <2> QED
    BY <2>2, <2>3 DEF RefreshSucceeds
<1>10. UNCHANGED <<world, server, slot, fsAuth, connect, events>>
  BY DEF RefreshSucceeds
<1> HIDE DEF w
<1> QED
  BY <1>1, <1>3, <1>5, <1>7, <1>8, <1>9, <1>10

(* A new consent, or none. *)
LEMMA ConsentFacts ==
  ASSUME TokenTypeOK, Roles, EndCompleteAuth
  PROVE  LET k == connect.mgr IN
         /\ connect.at = "exchange" /\ k \in Manager /\ Allowed("overlaps", ~Overlapped)
         /\ server' \in ServerState /\ server'.access = server.access + 1
         /\ server'.refresh >= server.refresh /\ server'.spent = server.spent
         /\ server'.over = server.over /\ server'.withdrawn = server.withdrawn
         /\ UNCHANGED <<world, fsAuth, req, events>>
         /\ connect' \in ConnectType /\ connect'.mgr = None
         /\ \/ connect'.at = "no" /\ UNCHANGED <<mgr, secrets, slot>>
            \/ \E t, a \in AnyToken :
                 /\ t # NoToken /\ a # NoToken /\ a.n = server.access + 1
                 /\ \/ t.n = server.refresh + 1 /\ server'.refresh = server.refresh + 1
                       /\ a.grant = t.grant
                    \/ t = secrets.refresh /\ Allowed("partial", secrets.refresh = NoToken)
                 /\ mgr' \in [Manager -> State]
                 /\ mgr'[k].refresh = t /\ mgr'[k].access = a /\ mgr'[k].failed = FALSE
                 /\ mgr'[k].call = mgr[k].call
                 /\ \A o \in Manager \ {k} : mgr'[o] = mgr[o]
                 /\ secrets' \in Keys /\ secrets'.refresh = t /\ secrets'.access = a
                 /\ slot' = k /\ connect'.at = "rebind"
<1> DEFINE k == connect.mgr
           g == server.grants + 1
           a == [grant |-> g, n |-> server.access + 1]
           new == [grant |-> g, n |-> server.refresh + 1]
           T(given) == IF given THEN new ELSE secrets.refresh
           R(given) == IF given THEN T(given).n ELSE server.refresh
<1>1. /\ connect.at = "exchange" /\ k \in Manager /\ Allowed("overlaps", ~Overlapped)
      /\ UNCHANGED <<world, fsAuth, req, events>>
  BY DEF EndCompleteAuth, Roles
<1>2. server \in ServerState /\ connect \in ConnectType /\ secrets \in Keys
      /\ secrets.refresh \in AnyToken /\ mgr[k] \in State
  BY <1>1 DEF TokenTypeOK, ConnectType, Keys
<1>3. g \in Nat /\ server.access \in Nat /\ server.refresh \in Nat /\ g # 0
  BY <1>2 DEF ServerState
<1>4. a \in AnyToken /\ new \in AnyToken /\ a.n = server.access + 1 /\ new.n = server.refresh + 1
      /\ a.grant = g /\ new.grant = g
  BY <1>3 DEF AnyToken
<1>5. a # NoToken /\ new # NoToken
  BY <1>3, <1>4, Constants
<1>6. PICK given \in BOOLEAN :
        LET t == T(given)
            m == storeTokenResponse(mgr[k], t, a)
        IN  /\ given \/ (world.code = "google" /\ Allowed("partial", secrets.refresh = NoToken))
            /\ server' = [server EXCEPT !.grants = g, !.access = a.n, !.refresh = R(given)]
            /\ IF t # NoToken
               THEN /\ mgr' = [mgr EXCEPT ![k] = m]
                    /\ secrets' = setBackendSecrets(m.refresh, m.access)
                    /\ slot' = k
                    /\ connect' = [at |-> "rebind", mgr |-> None, nonce |-> FALSE]
               ELSE /\ connect' = [connect EXCEPT !.at = "no", !.mgr = None]
                    /\ UNCHANGED <<mgr, secrets, slot>>
  BY DEF EndCompleteAuth
<1> DEFINE t == T(given)
           m == storeTokenResponse(mgr[k], t, a)
<1>7. /\ t \in AnyToken
      /\ \/ t = new /\ R(given) = server.refresh + 1 /\ R(given) \in Nat
         \/ t = secrets.refresh /\ R(given) = server.refresh
            /\ Allowed("partial", secrets.refresh = NoToken)
  BY <1>2, <1>3, <1>4, <1>6
<1>8. /\ server' \in ServerState /\ server'.access = server.access + 1
      /\ server'.refresh = R(given) /\ server'.spent = server.spent
      /\ server'.over = server.over /\ server'.withdrawn = server.withdrawn
      /\ server'.refresh >= server.refresh
  <2>1. server' = [server EXCEPT !.grants = g, !.access = a.n, !.refresh = R(given)]
        /\ R(given) \in Nat /\ R(given) >= server.refresh /\ a.n \in Nat
    BY <1>3, <1>4, <1>6, <1>7
  <2> DEFINE nr == R(given)
             na == a.n
  <2>2. server' = [server EXCEPT !.grants = g, !.access = na, !.refresh = nr]
        /\ nr \in Nat /\ nr >= server.refresh /\ na \in Nat
    BY <2>1
  <2> HIDE DEF nr, na, g
  <2>3. /\ server' \in ServerState /\ server'.access = na
        /\ server'.refresh = nr /\ server'.spent = server.spent
        /\ server'.over = server.over /\ server'.withdrawn = server.withdrawn
    BY <1>2, <1>3, <2>2 DEF ServerState
  <2> QED
    BY <1>4, <2>2, <2>3 DEF nr, na
<1>9. CASE t = NoToken
  <2>1. connect' = [connect EXCEPT !.at = "no", !.mgr = None] /\ UNCHANGED <<mgr, secrets, slot>>
    BY <1>6, <1>9
  <2>2. connect' \in ConnectType /\ connect'.mgr = None /\ connect'.at = "no"
    BY <1>2, <2>1 DEF ConnectType
  <2> QED
    BY <1>1, <1>8, <2>1, <2>2
<1>10. CASE t # NoToken
  <2>1. /\ mgr' = [mgr EXCEPT ![k] = m]
        /\ secrets' = setBackendSecrets(m.refresh, m.access)
        /\ slot' = k
        /\ connect' = [at |-> "rebind", mgr |-> None, nonce |-> FALSE]
    BY <1>6, <1>10
  <2>2. connect' \in ConnectType /\ connect'.mgr = None /\ connect'.at = "rebind"
    BY <2>1 DEF ConnectType
  <2>3. /\ m \in State /\ m.refresh = t /\ m.access = a /\ m.failed = FALSE
        /\ m.call = mgr[k].call
    <3> HIDE DEF t, a, k
    <3> QED
      BY <1>2, <1>4, <1>7, <1>10 DEF storeTokenResponse, State
  <2>4. secrets' \in Keys /\ secrets'.refresh = t /\ secrets'.access = a
    <3> HIDE DEF t, a, k, m
    <3>1. secrets' = setBackendSecrets(t, a)
      BY <2>1, <2>3
    <3> QED
      BY <1>4, <1>5, <1>7, <1>10, <3>1 DEF setBackendSecrets, Keys
  <2>5. /\ mgr' \in [Manager -> State] /\ mgr'[k] = m
        /\ \A o \in Manager \ {k} : mgr'[o] = mgr[o]
    <3> HIDE DEF m
    <3> QED
      BY <1>1, <2>1, <2>3 DEF TokenTypeOK
  <2>6. \/ t.n = server.refresh + 1 /\ server'.refresh = server.refresh + 1 /\ a.grant = t.grant
        \/ t = secrets.refresh /\ Allowed("partial", secrets.refresh = NoToken)
    BY <1>4, <1>7, <1>8
  <2> HIDE DEF t, a, m
  <2> QED
    BY <1>1, <1>4, <1>5, <1>7, <1>8, <1>10, <2>1, <2>2, <2>3, <2>4, <2>5, <2>6
<1> QED
  BY <1>9, <1>10

(* Managers are forgotten, none of which anybody uses; the others keep all *)
(* but, perhaps, the cooldown.                                             *)
Like(m) == /\ mgr'[m].refresh = mgr[m].refresh /\ mgr'[m].access = mgr[m].access
           /\ mgr'[m].call = mgr[m].call
           /\ mgr'[m].failed => mgr[m].failed

Fades ==
  /\ mgr' \in [Manager -> State]
  /\ \A m \in Manager : \/ Like(m)
                        \/ /\ mgr'[m] = Blank /\ mgr[m].call = NoCall /\ m # fsAuth'
                           /\ \A r \in Request : req'[r].mgr # m

LEMMA KeptFades ==
  ASSUME TokenTypeOK, NEW used, mgr' = Kept(mgr, used), fsAuth' \in used \cup {None},
         \A r \in Request : req'[r].mgr \in Manager => req'[r].mgr \in used
  PROVE  Fades
BY KeptFacts, Bounds DEF TokenTypeOK, Fades, Like

LEMMA EndsFades ==
  ASSUME TokenTypeOK, NEW r \in Request, Ends(r), UNCHANGED fsAuth
  PROVE  /\ Fades /\ req' \in [Request -> Sent] /\ req'[r] = Idle
         /\ \A o \in Request \ {r} : req'[o] = req[o]
<1>1. /\ req' \in [Request -> Sent] /\ req'[r] = Idle
      /\ \A o \in Request \ {r} : req'[o] = req[o]
  BY Constants DEF Ends, TokenTypeOK
<1>2. \A o \in Request : req'[o].mgr \in Manager =>
        req'[o].mgr \in Others(r) \cup {slot, fsAuth, connect.mgr}
  BY <1>1, Bounds DEF Others, Idle
<1>3. mgr' = Kept(mgr, Others(r) \cup {slot, fsAuth, connect.mgr})
  BY DEF Ends
<1> QED
  BY <1>1, <1>2, <1>3, KeptFades

LEMMA BusyRequests == \A r \in Request : req[r].mgr \in Manager => req[r].mgr \in Busy
BY DEF Busy

(* The file system is created, for a manager of the shared slot or a new one. *)
LEMMA CreateFacts ==
  ASSUME TokenTypeOK, createFs
  PROVE  \E m \in Manager :
         /\ slot' = m /\ fsAuth' = m /\ secrets.refresh # NoToken
         /\ slot # None => m = slot
         /\ slot = None => mgr[m].call = NoCall /\ \A r \in Request : req[r].mgr # m
         /\ mgr' \in [Manager -> State]
         /\ mgr'[m].refresh = secrets.refresh /\ mgr'[m].access = secrets.access
         /\ mgr'[m].failed = FALSE /\ mgr'[m].call = mgr[m].call
         /\ \A o \in Manager \ {m} :
              \/ mgr'[o] = mgr[o]
              \/ /\ mgr'[o] = Blank /\ mgr[o].call = NoCall
                 /\ \A r \in Request : req[r].mgr # o
<1> DEFINE m == IF slot # None THEN slot ELSE Fresh
           was == IF slot # None THEN mgr[slot] ELSE [Blank EXCEPT !.hooked = world.code = "google"]
           w == setTokens(was, secrets)
           ms == [mgr EXCEPT ![m] = w]
<1>1. /\ m \in Manager
      /\ slot # None => m = slot
      /\ slot = None => mgr[m].call = NoCall /\ \A r \in Request : req[r].mgr # m
  BY FreshFacts DEF createFs, TokenTypeOK
<1>2. was \in State /\ was.call = mgr[m].call
  <2>1. CASE slot # None
    BY <2>1 DEF TokenTypeOK
  <2>2. CASE slot = None
    <3> DEFINE hook == world.code = "google"
    <3>1. hook \in BOOLEAN /\ was = [Blank EXCEPT !.hooked = hook]
      BY <2>2
    <3> HIDE DEF hook, was
    <3> QED
      BY <1>1, <2>2, <3>1, Constants DEF State
  <2> QED
    BY <2>1, <2>2
<1>3. /\ w \in State /\ w.refresh = secrets.refresh /\ w.access = secrets.access
      /\ w.failed = FALSE /\ w.call = mgr[m].call
  <2> HIDE DEF was
  <2> QED
    BY <1>2 DEF setTokens, State, Keys, TokenTypeOK
<1>4. /\ ms \in [Manager -> State] /\ ms[m] = w
      /\ \A o \in Manager \ {m} : ms[o] = mgr[o]
  <2> HIDE DEF w, m
  <2> QED
    BY <1>1, <1>3 DEF TokenTypeOK
<1>5. mgr' = Kept(ms, Busy \cup {m}) /\ slot' = m /\ fsAuth' = m /\ secrets.refresh # NoToken
  BY DEF createFs
<1>6. /\ mgr' \in [Manager -> State] /\ mgr'[m] = w
      /\ \A o \in Manager \ {m} : \/ mgr'[o] = mgr[o]
                                  \/ mgr'[o] = Blank /\ mgr[o].call = NoCall /\ o \notin Busy
  <2> HIDE DEF ms, m, w
  <2> QED
    BY <1>1, <1>4, <1>5, KeptFacts
<1>7. \A o \in Manager : o \notin Busy => \A r \in Request : req[r].mgr # o
  BY BusyRequests
<1> HIDE DEF w, m, ms, was
<1> QED
  BY <1>1, <1>3, <1>5, <1>6, <1>7

LEMMA RestartFacts ==
  ASSUME TokenTypeOK, Restart
  PROVE  /\ req' = [r \in Request |-> Idle] /\ connect' \in ConnectType
         /\ connect'.at = "no" /\ connect'.mgr = None
         /\ mgr' \in [Manager -> State] /\ \A m \in Manager : mgr'[m].call = NoCall
         /\ slot' \in Manager \cup {None} /\ fsAuth' = slot'
         /\ slot' # None => /\ secrets.refresh # NoToken
                            /\ mgr'[slot'].refresh = secrets.refresh
                            /\ mgr'[slot'].access = secrets.access
                            /\ mgr'[slot'].failed = FALSE
         /\ slot' = None => secrets.refresh = NoToken
         /\ \A m \in Manager \ {slot'} : mgr'[m] = Blank
         /\ UNCHANGED <<world, server, secrets>> /\ events' \in Nat
         /\ Allowed("unsaved", ~Strict \/ Settled)
<1> DEFINE none == [m \in Manager |-> Blank]
           hook == world.code = "google"
           v == [Blank EXCEPT !.hooked = hook]
           w == setTokens(v, secrets)
<1>1. /\ req' = [r \in Request |-> Idle] /\ connect' \in ConnectType
      /\ connect'.at = "no" /\ connect'.mgr = None
      /\ UNCHANGED <<world, server, secrets>> /\ events' \in Nat
      /\ Allowed("unsaved", ~Strict \/ Settled)
  <2>1. connect \in ConnectType /\ events \in Nat
    BY DEF TokenTypeOK, ConnectType
  <2>2. /\ req' = [r \in Request |-> Idle] /\ UNCHANGED <<world, server, secrets>>
        /\ connect' = [connect EXCEPT !.at = "no", !.mgr = None] /\ events' = events + 1
        /\ Allowed("unsaved", ~Strict \/ Settled)
    BY DEF Restart
  <2>3. connect' \in ConnectType /\ connect'.at = "no" /\ connect'.mgr = None
    BY <2>1, <2>2 DEF ConnectType
  <2>4. events' \in Nat
    BY <2>1, <2>2
  <2> QED
    BY <2>2, <2>3, <2>4
<1>2. v \in State /\ v.call = NoCall
  <2> hook \in BOOLEAN
    OBVIOUS
  <2> HIDE DEF hook
  <2> QED
    BY Constants DEF State
<1>3. /\ w \in State /\ w.refresh = secrets.refresh /\ w.access = secrets.access
      /\ w.failed = FALSE /\ w.call = NoCall
  <2> HIDE DEF v
  <2> QED
    BY <1>2 DEF setTokens, State, Keys, TokenTypeOK
<1>4. CASE secrets.refresh # NoToken
  <2>1. mgr' = [none EXCEPT ![1] = w] /\ slot' = 1 /\ fsAuth' = 1
    BY <1>4 DEF Restart
  <2> HIDE DEF w
  <2>2. /\ mgr' \in [Manager -> State] /\ mgr'[1] = w
        /\ \A m \in Manager \ {1} : mgr'[m] = Blank
    BY <1>3, <2>1, Bounds, Constants
  <2> QED
    BY <1>1, <1>3, <1>4, <2>1, <2>2, Bounds, Constants
<1>5. CASE secrets.refresh = NoToken
  BY <1>1, <1>5, Constants, Bounds DEF Restart
<1> QED
  BY <1>4, <1>5

(* A read of the settings page. *)
LEMMA DetachedFacts ==
  ASSUME TokenTypeOK, NEW r \in Request, StartDetachedRead(r)
  PROVE  \E m \in Manager :
         /\ m \notin {slot, fsAuth} /\ mgr[m].call = NoCall
         /\ \A o \in Request : req[o].mgr # m
         /\ secrets.refresh # NoToken /\ Allowed("detached", ~Strict)
         /\ mgr' \in [Manager -> State]
         /\ mgr'[m].refresh = secrets.refresh /\ mgr'[m].access = secrets.access
         /\ mgr'[m].failed = FALSE
         /\ \A o \in Manager \ {m} : mgr'[o] = mgr[o]
         /\ req' \in [Request -> Sent] /\ req'[r].mgr = m /\ req'[r].retried = FALSE
         /\ \A o \in Request \ {r} : req'[o] = req[o]
         /\ \/ req'[r].at = "api" /\ mgr'[m].call = NoCall
            \/ /\ req'[r].at = "waiting"
               /\ mgr'[m].call = [at |-> "sent", refresh |-> secrets.refresh, access |-> NoToken]
<1> DEFINE v == setTokens(Blank, secrets)
           m == [v EXCEPT !.hooked = TRUE]
           q == [Idle EXCEPT !.mgr = Fresh]
           sent == [NoCall EXCEPT !.at = "sent", !.refresh = m.refresh]
           busy == [m EXCEPT !.call = sent]
           api == [q EXCEPT !.at = "api", !.token = m.access]
           waiting == [q EXCEPT !.at = "waiting"]
<1>1. /\ Fresh \in Manager /\ Fresh \notin {slot, fsAuth} /\ mgr[Fresh].call = NoCall
      /\ \A o \in Request : req[o].mgr # Fresh
      /\ secrets.refresh # NoToken /\ Allowed("detached", ~Strict)
  BY FreshFacts DEF StartDetachedRead
<1>2. secrets.refresh \in AnyToken /\ secrets.access \in AnyToken
  BY DEF TokenTypeOK, Keys
<1>3. /\ v \in State /\ v.refresh = secrets.refresh /\ v.access = secrets.access
      /\ v.failed = FALSE /\ v.call = NoCall
  BY Constants DEF setTokens, State, Keys, TokenTypeOK
<1>4. /\ m \in State /\ m.refresh = secrets.refresh /\ m.access = secrets.access
      /\ m.failed = FALSE /\ m.call = NoCall
  <2> HIDE DEF v
  <2> QED
    BY <1>3 DEF State
<1>5. sent = [at |-> "sent", refresh |-> secrets.refresh, access |-> NoToken] /\ sent \in Call
  <2> HIDE DEF m
  <2> QED
    BY <1>2, <1>4, SentCall
<1>6. /\ busy \in State /\ busy.refresh = secrets.refresh /\ busy.access = secrets.access
      /\ busy.failed = FALSE /\ busy.call = sent
  <2> HIDE DEF m, sent
  <2> QED
    BY <1>4, <1>5 DEF State
<1>7. q \in Sent /\ q.mgr = Fresh /\ q.retried = FALSE
  BY <1>1, Constants DEF Idle, Sent
<1>8. api \in Sent /\ api.mgr = Fresh /\ api.retried = FALSE /\ api.at = "api"
  <2> HIDE DEF q, m
  <2> QED
    BY <1>2, <1>4, <1>7 DEF Sent
<1>9. /\ waiting \in Sent /\ waiting.mgr = Fresh /\ waiting.retried = FALSE
      /\ waiting.at = "waiting"
  <2> HIDE DEF q
  <2> QED
    BY <1>7 DEF Sent
<1>10. \/ mgr' = [mgr EXCEPT ![Fresh] = m] /\ req' = [req EXCEPT ![r] = api]
       \/ mgr' = [mgr EXCEPT ![Fresh] = busy] /\ req' = [req EXCEPT ![r] = waiting]
  BY DEF StartDetachedRead
<1> HIDE DEF m, q, api, waiting, busy, sent
<1>11. CASE mgr' = [mgr EXCEPT ![Fresh] = m] /\ req' = [req EXCEPT ![r] = api]
  BY <1>1, <1>4, <1>8, <1>11 DEF TokenTypeOK
<1>12. CASE mgr' = [mgr EXCEPT ![Fresh] = busy] /\ req' = [req EXCEPT ![r] = waiting]
  BY <1>1, <1>5, <1>6, <1>9, <1>12 DEF TokenTypeOK
<1> QED
  BY <1>10, <1>11, <1>12
-----------------------------------------------------------------------------
(* One consent. *)

(* Steps that start no request and no refresh and store nothing. *)
Quietly ==
  /\ Fades /\ UNCHANGED <<world, secrets, fsAuth>>
  /\ req' \in [Request -> Sent]
  /\ \A r \in Request : \/ req'[r] = req[r]
                        \/ req[r].at # "waiting" /\ req'[r].at \notin {"waiting", "api"}
  /\ slot' \in Manager \cup {None}
  /\ slot' # slot /\ slot' # None => mgr'[slot'].refresh = NoToken
  /\ connect' \in ConnectType
  /\ connect'.at = "exchange" <=> connect'.mgr # None
  /\ Superseded => Superseded'

LEMMA QuietGrant ==
  ASSUME GrantInv, Quietly, server' \in ServerState, events' \in Nat
  PROVE  GrantInv'
<1> USE DEF GrantInv
<1>1. TokenTypeOK'
  BY DEF Quietly, Fades, TokenTypeOK
<1>2. Roles'
  BY DEF Quietly, Fades, Like, Roles, InUse, TokenTypeOK, ConnectType
<1>3. Calls'
  <2> SUFFICES ASSUME NEW m \in Manager
               PROVE  LET c == mgr'[m].call IN
                 /\ c.at = "none" => c = NoCall
                 /\ c.at # "none" => /\ c.refresh # NoToken /\ mgr'[m].refresh # NoToken
                                     /\ c.refresh.grant = mgr'[m].refresh.grant
                                     /\ \E r \in Request : req'[r].at = "waiting" /\ req'[r].mgr = m
                 /\ c.at = "ok" => c.access # NoToken /\ c.access.grant = c.refresh.grant
    BY DEF Calls
  <2>1. CASE Like(m)
    BY <2>1 DEF Quietly, Calls, Like
  <2>2. CASE mgr'[m] = Blank
    BY <2>2, Constants
  <2> QED
    BY <2>1, <2>2 DEF Quietly, Fades
<1>4. Unrotated'
  BY Constants DEF Quietly, Fades, Like, Unrotated, TokenTypeOK
<1>5. Rotated'
  BY Constants DEF Quietly, Fades, Like, Rotated, TokenTypeOK, Binds, Bound, InUse, Roles
<1>6. Pairs'
  BY Constants DEF Quietly, Fades, Like, Pairs, Paired
<1> QED
  BY <1>1, <1>2, <1>3, <1>4, <1>5, <1>6
LEMMA QuietSteps ==
  ASSUME GrantInv,
         \/ StartAuth \/ BeginCompleteAuth \/ CompleteAuthFails \/ Disconnect
         \/ \E m \in Manager : CooldownEnds(m)
         \/ \E r \in Request : RequestEnds(r)
         \/ \E a \in Token(MaxAccess) : AccessDue(a) \/ AccessEnds(a)
         \/ \E g \in 1..MaxGrants : Withdraw(g)
         \/ UNCHANGED vars
  PROVE  Quietly /\ server' \in ServerState /\ events' \in Nat
<1>0. /\ TokenTypeOK /\ Roles /\ connect \in ConnectType /\ events \in Nat
      /\ server \in ServerState /\ req \in [Request -> Sent] /\ slot \in Manager \cup {None}
  BY DEF GrantInv, TokenTypeOK
<1>s. ASSUME UNCHANGED <<mgr, fsAuth, req>> PROVE Fades
  BY <1>0, <1>s DEF Fades, Like, TokenTypeOK
<1>c. (connect.at = "exchange") <=> (connect.mgr # None)
  BY <1>0, Bounds DEF Roles
<1>b. ASSUME Fades, UNCHANGED <<world, secrets, slot, fsAuth, connect>>, req' \in [Request -> Sent],
             \A r \in Request :
               \/ req'[r] = req[r]
               \/ req[r].at # "waiting" /\ req'[r].at \notin {"waiting", "api"}
      PROVE  Quietly
  BY <1>0, <1>b, <1>c DEF Quietly, Superseded, TokenTypeOK
<1>q. ASSUME Fades, UNCHANGED <<world, secrets, fsAuth, req>>, connect.at # "rebind",
             slot' \in Manager \cup {None}, connect' \in ConnectType,
             slot' # slot /\ slot' # None => mgr'[slot'].refresh = NoToken,
             connect'.at = "exchange" <=> connect'.mgr # None
      PROVE  Quietly
  <2>1. Superseded => Superseded'
    BY <1>q DEF Superseded
  <2>2. req' \in [Request -> Sent] /\ \A r \in Request : req'[r] = req[r]
    BY <1>0, <1>q
  <2> QED
    BY <1>q, <2>1, <2>2 DEF Quietly
<1>u. ASSUME Fades, UNCHANGED <<world, secrets, slot, fsAuth, connect, req>>
      PROVE  Quietly
  <2>1. req' \in [Request -> Sent] /\ \A r \in Request : req'[r] = req[r]
    BY <1>0, <1>u
  <2> QED
    BY <1>b, <1>u, <2>1
<1>1. CASE StartAuth
  <2>1. /\ connect.at = "no" /\ connect' = [connect EXCEPT !.nonce = TRUE]
        /\ UNCHANGED <<world, server, secrets, fsAuth, req, events>>
    BY <1>1 DEF StartAuth
  <2>2. connect' \in ConnectType /\ connect'.at = "no" /\ connect'.mgr = connect.mgr
    BY <1>0, <2>1 DEF ConnectType
  <2>3. CASE UNCHANGED <<mgr, slot>>
    <3>1. Fades
      BY <1>s, <2>1, <2>3
    <3> QED
      BY <1>0, <1>q, <1>c, <2>1, <2>2, <2>3, <3>1
  <2>4. CASE Free # {} /\ slot' = Fresh /\ mgr' = Kept(mgr, Busy \cup {fsAuth})
    <3>1. Fades
      BY <1>0, <2>1, <2>4, KeptFades, BusyRequests
    <3>2. slot' \in Manager /\ mgr'[slot'] = Blank
      <4>1. /\ Fresh \in Manager /\ Fresh # fsAuth /\ mgr[Fresh].call = NoCall
            /\ \A r \in Request : req[r].mgr # Fresh
        BY <1>0, <2>4, FreshFacts
      <4>2. Fresh \notin Busy \cup {fsAuth}
        BY <4>1 DEF Busy
      <4> QED
        BY <2>4, <4>1, <4>2 DEF Kept
    <3> QED
      BY <1>0, <1>q, <1>c, <2>1, <2>2, <2>4, <3>1, <3>2, Constants
  <2> QED
    BY <1>1, <2>3, <2>4 DEF StartAuth
<1>2. CASE BeginCompleteAuth
  <2> DEFINE m == IF slot # None THEN slot ELSE Fresh
  <2>1. /\ connect.at = "no" /\ connect' = [connect EXCEPT !.at = "exchange", !.mgr = m]
        /\ mgr' = IF slot # None THEN mgr ELSE [mgr EXCEPT ![m] = Blank]
        /\ slot' \in {None, m}
        /\ slot = None => Free # {}
        /\ UNCHANGED <<world, server, secrets, fsAuth, req, events>>
    BY <1>2 DEF BeginCompleteAuth
  <2>2. m \in Manager
    BY <1>0, <1>2, FreshFacts DEF TokenTypeOK, BeginCompleteAuth
  <2>3. connect' \in ConnectType /\ connect'.at = "exchange" /\ connect'.mgr = m
    <3> HIDE DEF m
    <3> QED
      BY <1>0, <2>1, <2>2 DEF ConnectType
  <2>4. Fades /\ (slot' # slot /\ slot' # None => mgr'[slot'].refresh = NoToken)
    <3>1. CASE slot # None
      BY <1>2, <2>1, <1>s, <3>1 DEF BeginCompleteAuth
    <3>2. CASE slot = None
      <4>1. /\ Fresh \in Manager /\ Fresh # fsAuth /\ mgr[Fresh].call = NoCall
            /\ \A r \in Request : req[r].mgr # Fresh
        BY <1>0, <1>2, <3>2, FreshFacts DEF BeginCompleteAuth
      <4>2. mgr' = [mgr EXCEPT ![Fresh] = Blank] /\ slot' \in {None, Fresh}
            /\ UNCHANGED <<fsAuth, req>>
        BY <1>2, <3>2 DEF BeginCompleteAuth
      <4> QED
        BY <1>0, <4>1, <4>2, Constants DEF Fades, Like, TokenTypeOK
    <3> QED
      BY <3>1, <3>2
  <2>5. slot' \in Manager \cup {None}
    BY <1>2, <2>2 DEF BeginCompleteAuth
  <2> HIDE DEF m
  <2>6. /\ connect.at = "no" /\ UNCHANGED <<world, server, secrets, fsAuth, req, events>>
    BY <1>2 DEF BeginCompleteAuth
  <2> QED
    BY <1>0, <1>q, <2>2, <2>3, <2>4, <2>5, <2>6, Bounds
<1>3. CASE CompleteAuthFails
  <2>1. /\ connect.at = "exchange" /\ events' = events + 1
        /\ connect' = [connect EXCEPT !.at = "no", !.mgr = None]
        /\ mgr' = Kept(mgr, Busy \cup {slot, fsAuth})
        /\ UNCHANGED <<world, server, secrets, slot, fsAuth, req>>
    BY <1>3 DEF CompleteAuthFails
  <2>2. connect' \in ConnectType /\ connect'.at = "no" /\ connect'.mgr = None
    BY <1>0, <2>1 DEF ConnectType
  <2>3. Fades
    BY <1>0, <2>1, KeptFades, BusyRequests
  <2>4. events' \in Nat
    BY <1>0, <2>1
  <2> QED
    BY <1>0, <1>q, <2>1, <2>2, <2>3, <2>4
<1>4. CASE Disconnect
  <2>1. /\ connect.at = "no" /\ events' = events + 1
        /\ connect' = [connect EXCEPT !.at = "revoke"]
        /\ UNCHANGED <<world, secrets, mgr, slot, fsAuth, req>>
    BY <1>4 DEF Disconnect
  <2>2. connect' \in ConnectType /\ connect'.at = "revoke" /\ connect'.mgr = connect.mgr
    BY <1>0, <2>1 DEF ConnectType
  <2>3. events' \in Nat
    BY <1>0, <2>1
  <2>4. server' \in ServerState
    <3>1. CASE UNCHANGED server
      BY <1>0, <3>1
    <3>2. CASE \E t \in AnyToken : server' = [server EXCEPT !.withdrawn = @ \cup {t.grant}]
      BY <1>0, <3>2 DEF ServerState, AnyToken
    <3> DEFINE t == IF slot # None THEN mgr[slot].refresh ELSE secrets.refresh
    <3>3. t \in AnyToken
      BY <1>0 DEF TokenTypeOK, Keys, State
    <3> QED
      BY <1>4, <3>1, <3>2, <3>3 DEF Disconnect
  <2> QED
    BY <1>0, <1>q, <1>s, <1>c, <2>1, <2>2, <2>3, <2>4
<1>5. ASSUME NEW m \in Manager, CooldownEnds(m)
      PROVE  Quietly /\ server' \in ServerState /\ events' \in Nat
  <2> DEFINE w == [mgr[m] EXCEPT !.failed = FALSE]
  <2>1. /\ mgr' = [mgr EXCEPT ![m] = w]
        /\ UNCHANGED <<world, server, secrets, slot, fsAuth, connect, req, events>>
    BY <1>5 DEF CooldownEnds
  <2>2. /\ w \in State /\ w.refresh = mgr[m].refresh /\ w.access = mgr[m].access
        /\ w.call = mgr[m].call /\ w.failed = FALSE
    BY <1>0 DEF State, TokenTypeOK
  <2>3. Fades
    <3> HIDE DEF w
    <3> QED
      BY <1>0, <2>1, <2>2 DEF Fades, Like, TokenTypeOK
  <2> HIDE DEF w
  <2> QED
    BY <1>0, <1>u, <2>1, <2>3
<1>6. ASSUME NEW r \in Request, RequestEnds(r)
      PROVE  Quietly /\ server' \in ServerState /\ events' \in Nat
  <2>1. /\ req[r].at \in {"refused", "failed"} /\ Ends(r)
        /\ UNCHANGED <<world, server, secrets, slot, fsAuth, connect, events>>
    BY <1>6 DEF RequestEnds
  <2> QED
    <3>1. Fades /\ req' \in [Request -> Sent]
      BY <1>0, <2>1, EndsFades
    <3>2. \A o \in Request :
             \/ req'[o] = req[o]
             \/ req[o].at # "waiting" /\ req'[o].at \notin {"waiting", "api"}
      BY <1>0, <2>1, EndsFades, Constants
    <3> QED
      BY <1>0, <1>b, <2>1, <3>1, <3>2
<1>7. ASSUME NEW a \in Token(MaxAccess), AccessDue(a) \/ AccessEnds(a)
      PROVE  Quietly /\ server' \in ServerState /\ events' \in Nat
  <2>1. /\ \/ server' = [server EXCEPT !.due = @ \cup {a}]
           \/ server' = [server EXCEPT !.over = @ \cup {a}]
        /\ UNCHANGED <<world, secrets, mgr, slot, fsAuth, connect, req, events>>
    BY <1>7 DEF AccessDue, AccessEnds
  <2>2. a \in AnyToken
    BY Bounds DEF Token, AnyToken
  <2>3. server' \in ServerState
    BY <1>0, <2>1, <2>2 DEF ServerState
  <2> QED
    BY <1>0, <1>s, <1>u, <2>1, <2>3
<1>8. ASSUME NEW g \in 1..MaxGrants, Withdraw(g)
      PROVE  Quietly /\ server' \in ServerState /\ events' \in Nat
  <2>1. /\ server' = [server EXCEPT !.withdrawn = @ \cup {g}] /\ events' = events + 1
        /\ UNCHANGED <<world, secrets, mgr, slot, fsAuth, connect, req>>
    BY <1>8 DEF Withdraw
  <2>2. server' \in ServerState
    BY <1>0, <2>1, Bounds DEF ServerState
  <2>3. events' \in Nat
    BY <1>0, <2>1
  <2> QED
    BY <1>0, <1>s, <1>u, <2>1, <2>2, <2>3
<1>9. CASE UNCHANGED vars
  BY <1>0, <1>s, <1>u, <1>9 DEF vars
<1> QED
  BY <1>1, <1>2, <1>3, <1>4, <1>5, <1>6, <1>7, <1>8, <1>9
LEMMA ConsentGrant ==
  ASSUME GrantInv, NoMixing, EndCompleteAuth
  PROVE  GrantInv'
<1> DEFINE k == connect.mgr
<1>1. /\ connect.at = "exchange" /\ k \in Manager /\ ~Overlapped
      /\ server' \in ServerState /\ UNCHANGED <<world, fsAuth, req, events>>
      /\ connect' \in ConnectType /\ connect'.mgr = None
  BY ConsentFacts DEF GrantInv, Allowed, NoMixing
<1>2. TokenTypeOK /\ Roles /\ Calls /\ Pairs
  BY DEF GrantInv
<1>3. mgr[k].call = NoCall
  BY <1>1, Bounds DEF Overlapped
<1>4. world.policy # "never" => /\ \A r \in Request : ~InUse(r)
                                /\ \A m \in Manager : mgr[m].call = NoCall
  BY <1>1 DEF Overlapped, UnderWay, InUse
<1>5. CASE connect'.at = "no" /\ UNCHANGED <<mgr, secrets, slot>>
  <2>1. Fades /\ req' \in [Request -> Sent] /\ slot' \in Manager \cup {None} /\ events' \in Nat
    BY <1>1, <1>2, <1>5 DEF Fades, Like, TokenTypeOK
  <2>2. Superseded => Superseded'
    BY <1>1 DEF Superseded
  <2>3. Quietly
    BY <1>1, <1>5, <2>1, <2>2 DEF Quietly
  <2> QED
    BY <1>1, <2>1, <2>3, QuietGrant
<1>6. ASSUME NEW t \in AnyToken, NEW a \in AnyToken, t # NoToken, a # NoToken,
             a.grant = t.grant, mgr' \in [Manager -> State],
             mgr'[k].refresh = t, mgr'[k].access = a, mgr'[k].call = mgr[k].call,
             \A o \in Manager \ {k} : mgr'[o] = mgr[o],
             secrets' \in Keys, secrets'.refresh = t, secrets'.access = a,
             slot' = k, connect'.at = "rebind"
      PROVE  GrantInv'
  <2>1. TokenTypeOK'
    BY <1>1, <1>2, <1>6 DEF TokenTypeOK
  <2>2. Roles'
    BY <1>1, <1>2, <1>6 DEF Roles, InUse, TokenTypeOK
  <2>3. Calls'
    BY <1>1, <1>2, <1>3, <1>6, Constants DEF Calls
  <2>4. Unrotated'
    BY <1>1, <1>3, <1>6 DEF Unrotated, GrantInv
  <2>5. Rotated'
    BY <1>1, <1>3, <1>4, <1>6 DEF Rotated, InUse, Superseded, Binds, Bound
  <2>6. Pairs'
    BY <1>2, <1>6 DEF Pairs, Paired
  <2> QED
    BY <2>1, <2>2, <2>3, <2>4, <2>5, <2>6 DEF GrantInv
<1>7. \/ connect'.at = "no" /\ UNCHANGED <<mgr, secrets, slot>>
      \/ \E t, a \in AnyToken :
           /\ t # NoToken /\ a # NoToken
           /\ \/ a.grant = t.grant
              \/ t = secrets.refresh /\ Allowed("partial", secrets.refresh = NoToken)
           /\ mgr' \in [Manager -> State]
           /\ mgr'[k].refresh = t /\ mgr'[k].access = a
           /\ mgr'[k].call = mgr[k].call
           /\ \A o \in Manager \ {k} : mgr'[o] = mgr[o]
           /\ secrets' \in Keys /\ secrets'.refresh = t /\ secrets'.access = a
           /\ slot' = k /\ connect'.at = "rebind"
  BY <1>2, ConsentFacts
<1>8. \A t \in AnyToken : t # NoToken =>
        ~(t = secrets.refresh /\ Allowed("partial", secrets.refresh = NoToken))
  BY DEF Allowed, NoMixing
<1> QED
  BY <1>5, <1>6, <1>7, <1>8

LEMMA RebindGrant ==
  ASSUME GrantInv, Rebind
  PROVE  GrantInv'
<1>1. /\ TokenTypeOK /\ Roles /\ Calls /\ Unrotated /\ Rotated /\ Pairs /\ createFs
      /\ UNCHANGED <<world, server, secrets, req>>
      /\ connect' = [connect EXCEPT !.at = "no"] /\ connect.at # "exchange"
  BY DEF GrantInv, Rebind
<1>2. connect' \in ConnectType /\ connect'.at = "no" /\ connect'.mgr = None
  BY <1>1 DEF TokenTypeOK, ConnectType, Roles
<1>3. events' \in Nat
  <2>1. events \in Nat
    BY <1>1 DEF TokenTypeOK
  <2> QED
    BY <2>1 DEF Rebind
<1>4. PICK m \in Manager :
         /\ slot' = m /\ fsAuth' = m /\ secrets.refresh # NoToken
         /\ slot # None => m = slot
         /\ slot = None => mgr[m].call = NoCall /\ \A r \in Request : req[r].mgr # m
         /\ mgr' \in [Manager -> State]
         /\ mgr'[m].refresh = secrets.refresh /\ mgr'[m].access = secrets.access
         /\ mgr'[m].failed = FALSE /\ mgr'[m].call = mgr[m].call
         /\ \A o \in Manager \ {m} :
              \/ mgr'[o] = mgr[o]
              \/ /\ mgr'[o] = Blank /\ mgr[o].call = NoCall
                 /\ \A r \in Request : req[r].mgr # o
  BY <1>1, CreateFacts
<1>5. TokenTypeOK'
  BY <1>1, <1>2, <1>3, <1>4 DEF TokenTypeOK
<1>6. Roles'
  BY <1>1, <1>2, <1>4 DEF Roles, InUse
<1>7. mgr[m].call # NoCall => secrets.refresh.grant = mgr[m].call.refresh.grant
  BY <1>1, <1>4 DEF Calls, Unrotated, Rotated, Bound
<1>8. Calls'
  <2> SUFFICES ASSUME NEW o \in Manager
               PROVE  LET c == mgr'[o].call IN
                 /\ c.at = "none" => c = NoCall
                 /\ c.at # "none" => /\ c.refresh # NoToken /\ mgr'[o].refresh # NoToken
                                     /\ c.refresh.grant = mgr'[o].refresh.grant
                                     /\ \E r \in Request : req'[r].at = "waiting" /\ req'[r].mgr = o
                 /\ c.at = "ok" => c.access # NoToken /\ c.access.grant = c.refresh.grant
    BY DEF Calls
  <2>1. CASE o = m
    BY <1>1, <1>4, <1>7, <2>1, Constants DEF Calls
  <2>2. CASE mgr'[o] = mgr[o]
    BY <1>1, <2>2 DEF Calls
  <2>3. CASE mgr'[o] = Blank
    BY <2>3, Constants
  <2> QED
    BY <1>4, <2>1, <2>2, <2>3
<1>9. Unrotated'
  BY <1>1, <1>4, <1>7, Constants DEF Unrotated, Calls
<1>10. Rotated'
  BY <1>1, <1>2, <1>4, Constants DEF Rotated, InUse, Superseded, Binds, Bound, Roles
<1>11. Pairs'
  BY <1>1, <1>4, Constants DEF Pairs, Paired
<1> QED
  BY <1>5, <1>6, <1>8, <1>9, <1>10, <1>11 DEF GrantInv
LEMMA DisconnectGrant ==
  ASSUME GrantInv, NoMixing, EndDisconnect
  PROVE  GrantInv'
<1>1. /\ TokenTypeOK /\ Roles /\ Calls /\ Unrotated /\ Rotated /\ Pairs
      /\ connect.at = "revoke" /\ slot' = None /\ fsAuth' = None /\ ~Overlapped
      /\ secrets' = [refresh |-> NoToken, access |-> NoToken]
      /\ connect' = [at |-> "no", mgr |-> None, nonce |-> FALSE]
      /\ mgr' = Kept(mgr, Busy)
      /\ UNCHANGED <<world, server, req, events>>
  BY DEF GrantInv, EndDisconnect, Allowed, NoMixing
<1>2. Fades
  BY <1>1, KeptFades, BusyRequests
<1>3. connect' \in ConnectType /\ secrets' \in Keys
  BY <1>1, Constants DEF ConnectType, Keys
<1>4. TokenTypeOK'
  BY <1>1, <1>2, <1>3 DEF TokenTypeOK, Fades
<1>5. Roles'
  BY <1>1 DEF Roles, InUse
<1>6. Calls'
  <2> SUFFICES ASSUME NEW m \in Manager
               PROVE  LET c == mgr'[m].call IN
                 /\ c.at = "none" => c = NoCall
                 /\ c.at # "none" => /\ c.refresh # NoToken /\ mgr'[m].refresh # NoToken
                                     /\ c.refresh.grant = mgr'[m].refresh.grant
                                     /\ \E r \in Request : req'[r].at = "waiting" /\ req'[r].mgr = m
                 /\ c.at = "ok" => c.access # NoToken /\ c.access.grant = c.refresh.grant
    BY DEF Calls
  <2>1. CASE Like(m)
    BY <1>1, <2>1 DEF Calls, Like
  <2>2. CASE mgr'[m] = Blank
    BY <2>2, Constants
  <2> QED
    BY <1>2, <2>1, <2>2 DEF Fades
<1>7. Unrotated'
  BY <1>1, <1>2, Constants DEF Unrotated, Fades, Like
<1>8. Rotated'
  BY <1>1, <1>2, Constants DEF Rotated, Overlapped, UnderWay, InUse, Fades, Like
<1>9. Pairs'
  BY <1>1, <1>2, Constants DEF Pairs, Paired, Fades, Like
<1> QED
  BY <1>4, <1>5, <1>6, <1>7, <1>8, <1>9 DEF GrantInv

LEMMA RestartGrant ==
  ASSUME GrantInv, Restart
  PROVE  GrantInv'
<1>1. /\ TokenTypeOK /\ Pairs
      /\ req' = [r \in Request |-> Idle] /\ connect' \in ConnectType
      /\ connect'.at = "no" /\ connect'.mgr = None
      /\ mgr' \in [Manager -> State] /\ \A m \in Manager : mgr'[m].call = NoCall
      /\ slot' \in Manager \cup {None} /\ fsAuth' = slot'
      /\ slot' # None => /\ secrets.refresh # NoToken
                         /\ mgr'[slot'].refresh = secrets.refresh
                         /\ mgr'[slot'].access = secrets.access
      /\ \A m \in Manager \ {slot'} : mgr'[m] = Blank
      /\ UNCHANGED <<world, server, secrets>> /\ events' \in Nat
  BY RestartFacts DEF GrantInv
<1>2. req' \in [Request -> Sent] /\ \A r \in Request : req'[r].at = "idle"
  BY <1>1, Constants
<1>3. TokenTypeOK'
  BY <1>1, <1>2 DEF TokenTypeOK
<1>4. Roles'
  BY <1>1, <1>2 DEF Roles, InUse
<1>5. Calls' /\ Unrotated'
  BY <1>1, Constants DEF Calls, Unrotated
<1>6. Rotated'
  BY <1>1, <1>2, Constants DEF Rotated, InUse, Binds, Bound
<1>7. Pairs'
  <2>1. ASSUME NEW m \in Manager PROVE Paired(mgr'[m])
    <3>1. CASE m = slot'
      BY <1>1, <3>1, Bounds DEF Pairs, Paired
    <3>2. CASE m # slot'
      BY <1>1, <3>2, Constants DEF Paired
    <3> QED
      BY <3>1, <3>2
  <2> QED
    BY <1>1, <2>1 DEF Pairs
<1> QED
  BY <1>3, <1>4, <1>5, <1>6, <1>7 DEF GrantInv

LEMMA SaveGrant ==
  ASSUME GrantInv, SaveBackendState
  PROVE  GrantInv'
<1>1. /\ TokenTypeOK /\ Roles /\ Calls /\ Unrotated /\ Rotated /\ Pairs
      /\ slot # None /\ connect.at = "no"
      /\ secrets' = setBackendSecrets(mgr[slot].refresh, mgr[slot].access)
      /\ UNCHANGED <<world, server, mgr, slot, fsAuth, connect, req, events>>
  BY DEF GrantInv, SaveBackendState
<1>2. /\ slot \in Manager /\ mgr[slot] \in State /\ secrets \in Keys
      /\ mgr[slot].refresh \in AnyToken /\ mgr[slot].access \in AnyToken
  BY <1>1 DEF TokenTypeOK, State
<1>3. /\ secrets' \in Keys
      /\ \/ secrets' = secrets
         \/ /\ mgr[slot].refresh # NoToken
            /\ secrets'.refresh = mgr[slot].refresh /\ secrets'.access = mgr[slot].access
  <2>1. CASE mgr[slot].refresh = NoToken
    BY <1>1, <1>2, <2>1 DEF Pairs, Paired, setBackendSecrets, Keys
  <2>2. CASE mgr[slot].refresh # NoToken
    BY <1>1, <1>2, <2>2 DEF Pairs, Paired, setBackendSecrets, Keys
  <2> QED
    BY <2>1, <2>2
<1>4. TokenTypeOK'
  BY <1>1, <1>3 DEF TokenTypeOK
<1>5. Roles' /\ Calls'
  BY <1>1 DEF Roles, Calls, InUse
<1>6. Unrotated'
  BY <1>1, <1>3 DEF Unrotated
<1>7. Rotated'
  BY <1>1, <1>3 DEF Rotated, Binds, Bound, InUse, Superseded
<1>8. Pairs'
  BY <1>1, <1>2, <1>3 DEF Pairs, Paired
<1> QED
  BY <1>4, <1>5, <1>6, <1>7, <1>8 DEF GrantInv
LEMMA AnswerGrant ==
  ASSUME GrantInv, NEW m \in Manager, ServerRefreshes(m)
  PROVE  GrantInv'
<1> DEFINE t == mgr[m].call.refresh
           c == mgr'[m].call
<1>1. /\ TokenTypeOK /\ Roles /\ Calls /\ Unrotated /\ Rotated /\ Pairs
      /\ UNCHANGED <<world, secrets, slot, fsAuth, connect, req, events>>
  BY DEF GrantInv, ServerRefreshes
<1>2. /\ mgr[m].call.at = "sent" /\ mgr' \in [Manager -> State] /\ Alike(m)
      /\ \A o \in Manager \ {m} : mgr'[o] = mgr[o]
      /\ server' \in ServerState
      /\ \/ c.at = "denied" /\ c.refresh = t
         \/ /\ c.at = "ok" /\ Honoured(t)
            /\ c.access = [grant |-> t.grant, n |-> server.access + 1]
            /\ \/ c.refresh = t
               \/ /\ world.policy # "never"
                  /\ c.refresh = [grant |-> t.grant, n |-> server.refresh + 1]
  BY <1>1, AnswerFacts
<1>3. /\ t # NoToken /\ t.grant = mgr[m].refresh.grant /\ mgr[m].refresh # NoToken
      /\ \E r \in Request : req[r].at = "waiting" /\ req[r].mgr = m
  BY <1>1, <1>2 DEF Calls
<1>4. /\ server.access + 1 # 0 /\ server.refresh + 1 # 0
  BY <1>1 DEF TokenTypeOK, ServerState
<1>5. /\ c.refresh.grant = t.grant /\ c.refresh # NoToken
      /\ c.refresh = t \/ world.policy # "never"
      /\ c.at \in {"denied", "ok"}
      /\ c.at = "ok" => c.access # NoToken /\ c.access.grant = t.grant
  BY <1>2, <1>3, <1>4, Constants
<1>6. mgr'[m].refresh = mgr[m].refresh /\ mgr'[m].access = mgr[m].access
  BY <1>2 DEF Alike
<1>o. slot \in Manager \cup {None} /\ fsAuth \in Manager \cup {None}
  BY <1>1 DEF TokenTypeOK
<1>p. \A r \in Request : InUse(r) => req[r].mgr \in Manager
  BY <1>1 DEF Roles
<1>q. \A o \in Manager : mgr'[o].refresh = mgr[o].refresh
  BY <1>2, <1>6
<1>7. TokenTypeOK'
  BY <1>1, <1>2 DEF TokenTypeOK
<1> HIDE DEF c, t
<1>8. Roles'
  BY <1>1, <1>2, <1>6 DEF Roles, InUse, TokenTypeOK
<1>9. Calls'
  BY <1>1, <1>2, <1>3, <1>5, <1>6 DEF Calls, c
<1>10. Unrotated'
  BY <1>1, <1>2, <1>5, <1>o, <1>q, Constants DEF Unrotated, c, t
<1>11. Rotated'
  BY <1>1, <1>2, <1>5, <1>o, <1>p, <1>q, Constants DEF Rotated, InUse, Superseded, Binds, Bound, c, t
<1>12. Pairs'
  BY <1>1, <1>2, <1>6 DEF Pairs, Paired
<1> QED
  BY <1>7, <1>8, <1>9, <1>10, <1>11, <1>12 DEF GrantInv

LEMMA FailureGrant ==
  ASSUME GrantInv, NEW m \in Manager, RefreshLost(m) \/ PublishFails(m) \/ RefreshDenied(m)
  PROVE  GrantInv'
<1>1. /\ TokenTypeOK /\ Roles /\ Calls /\ Unrotated /\ Rotated /\ Pairs
  BY DEF GrantInv
<1>2. /\ mgr' \in [Manager -> State] /\ mgr'[m].call = NoCall
      /\ mgr'[m].refresh = mgr[m].refresh /\ mgr'[m].access = mgr[m].access
      /\ \A o \in Manager \ {m} : mgr'[o] = mgr[o]
      /\ req' \in [Request -> Sent]
      /\ \A r \in Request :
           \/ req'[r] = req[r] /\ ~(req[r].at = "waiting" /\ req[r].mgr = m)
           \/ req'[r].at \in {"failed", "refused"} 
      /\ UNCHANGED <<world, server, secrets, slot, fsAuth, connect, events>>
  BY <1>1, FailureFacts
<1>w. \A r \in Request : req[r].at = "waiting" /\ req[r].mgr # m => req'[r] = req[r]
  BY <1>1 DEF RefreshLost, PublishFails, RefreshDenied, Settle
<1>o. slot \in Manager \cup {None} /\ fsAuth \in Manager \cup {None}
  BY <1>1 DEF TokenTypeOK
<1>p. \A r \in Request : InUse(r) => req[r].mgr \in Manager
  BY <1>1 DEF Roles
<1>q. \A o \in Manager : mgr'[o].refresh = mgr[o].refresh
  BY <1>2
<1>3. TokenTypeOK'
  BY <1>1, <1>2 DEF TokenTypeOK
<1>4. Roles'
  BY <1>1, <1>2 DEF Roles, InUse, TokenTypeOK
<1>5. Calls'
  BY <1>1, <1>2, <1>w, Constants DEF Calls
<1>6. Unrotated'
  BY <1>1, <1>2, <1>o, <1>q DEF Unrotated
<1>7. Rotated'
  BY <1>1, <1>2, <1>o, <1>p, <1>q DEF Rotated, InUse, Superseded, Binds, Bound
<1>8. Pairs'
  BY <1>1, <1>2 DEF Pairs, Paired
<1> QED
  BY <1>3, <1>4, <1>5, <1>6, <1>7, <1>8 DEF GrantInv

LEMMA SuccessGrant ==
  ASSUME GrantInv, NEW m \in Manager, RefreshSucceeds(m)
  PROVE  GrantInv'
<1> DEFINE c == mgr[m].call
<1>1. /\ TokenTypeOK /\ Roles /\ Calls /\ Unrotated /\ Rotated /\ Pairs
  BY DEF GrantInv
<1>2. /\ c.at = "ok" /\ c \in Call
      /\ mgr' \in [Manager -> State] /\ mgr'[m].call = NoCall
      /\ mgr'[m].refresh = c.refresh /\ mgr'[m].access = c.access
      /\ \A o \in Manager \ {m} : mgr'[o] = mgr[o]
      /\ req' \in [Request -> Sent]
      /\ \A r \in Request :
           IF req[r].at = "waiting" /\ req[r].mgr = m
           THEN req'[r].at = "api" /\ req'[r].mgr = m ELSE req'[r] = req[r]
      /\ secrets' \in Keys /\ secrets'.access = secrets.access
      /\ \/ secrets' = secrets
         \/ mgr[m].refresh # c.refresh /\ secrets'.refresh = c.refresh
      /\ UNCHANGED <<world, server, slot, fsAuth, connect, events>>
  BY <1>1, SuccessFacts
<1>3. /\ c.refresh # NoToken /\ c.access # NoToken /\ c.access.grant = c.refresh.grant
      /\ c # NoCall
  BY <1>1, <1>2, Constants DEF Calls
<1>4. world.policy = "never" => c.refresh = mgr[m].refresh /\ secrets' = secrets
  BY <1>1, <1>2, <1>3 DEF Unrotated
<1>5. world.policy # "never" =>
        /\ secrets.refresh # NoToken /\ c.refresh.grant = secrets.refresh.grant
        /\ secrets'.refresh # NoToken /\ secrets'.refresh.grant = secrets.refresh.grant
  BY <1>1, <1>2, <1>3 DEF Rotated, Bound
<1>o. slot \in Manager \cup {None} /\ fsAuth \in Manager \cup {None}
  BY <1>1 DEF TokenTypeOK
<1>p. \A r \in Request : InUse(r) => req[r].mgr \in Manager
  BY <1>1 DEF Roles
<1> HIDE DEF c
<1>6. TokenTypeOK'
  BY <1>1, <1>2 DEF TokenTypeOK
<1>7. Roles'
  BY <1>1, <1>2, <1>3 DEF Roles, InUse, TokenTypeOK
<1>8. Calls'
  BY <1>1, <1>2, Constants DEF Calls
<1>9. Unrotated'
  BY <1>1, <1>2, <1>4, <1>o DEF Unrotated
<1>10. Rotated'
  BY <1>1, <1>2, <1>5, <1>o, <1>p DEF Rotated, InUse, Superseded, Binds, Bound
<1>11. Pairs'
  BY <1>1, <1>2, <1>3, <1>4, <1>5 DEF Pairs, Paired
<1> QED
  BY <1>6, <1>7, <1>8, <1>9, <1>10, <1>11 DEF GrantInv
LEMMA AccessGrant ==
  ASSUME GrantInv, NEW r \in Request, NEW q \in Sent, q.mgr \in Manager, NEW force \in BOOLEAN,
         getAccessToken(r, q, force), req[r].at # "waiting",
         world.policy # "never" => Binds(q.mgr),
         UNCHANGED <<world, server, secrets, slot, fsAuth, connect, events>>
  PROVE  GrantInv'
<1> DEFINE k == q.mgr
           sent == [at |-> "sent", refresh |-> mgr[k].refresh, access |-> NoToken]
<1>1. /\ TokenTypeOK /\ Roles /\ Calls /\ Unrotated /\ Rotated /\ Pairs
  BY DEF GrantInv
<1>2. /\ req' \in [Request -> Sent] /\ mgr' \in [Manager -> State]
      /\ \A o \in Request \ {r} : req'[o] = req[o]
      /\ req'[r].mgr = k
      /\ \/ mgr' = mgr
         \/ /\ req'[r].at = "waiting" /\ mgr[k].call = NoCall /\ mgr[k].refresh # NoToken
            /\ \A o \in Manager \ {k} : mgr'[o] = mgr[o]
            /\ mgr'[k] = [mgr[k] EXCEPT !.call = mgr'[k].call] /\ mgr'[k].call = sent
  BY <1>1, AccessFacts
<1>3. /\ \A o \in Manager : mgr'[o].refresh = mgr[o].refresh /\ mgr'[o].access = mgr[o].access
      /\ \A o \in Manager : \/ mgr'[o].call = mgr[o].call
                            \/ /\ o = k /\ mgr'[o].call = sent
                               /\ req'[r].at = "waiting" /\ mgr[k].refresh # NoToken
  <2> HIDE DEF sent
  <2>1. CASE mgr' = mgr
    BY <2>1
  <2>2. CASE mgr' # mgr
    <3>1. mgr[k] \in State
      BY <1>1 DEF TokenTypeOK
    <3>2. mgr'[k].refresh = mgr[k].refresh /\ mgr'[k].access = mgr[k].access
      BY <1>2, <2>2, <3>1 DEF State
    <3> QED
      BY <1>2, <2>2, <3>2
  <2> QED
    BY <2>1, <2>2
<1>4. /\ sent.at = "sent" /\ sent.refresh = mgr[k].refresh
  OBVIOUS
<1>o. slot \in Manager \cup {None} /\ fsAuth \in Manager \cup {None}
  BY <1>1 DEF TokenTypeOK
<1>p. \A o \in Request : InUse(o) => req[o].mgr \in Manager
  BY <1>1 DEF Roles
<1> HIDE DEF sent, k
<1>k. k \in Manager /\ (world.policy # "never" => Binds(k))
  BY DEF k
<1>5. TokenTypeOK'
  BY <1>1, <1>2 DEF TokenTypeOK
<1>6. Roles'
  BY <1>1, <1>2, <1>3, <1>o, <1>k DEF Roles, InUse
<1>7. Calls'
  BY <1>1, <1>2, <1>3, <1>4, <1>k, Constants DEF Calls
<1>8. Unrotated'
  BY <1>1, <1>2, <1>3, <1>4, <1>o DEF Unrotated
<1>9. Rotated'
  BY <1>1, <1>2, <1>3, <1>4, <1>o, <1>p, <1>k DEF Rotated, InUse, Superseded, Binds, Bound
<1>10. Pairs'
  BY <1>1, <1>2, <1>3 DEF Pairs, Paired
<1> QED
  BY <1>5, <1>6, <1>7, <1>8, <1>9, <1>10 DEF GrantInv

LEMMA StartGrant ==
  ASSUME GrantInv, NoMixing, NEW r \in Request, StartRequest(r)
  PROVE  GrantInv'
<1> DEFINE q == [Idle EXCEPT !.mgr = fsAuth]
<1>1. /\ req[r] = Idle /\ fsAuth # None /\ getAccessToken(r, q, FALSE)
      /\ world.policy = "never" \/ ~Superseded
      /\ UNCHANGED <<world, server, secrets, slot, fsAuth, connect, events>>
  BY DEF StartRequest, Allowed, NoMixing
<1>2. fsAuth \in Manager
  BY <1>1 DEF GrantInv, TokenTypeOK
<1>3. q \in Sent /\ q.mgr = fsAuth
  BY <1>2, Constants DEF Sent
<1>4. world.policy # "never" => Binds(fsAuth)
  BY <1>1 DEF GrantInv, Rotated
<1> HIDE DEF q
<1> QED
  BY <1>1, <1>2, <1>3, <1>4, AccessGrant, Constants

LEMMA DetachedGrant ==
  ASSUME GrantInv, NEW r \in Request, StartDetachedRead(r)
  PROVE  GrantInv'
<1>1. /\ TokenTypeOK /\ Roles /\ Calls /\ Unrotated /\ Rotated /\ Pairs
      /\ req[r].at = "idle"
      /\ UNCHANGED <<world, server, secrets, slot, fsAuth, connect, events>>
  BY Constants DEF GrantInv, StartDetachedRead
<1>2. PICK m \in Manager :
         /\ m \notin {slot, fsAuth} /\ mgr[m].call = NoCall
         /\ \A o \in Request : req[o].mgr # m
         /\ secrets.refresh # NoToken
         /\ mgr' \in [Manager -> State]
         /\ mgr'[m].refresh = secrets.refresh /\ mgr'[m].access = secrets.access
         /\ \A o \in Manager \ {m} : mgr'[o] = mgr[o]
         /\ req' \in [Request -> Sent] /\ req'[r].mgr = m
         /\ \A o \in Request \ {r} : req'[o] = req[o]
         /\ \/ mgr'[m].call = NoCall
            \/ /\ req'[r].at = "waiting"
               /\ mgr'[m].call = [at |-> "sent", refresh |-> secrets.refresh, access |-> NoToken]
  BY <1>1, DetachedFacts
<1>o. slot \in Manager \cup {None} /\ fsAuth \in Manager \cup {None}
  BY <1>1 DEF TokenTypeOK
<1>p. \A o \in Request : InUse(o) => req[o].mgr \in Manager
  BY <1>1 DEF Roles
<1>3. TokenTypeOK'
  BY <1>1, <1>2 DEF TokenTypeOK
<1>4. Roles'
  BY <1>1, <1>2, <1>o DEF Roles, InUse
<1>5. Calls'
  BY <1>1, <1>2, Constants DEF Calls
<1>6. Unrotated'
  BY <1>1, <1>2, <1>o DEF Unrotated
<1>7. Rotated'
  BY <1>1, <1>2, <1>o, <1>p DEF Rotated, InUse, Superseded, Binds, Bound
<1>8. Pairs'
  BY <1>1, <1>2 DEF Pairs, Paired
<1> QED
  BY <1>3, <1>4, <1>5, <1>6, <1>7, <1>8 DEF GrantInv

LEMMA ApiGrant ==
  ASSUME GrantInv, NEW r \in Request, ApiAnswers(r)
  PROVE  GrantInv'
<1>1. /\ TokenTypeOK /\ Roles /\ Rotated /\ req[r].at = "api" /\ req[r] \in Sent
      /\ req \in [Request -> Sent] /\ events \in Nat
      /\ server \in ServerState /\ slot \in Manager \cup {None} /\ connect \in ConnectType
      /\ UNCHANGED <<world, server, secrets, slot, fsAuth, connect, events>>
  BY DEF GrantInv, ApiAnswers, TokenTypeOK
<1>2. ASSUME Fades, req' \in [Request -> Sent], req'[r].at \notin {"waiting", "api"},
             \A o \in Request \ {r} : req'[o] = req[o]
      PROVE  GrantInv'
  <2>1. Superseded => Superseded'
    BY <1>1 DEF Superseded
  <2>2. connect.at = "exchange" <=> connect.mgr # None
    BY <1>1, Bounds DEF Roles
  <2>3. Quietly
    BY <1>1, <1>2, <2>1, <2>2 DEF Quietly
  <2> QED
    BY <1>1, <2>3, QuietGrant
<1>3. CASE Ends(r)
  BY <1>1, <1>2, <1>3, EndsFades, Constants
<1>4. CASE req' = [req EXCEPT ![r].at = "refused"] /\ UNCHANGED mgr
  <2>1. Fades
    BY <1>1, <1>4 DEF Fades, Like, TokenTypeOK
  <2> DEFINE w == [req[r] EXCEPT !.at = "refused"]
  <2>2. req' = [req EXCEPT ![r] = w] /\ w \in Sent /\ w.at = "refused"
    BY <1>1, <1>4 DEF Sent
  <2> HIDE DEF w
  <2> QED
    BY <1>1, <1>2, <2>1, <2>2
<1>5. CASE getAccessToken(r, [req[r] EXCEPT !.retried = TRUE], TRUE)
  <2> DEFINE q == [req[r] EXCEPT !.retried = TRUE]
  <2>1. q \in Sent /\ q.mgr = req[r].mgr
    BY <1>1 DEF Sent
  <2>2. req[r].mgr \in Manager /\ (world.policy # "never" => Binds(req[r].mgr))
    BY <1>1 DEF Roles, Rotated, InUse
  <2>3. getAccessToken(r, q, TRUE)
    BY <1>5
  <2> HIDE DEF q
  <2> QED
    BY <1>1, <2>1, <2>2, <2>3, AccessGrant
<1> QED
  BY <1>3, <1>4, <1>5 DEF ApiAnswers

THEOREM GrantStep == ASSUME GrantInv, NoMixing, [Next]_vars PROVE GrantInv'
<1>1. CASE Authorization
  BY <1>1, QuietSteps, QuietGrant, ConsentGrant, RebindGrant, DisconnectGrant, RestartGrant
  DEF Authorization
<1>2. CASE SaveBackendState
  BY <1>2, SaveGrant
<1>3. ASSUME NEW m \in Manager, Refresh(m) \/ PublishFails(m) \/ CooldownEnds(m)
      PROVE  GrantInv'
  BY <1>3, QuietSteps, QuietGrant, AnswerGrant, FailureGrant, SuccessGrant DEF Refresh
<1>4. ASSUME NEW r \in Request,
             StartRequest(r) \/ StartDetachedRead(r) \/ ApiAnswers(r) \/ RequestEnds(r)
      PROVE  GrantInv'
  BY <1>4, QuietSteps, QuietGrant, StartGrant, DetachedGrant, ApiGrant
<1>5. CASE \/ \E a \in Token(MaxAccess) : AccessDue(a) \/ AccessEnds(a)
           \/ \E g \in 1..MaxGrants : Withdraw(g)
           \/ UNCHANGED vars
  BY <1>5, QuietSteps, QuietGrant
<1> QED
  BY <1>1, <1>2, <1>3, <1>4, <1>5 DEF Next

THEOREM GrantInit == Init => GrantInv
<1> SUFFICES ASSUME Init PROVE GrantInv
  OBVIOUS
<1>1. TokenTypeOK
  BY TypesInit
<1>2. /\ mgr = [m \in Manager |-> Blank] /\ slot = None /\ fsAuth = None
      /\ connect.at = "no" /\ connect.mgr = None
      /\ secrets.refresh = NoToken /\ secrets.access = NoToken
      /\ \A r \in Request : req[r].at = "idle"
  BY Constants DEF Init
<1>3. Roles /\ Calls /\ Unrotated
  BY <1>2, Constants DEF Roles, Calls, Unrotated, InUse
<1>4. Rotated
  BY <1>2, Constants DEF Rotated, InUse
<1>5. Pairs
  BY <1>2, Constants DEF Pairs, Paired
<1> QED
  BY <1>1, <1>3, <1>4, <1>5 DEF GrantInv

(* While a reconnection does not overlap a refresh, and brings a refresh   *)
(* token, no access token is used with, or kept beside, a refresh token of *)
(* another consent, in memory or in SecretStorage.                         *)
THEOREM ConsentsNeverMix == NoMixing => (Spec => []OneGrant)
<1> SUFFICES ASSUME NoMixing PROVE Spec => []OneGrant
  OBVIOUS
<1>1. GrantInv => OneGrant
  BY DEF GrantInv, Pairs, Paired, OneGrant
<1> QED
  BY <1>1, GrantInit, GrantStep, PTL DEF Spec
-----------------------------------------------------------------------------
(* Nobody is signed out by the plugin alone. *)

LEMMA Numbers ==
  ASSUME TokenTypeOK
  PROVE  /\ server.access \in Nat /\ server.refresh \in Nat
         /\ secrets.refresh \in AnyToken /\ secrets.access \in AnyToken
         /\ \A m \in Manager : /\ mgr[m].refresh \in AnyToken /\ mgr[m].access \in AnyToken
                               /\ mgr[m].call \in Call
                               /\ mgr[m].call.refresh \in AnyToken
                               /\ mgr[m].call.access \in AnyToken
         /\ \A t \in AnyToken : t.n \in Nat /\ t.grant \in Nat
         /\ \A t \in server.over \cup server.spent : t \in AnyToken
BY DEF TokenTypeOK, ServerState, Keys, State, Call, AnyToken

(* What such a step may do to the server. *)
Elsewhere ==
  /\ server'.access \in Nat /\ server'.access >= server.access
  /\ server'.refresh \in Nat /\ server'.refresh >= server.refresh
  /\ server'.spent = server.spent /\ server.withdrawn \subseteq server'.withdrawn
  /\ \A a \in server'.over :
       \/ a \in server.over
       \/ /\ a.n <= server.access /\ \E m \in Manager : mgr[m].access = a
          /\ \A r \in Request : ~(req[r].at = "api" /\ req[r].retried /\ req[r].token = a)

LEMMA QuietSigned ==
  ASSUME GrantInv, SignedInv, Quietly, Elsewhere, server' \in ServerState,
         \A r \in Request : req'[r].at = "refused" =>
           req'[r] = req[r] \/ req'[r].token.grant \in server'.withdrawn \cup {0}
  PROVE  SignedInv'
<1>1. /\ TokenTypeOK /\ Roles /\ Calls
      /\ Refusals /\ Numbered /\ Pending /\ Retries /\ Unspent
  BY DEF GrantInv, SignedInv
<1>2. /\ \A m \in Manager : \/ Like(m)
                            \/ mgr'[m] = Blank /\ mgr[m].call = NoCall /\ m # fsAuth
      /\ UNCHANGED <<world, secrets, fsAuth>> /\ fsAuth \in Manager \cup {None}
      /\ \A r \in Request : \/ req'[r] = req[r]
                            \/ req'[r].at \notin {"waiting", "api"}
  BY <1>1 DEF Quietly, Fades, TokenTypeOK
<1>3. Refusals'
  BY <1>1, <1>2, Constants DEF Refusals, Gone, Like, Elsewhere
<1>4. Numbered'
  <2>1. \A m \in Manager : /\ mgr'[m].refresh.n <= server'.refresh
                           /\ mgr'[m].call.refresh.n <= server'.refresh
                           /\ mgr'[m].access.n <= server'.access
                           /\ mgr'[m].call.at = "ok" => mgr'[m].call.access.n <= server'.access
    <3> SUFFICES ASSUME NEW m \in Manager
                 PROVE  /\ mgr'[m].refresh.n <= server'.refresh
                        /\ mgr'[m].call.refresh.n <= server'.refresh
                        /\ mgr'[m].access.n <= server'.access
                        /\ mgr'[m].call.at = "ok" => mgr'[m].call.access.n <= server'.access
      OBVIOUS
    <3>1. CASE Like(m)
      <4> DEFINE m1 == mgr[m].refresh.n
                 m2 == mgr[m].call.refresh.n
                 m3 == mgr[m].access.n
                 m4 == mgr[m].call.access.n
      <4>1. /\ m1 \in Nat /\ m2 \in Nat /\ m3 \in Nat /\ m4 \in Nat
            /\ server.access \in Nat /\ server.refresh \in Nat
        BY <1>1, Numbers
      <4>2. /\ m1 <= server.refresh /\ m2 <= server.refresh /\ m3 <= server.access
            /\ mgr[m].call.at = "ok" => m4 <= server.access
        BY <1>1 DEF Numbered
      <4>3. /\ mgr'[m].refresh.n = m1 /\ mgr'[m].call.refresh.n = m2
            /\ mgr'[m].access.n = m3 /\ mgr'[m].call.access.n = m4
            /\ mgr'[m].call.at = mgr[m].call.at
        BY <3>1 DEF Like
      <4> HIDE DEF m1, m2, m3, m4
      <4> QED
        BY <4>1, <4>2, <4>3 DEF Elsewhere
    <3>2. CASE mgr'[m] = Blank
      BY <3>2, Constants DEF Elsewhere
    <3> QED
      BY <1>2, <3>1, <3>2
  <2>2. /\ \A a \in server'.over : a.n <= server'.access
        /\ \A t \in server'.spent : t # NoToken /\ t.n <= server'.refresh
        /\ secrets'.refresh.n <= server'.refresh /\ secrets'.access.n <= server'.access
    BY <1>1, <1>2, Constants, Numbers DEF Numbered, Elsewhere
  <2> QED
    BY <2>1, <2>2 DEF Numbered
<1>5. Pending'
  <2> SUFFICES ASSUME NEW m \in Manager, mgr'[m].call.at = "ok"
               PROVE  LET a == mgr'[m].call.access IN
                      /\ a \notin server'.over /\ a # secrets'.access
                      /\ \A o \in Manager : mgr'[o].access # a
                      /\ \A o \in Manager \ {m} :
                           mgr'[o].call.at = "ok" => mgr'[o].call.access # a
    BY DEF Pending
  <2> DEFINE a == mgr'[m].call.access
  <2>1. /\ mgr[m].call.at = "ok" /\ a = mgr[m].call.access /\ a # NoToken
        /\ a \notin server.over /\ a # secrets.access
        /\ \A o \in Manager : mgr[o].access # a
        /\ \A o \in Manager \ {m} : mgr[o].call.at = "ok" => mgr[o].call.access # a
    BY <1>1, <1>2, Constants DEF Pending, Like, Calls
  <2> HIDE DEF a
  <2>2. a \notin server'.over /\ a # secrets'.access
    BY <1>2, <2>1 DEF Elsewhere
  <2>3. \A o \in Manager : mgr'[o].access # a
    BY <1>2, <2>1, Constants DEF Like
  <2>4. \A o \in Manager \ {m} : mgr'[o].call.at = "ok" => mgr'[o].call.access # a
    BY <1>2, <2>1, Constants DEF Like
  <2> QED
    BY <2>2, <2>3, <2>4 DEF a
<1>6. Retries'
  BY <1>1, <1>2 DEF Retries, Elsewhere
<1>7. Unspent'
  <2>1. server'.spent = server.spent /\ (Strict' <=> Strict)
    BY <1>2 DEF Elsewhere, Strict
  <2>2. ASSUME Strict, NEW m \in Manager
        PROVE  /\ mgr'[m].call.at = "sent" => mgr'[m].call.refresh = mgr'[m].refresh
               /\ mgr'[m].call.at = "ok" => mgr'[m].call.refresh \notin server.spent
    BY <1>1, <1>2, <2>2, Constants DEF Unspent, Like
  <2>3. ASSUME Strict, fsAuth # None, mgr'[fsAuth].call.at # "ok"
        PROVE  mgr'[fsAuth].refresh \notin server.spent
    BY <1>1, <1>2, <2>3, Constants DEF Unspent, Like
  <2>4. ASSUME Strict, NEW r \in Request, InUse(r)'
        PROVE  req'[r].mgr = fsAuth
    BY <1>1, <1>2, <2>4 DEF Unspent, InUse
  <2> QED
    BY <1>1, <1>2, <2>1, <2>2, <2>3, <2>4 DEF Unspent
<1> QED
  BY <1>3, <1>4, <1>5, <1>6, <1>7 DEF SignedInv
LEMMA QuietStepsSigned ==
  ASSUME GrantInv, SignedInv,
         \/ StartAuth \/ BeginCompleteAuth \/ CompleteAuthFails \/ Disconnect
         \/ \E m \in Manager : CooldownEnds(m)
         \/ \E r \in Request : RequestEnds(r)
         \/ \E a \in Token(MaxAccess) : AccessDue(a) \/ AccessEnds(a)
         \/ \E g \in 1..MaxGrants : Withdraw(g)
         \/ UNCHANGED vars
  PROVE  SignedInv'
<1>1. Quietly /\ server' \in ServerState
  BY QuietSteps
<1>2. TokenTypeOK /\ server \in ServerState
  BY DEF GrantInv, TokenTypeOK
<1>3. \A r \in Request : req'[r].at = "refused" =>
        req'[r] = req[r] \/ req'[r].token.grant \in server'.withdrawn \cup {0}
  <2>1. CASE \E r \in Request : RequestEnds(r)
    <3>1. PICK r \in Request : Ends(r) /\ UNCHANGED fsAuth
      BY <2>1 DEF RequestEnds
    <3> QED
      BY <1>2, <3>1, EndsFades, Constants
  <2>2. CASE UNCHANGED req
    BY <2>2
  <2> QED
    BY <2>1, <2>2 DEF StartAuth, BeginCompleteAuth, CompleteAuthFails, Disconnect, CooldownEnds,
                      AccessDue, AccessEnds, Withdraw, vars
<1>4. Elsewhere
  <2>1. CASE UNCHANGED server
    BY <1>2, <2>1, Numbers DEF Elsewhere
  <2>2. ASSUME NEW g, server' = [server EXCEPT !.withdrawn = @ \cup {g}]
        PROVE  Elsewhere
    BY <1>2, <2>2, Numbers DEF Elsewhere, ServerState
  <2>3. ASSUME NEW a \in Token(MaxAccess), AccessDue(a)
        PROVE  Elsewhere
    BY <1>2, <2>3, Numbers DEF Elsewhere, ServerState, AccessDue
  <2>4. ASSUME NEW a \in Token(MaxAccess), AccessEnds(a)
        PROVE  Elsewhere
    <3>1. /\ server' = [server EXCEPT !.over = @ \cup {a}]
          /\ a.n <= server.access /\ \E m \in Manager : mgr[m].access = a
          /\ \A r \in Request : ~(req[r].at = "api" /\ req[r].retried /\ req[r].token = a)
      BY <2>4 DEF AccessEnds
    <3>2. /\ server'.over = server.over \cup {a}
          /\ server'.access = server.access /\ server'.refresh = server.refresh
          /\ server'.spent = server.spent /\ server'.withdrawn = server.withdrawn
      BY <1>2, <3>1 DEF ServerState
    <3> QED
      BY <1>2, <3>1, <3>2, Numbers DEF Elsewhere
  <2>5. CASE Disconnect
    BY <2>1, <2>2, <2>5 DEF Disconnect
  <2>6. CASE \E g \in 1..MaxGrants : Withdraw(g)
    BY <2>2, <2>6 DEF Withdraw
  <2>7. CASE \/ StartAuth \/ BeginCompleteAuth \/ CompleteAuthFails
             \/ \E m \in Manager : CooldownEnds(m)
             \/ \E r \in Request : RequestEnds(r)
             \/ UNCHANGED vars
    BY <2>1, <2>7
    DEF StartAuth, BeginCompleteAuth, CompleteAuthFails, CooldownEnds, RequestEnds, vars
  <2> QED
    BY <2>3, <2>4, <2>5, <2>6, <2>7
<1> QED
  BY <1>1, <1>3, <1>4, QuietSigned

(* A strict server's refreshes are the live manager's. *)
LEMMA LiveOnly ==
  ASSUME GrantInv, SignedInv, Strict, NEW m \in Manager, mgr[m].call # NoCall
  PROVE  /\ m = fsAuth
         /\ mgr[m].call.at # "ok" => mgr[m].refresh \notin server.spent
<1>1. PICK r \in Request : req[r].at = "waiting" /\ req[r].mgr = m
  BY DEF GrantInv, Calls
<1>2. m = fsAuth
  BY <1>1 DEF SignedInv, Unspent, InUse
<1> QED
  BY <1>2, Bounds DEF SignedInv, Unspent

LEMMA RestsSettled ==
  ASSUME GrantInv, ~UnderWay
  PROVE  /\ \A r \in Request : ~InUse(r)
         /\ \A m \in Manager : mgr[m].call = NoCall
BY DEF GrantInv, Calls, UnderWay, InUse

(* What is stored is not spent when everything rests and agrees with it.   *)
LEMMA StoredUnspent ==
  ASSUME GrantInv, SignedInv, ~Strict \/ Settled
  PROVE  secrets.refresh \notin server.spent
<1>1. CASE ~Strict
  BY <1>1 DEF SignedInv, Unspent
<1>2. CASE Strict /\ fsAuth = None
  BY <1>2 DEF SignedInv, Unspent
<1>3. CASE Strict /\ fsAuth # None
  <2>1. fsAuth \in Manager /\ mgr[fsAuth].refresh # NoToken /\ ~UnderWay
        /\ mgr[fsAuth].refresh \in {NoToken, secrets.refresh}
    BY <1>3 DEF GrantInv, TokenTypeOK, Roles, Settled
  <2> QED
    BY <1>3, <2>1, RestsSettled, Constants DEF SignedInv, Unspent
<1> QED
  BY <1>1, <1>2, <1>3
LEMMA ConsentSigned ==
  ASSUME GrantInv, SignedInv, NoModes, EndCompleteAuth
  PROVE  SignedInv'
<1> DEFINE k == connect.mgr
<1>1. /\ TokenTypeOK /\ Roles /\ Calls
      /\ Refusals /\ Numbered /\ Pending /\ Retries /\ Unspent
  BY DEF GrantInv, SignedInv
<1>2. /\ connect.at = "exchange" /\ k \in Manager /\ ~Overlapped
      /\ server' \in ServerState /\ server'.access = server.access + 1
      /\ server'.refresh >= server.refresh /\ server'.spent = server.spent
      /\ server'.over = server.over /\ server'.withdrawn = server.withdrawn
      /\ UNCHANGED <<world, fsAuth, req, events>>
      /\ connect' \in ConnectType /\ connect'.mgr = None
  BY <1>1, ConsentFacts DEF Allowed, NoModes
<1>n. /\ server.access \in Nat /\ server'.access \in Nat /\ server.refresh \in Nat
      /\ server'.refresh \in Nat /\ server'.access >= server.access
  <2>1. server.access \in Nat /\ server'.access \in Nat /\ server.refresh \in Nat
        /\ server'.refresh \in Nat
    BY <1>1, <1>2, Numbers DEF ServerState
  <2> QED
    BY <1>2, <2>1
<1>3. mgr[k].call = NoCall
  BY <1>2, Bounds DEF Overlapped
<1>4. Strict => /\ \A r \in Request : ~InUse(r)
                /\ \A m \in Manager : mgr[m].call = NoCall
  BY <1>2 DEF Overlapped, UnderWay, InUse, Strict
<1>5. CASE connect'.at = "no" /\ UNCHANGED <<mgr, secrets, slot>>
  <2>1. Fades /\ req' \in [Request -> Sent] /\ slot' \in Manager \cup {None}
    BY <1>1, <1>2, <1>5 DEF Fades, Like, TokenTypeOK
  <2>2. Superseded => Superseded'
    BY <1>2 DEF Superseded
  <2>3. Quietly
    BY <1>2, <1>5, <2>1, <2>2 DEF Quietly
  <2>4. Elsewhere
    BY <1>2, <1>n DEF Elsewhere
  <2> QED
    BY <1>2, <2>3, <2>4, QuietSigned
<1>6. ASSUME NEW t \in AnyToken, NEW a \in AnyToken, t # NoToken, a # NoToken,
             a.n = server.access + 1, t.n = server.refresh + 1,
             server'.refresh = server.refresh + 1, mgr' \in [Manager -> State],
             mgr'[k].refresh = t, mgr'[k].access = a, mgr'[k].failed = FALSE,
             mgr'[k].call = mgr[k].call, \A o \in Manager \ {k} : mgr'[o] = mgr[o],
             secrets' \in Keys, secrets'.refresh = t, secrets'.access = a,
             slot' = k, connect'.at = "rebind"
      PROVE  SignedInv'
  <2>1. Refusals'
    BY <1>1, <1>2, <1>3, <1>6, Constants DEF Refusals, Gone
  <2>2. Numbered'
    <3>1. /\ \A b \in server'.over : b.n <= server'.access
          /\ \A b \in server'.spent : b # NoToken /\ b.n <= server'.refresh
      BY <1>1, <1>2, <1>n, Numbers DEF Numbered
    <3>2. secrets'.refresh.n <= server'.refresh /\ secrets'.access.n <= server'.access
      BY <1>2, <1>6, <1>n
    <3>3. ASSUME NEW m \in Manager
          PROVE  /\ mgr'[m].refresh.n <= server'.refresh /\ mgr'[m].access.n <= server'.access
                 /\ mgr'[m].call.refresh.n <= server'.refresh
                 /\ mgr'[m].call.at = "ok" => mgr'[m].call.access.n <= server'.access
      <4>1. CASE m = k
        BY <1>2, <1>3, <1>6, <1>n, <4>1, Constants
      <4>2. CASE m # k
        BY <1>1, <1>2, <1>6, <1>n, <4>2, Numbers DEF Numbered
      <4> QED
        BY <4>1, <4>2
    <3> QED
      BY <3>1, <3>2, <3>3 DEF Numbered
  <2>3. \A m \in Manager : mgr[m].call.at = "ok" => mgr[m].call.access # a
    BY <1>1, <1>6, <1>n, Numbers DEF Numbered
  <2>4. Pending'
    BY <1>1, <1>2, <1>3, <1>6, <2>3, Constants DEF Pending
  <2>5. Retries'
    BY <1>1, <1>2 DEF Retries
  <2>6. t \notin server.spent
    BY <1>1, <1>6, <1>n, Numbers DEF Numbered
  <2>7. Unspent'
    <3>1. ASSUME Strict, fsAuth # None
          PROVE  mgr'[fsAuth].refresh \notin server.spent
      <4>1. fsAuth \in Manager /\ mgr[fsAuth].refresh \notin server.spent
        BY <1>1, <1>4, <3>1, Constants DEF TokenTypeOK, Unspent
      <4>2. CASE fsAuth = k
        BY <1>6, <2>6, <4>2
      <4>3. CASE fsAuth # k
        BY <1>6, <4>1, <4>3
      <4> QED
        BY <4>2, <4>3
    <3>2. Strict => \A m \in Manager : mgr'[m].call = NoCall
      BY <1>3, <1>4, <1>6
    <3> QED
      BY <1>1, <1>2, <1>4, <1>6, <2>6, <3>1, <3>2, Constants DEF Unspent, InUse, Strict
  <2> QED
    BY <2>1, <2>2, <2>4, <2>5, <2>7 DEF SignedInv
<1>7. \/ connect'.at = "no" /\ UNCHANGED <<mgr, secrets, slot>>
      \/ \E t, a \in AnyToken :
           /\ t # NoToken /\ a # NoToken /\ a.n = server.access + 1
           /\ \/ t.n = server.refresh + 1 /\ server'.refresh = server.refresh + 1
              \/ t = secrets.refresh /\ Allowed("partial", secrets.refresh = NoToken)
           /\ mgr' \in [Manager -> State]
           /\ mgr'[k].refresh = t /\ mgr'[k].access = a /\ mgr'[k].failed = FALSE
           /\ mgr'[k].call = mgr[k].call
           /\ \A o \in Manager \ {k} : mgr'[o] = mgr[o]
           /\ secrets' \in Keys /\ secrets'.refresh = t /\ secrets'.access = a
           /\ slot' = k /\ connect'.at = "rebind"
  BY <1>1, ConsentFacts
<1>8. \A t \in AnyToken : t # NoToken =>
        ~(t = secrets.refresh /\ Allowed("partial", secrets.refresh = NoToken))
  BY DEF Allowed, NoModes
<1> QED
  BY <1>5, <1>6, <1>7, <1>8

LEMMA RebindSigned ==
  ASSUME GrantInv, SignedInv, NoModes, Rebind
  PROVE  SignedInv'
<1>1. /\ TokenTypeOK /\ Roles /\ Calls /\ createFs
      /\ Refusals /\ Numbered /\ Pending /\ Retries /\ Unspent
      /\ UNCHANGED <<world, server, secrets, req>>
      /\ ~Strict \/ Settled
  BY DEF GrantInv, SignedInv, Rebind, Allowed, NoModes
<1>2. PICK m \in Manager :
         /\ slot' = m /\ fsAuth' = m /\ secrets.refresh # NoToken
         /\ mgr' \in [Manager -> State]
         /\ mgr'[m].refresh = secrets.refresh /\ mgr'[m].access = secrets.access
         /\ mgr'[m].failed = FALSE /\ mgr'[m].call = mgr[m].call
         /\ \A o \in Manager \ {m} :
              \/ mgr'[o] = mgr[o]
              \/ mgr'[o] = Blank /\ mgr[o].call = NoCall
  BY <1>1, CreateFacts
<1>3. Calls'
  BY RebindGrant DEF GrantInv
<1>4. Refusals'
  <2>1. ASSUME NEW o \in Manager, mgr'[o].call.at = "denied"
        PROVE  mgr'[o].refresh.grant \in server.withdrawn \cup {0}
    <3>1. mgr'[o].call = mgr[o].call /\ mgr'[o].refresh.grant = mgr[o].refresh.grant
      BY <1>1, <1>2, <1>3, <2>1, Constants DEF Calls
    <3> QED
      BY <1>1, <2>1, <3>1 DEF Refusals, Gone
  <2>2. ASSUME NEW o \in Manager, mgr'[o].failed
        PROVE  mgr'[o].refresh.grant \in server.withdrawn \cup {0}
    BY <1>1, <1>2, <2>2, Constants DEF Refusals, Gone
  <2> QED
    BY <1>1, <2>1, <2>2 DEF Refusals, Gone
<1>5. Numbered'
  <2> SUFFICES ASSUME NEW o \in Manager
               PROVE  /\ mgr'[o].refresh.n <= server.refresh /\ mgr'[o].access.n <= server.access
                      /\ mgr'[o].call.refresh.n <= server.refresh
                      /\ mgr'[o].call.at = "ok" => mgr'[o].call.access.n <= server.access
    BY <1>1 DEF Numbered
  <2>1. CASE o = m
    BY <1>1, <1>2, <2>1 DEF Numbered
  <2>2. CASE mgr'[o] = mgr[o]
    BY <1>1, <2>2 DEF Numbered
  <2>3. CASE mgr'[o] = Blank
    BY <1>1, <2>3, Numbers, Constants
  <2> QED
    BY <1>2, <2>1, <2>2, <2>3
<1>6. Pending'
  <2> SUFFICES ASSUME NEW o \in Manager, mgr'[o].call.at = "ok"
               PROVE  LET a == mgr'[o].call.access IN
                      /\ a \notin server'.over /\ a # secrets'.access
                      /\ \A p \in Manager : mgr'[p].access # a
                      /\ \A p \in Manager \ {o} :
                           mgr'[p].call.at = "ok" => mgr'[p].call.access # a
    BY DEF Pending
  <2> DEFINE a == mgr'[o].call.access
  <2>1. /\ mgr[o].call.at = "ok" /\ a = mgr[o].call.access /\ a # NoToken
        /\ a \notin server.over /\ a # secrets.access
        /\ \A p \in Manager : mgr[p].access # a
        /\ \A p \in Manager \ {o} : mgr[p].call.at = "ok" => mgr[p].call.access # a
    BY <1>1, <1>2, Constants DEF Pending, Calls
  <2> HIDE DEF a
  <2>2. \A p \in Manager : mgr'[p].access # a
    BY <1>2, <2>1, Constants
  <2>3. \A p \in Manager \ {o} : mgr'[p].call.at = "ok" => mgr'[p].call.access # a
    BY <1>2, <2>1, Constants
  <2> QED
    BY <1>1, <2>1, <2>2, <2>3 DEF a
<1>7. Retries'
  BY <1>1 DEF Retries
<1>8. secrets.refresh \notin server.spent
  BY <1>1, StoredUnspent
<1>9. Strict => /\ \A r \in Request : ~InUse(r)
                /\ \A o \in Manager : mgr[o].call = NoCall
  BY <1>1, RestsSettled DEF Settled
<1>10. Unspent'
  BY <1>1, <1>2, <1>8, <1>9, Constants, Bounds DEF Unspent, InUse, Strict
<1> QED
  BY <1>4, <1>5, <1>6, <1>7, <1>10 DEF SignedInv
LEMMA DisconnectSigned ==
  ASSUME GrantInv, SignedInv, NoModes, EndDisconnect
  PROVE  SignedInv'
<1>1. /\ TokenTypeOK /\ Calls
      /\ Refusals /\ Numbered /\ Pending /\ Retries /\ Unspent
      /\ fsAuth' = None /\ ~Overlapped
      /\ secrets' = [refresh |-> NoToken, access |-> NoToken]
      /\ mgr' = Kept(mgr, Busy)
      /\ UNCHANGED <<world, server, req, events>>
  BY DEF GrantInv, SignedInv, EndDisconnect, Allowed, NoModes
<1>2. \A m \in Manager : Like(m) \/ mgr'[m] = Blank
  BY <1>1, KeptFades, BusyRequests DEF Fades
<1>3. Refusals'
  BY <1>1, <1>2, Constants DEF Refusals, Gone, Like
<1>4. Numbered'
  <2> SUFFICES ASSUME NEW m \in Manager
               PROVE  /\ mgr'[m].refresh.n <= server.refresh /\ mgr'[m].access.n <= server.access
                      /\ mgr'[m].call.refresh.n <= server.refresh
                      /\ mgr'[m].call.at = "ok" => mgr'[m].call.access.n <= server.access
    BY <1>1, Numbers, Constants DEF Numbered
  <2>1. CASE Like(m)
    BY <1>1, <2>1 DEF Numbered, Like
  <2>2. CASE mgr'[m] = Blank
    BY <1>1, <2>2, Numbers, Constants
  <2> QED
    BY <1>2, <2>1, <2>2
<1>5. Pending'
  <2> SUFFICES ASSUME NEW m \in Manager, mgr'[m].call.at = "ok"
               PROVE  LET a == mgr'[m].call.access IN
                      /\ a \notin server'.over /\ a # secrets'.access
                      /\ \A o \in Manager : mgr'[o].access # a
                      /\ \A o \in Manager \ {m} :
                           mgr'[o].call.at = "ok" => mgr'[o].call.access # a
    BY DEF Pending
  <2> DEFINE a == mgr'[m].call.access
  <2>1. /\ mgr[m].call.at = "ok" /\ a = mgr[m].call.access /\ a # NoToken
        /\ a \notin server.over
        /\ \A o \in Manager : mgr[o].access # a
        /\ \A o \in Manager \ {m} : mgr[o].call.at = "ok" => mgr[o].call.access # a
    BY <1>1, <1>2, Constants DEF Pending, Like, Calls
  <2> HIDE DEF a
  <2>2. \A o \in Manager : mgr'[o].access # a
    BY <1>2, <2>1, Constants DEF Like
  <2>3. \A o \in Manager \ {m} : mgr'[o].call.at = "ok" => mgr'[o].call.access # a
    BY <1>2, <2>1, Constants DEF Like
  <2> QED
    BY <1>1, <2>1, <2>2, <2>3 DEF a
<1>6. Retries'
  BY <1>1 DEF Retries
<1>7. NoToken \notin server.spent
  BY <1>1 DEF Numbered
<1>8. Strict => /\ \A r \in Request : ~InUse(r)
                /\ \A m \in Manager : mgr'[m].call = NoCall
  BY <1>1, <1>2, Constants DEF Overlapped, UnderWay, InUse, Strict, Like
<1>9. Unspent'
  BY <1>1, <1>7, <1>8, Constants DEF Unspent, InUse, Strict
<1> QED
  BY <1>3, <1>4, <1>5, <1>6, <1>9 DEF SignedInv

LEMMA RestartSigned ==
  ASSUME GrantInv, SignedInv, NoModes, Restart
  PROVE  SignedInv'
<1>1. /\ TokenTypeOK
      /\ Refusals /\ Numbered /\ Pending /\ Retries /\ Unspent
      /\ req' = [r \in Request |-> Idle]
      /\ \A m \in Manager : mgr'[m].call = NoCall
      /\ slot' \in Manager \cup {None} /\ fsAuth' = slot'
      /\ slot' # None => /\ mgr'[slot'].refresh = secrets.refresh
                         /\ mgr'[slot'].access = secrets.access
                         /\ mgr'[slot'].failed = FALSE
      /\ slot' = None => secrets.refresh = NoToken
      /\ \A m \in Manager \ {slot'} : mgr'[m] = Blank
      /\ UNCHANGED <<world, server, secrets>>
      /\ ~Strict \/ Settled
  BY RestartFacts DEF GrantInv, SignedInv, Allowed, NoModes
<1>2. \A r \in Request : req'[r].at = "idle"
  BY <1>1, Constants
<1>3. \A m \in Manager : /\ mgr'[m].failed = FALSE
                         /\ \/ mgr'[m].refresh = NoToken /\ mgr'[m].access = NoToken
                            \/ /\ mgr'[m].refresh = secrets.refresh
                               /\ mgr'[m].access = secrets.access
  <2> SUFFICES ASSUME NEW m \in Manager
               PROVE  /\ mgr'[m].failed = FALSE
                      /\ \/ mgr'[m].refresh = NoToken /\ mgr'[m].access = NoToken
                         \/ /\ mgr'[m].refresh = secrets.refresh
                            /\ mgr'[m].access = secrets.access
    OBVIOUS
  <2>1. CASE m = slot'
    BY <1>1, <2>1, Bounds
  <2>2. CASE m # slot'
    <3>1. mgr'[m] = Blank
      BY <1>1, <2>2
    <3> QED
      BY <3>1, Constants DEF Blank
  <2> QED
    BY <2>1, <2>2
<1>4. Refusals'
  BY <1>1, <1>2, <1>3, Constants DEF Refusals
<1>5. Numbered'
  BY <1>1, <1>3, Numbers, Constants DEF Numbered
<1>6. Pending' /\ Retries'
  BY <1>1, <1>2, Constants DEF Pending, Retries
<1>7. secrets.refresh \notin server.spent
  BY <1>1, StoredUnspent
<1>8. Unspent'
  BY <1>1, <1>2, <1>7, Constants DEF Unspent, InUse, Strict
<1> QED
  BY <1>4, <1>5, <1>6, <1>8 DEF SignedInv

LEMMA SaveSigned ==
  ASSUME GrantInv, SignedInv, SaveBackendState
  PROVE  SignedInv'
<1>1. /\ TokenTypeOK
      /\ Refusals /\ Numbered /\ Pending /\ Retries /\ Unspent
      /\ slot # None /\ fsAuth # None
      /\ secrets' = setBackendSecrets(mgr[slot].refresh, mgr[slot].access)
      /\ UNCHANGED <<world, server, mgr, slot, fsAuth, connect, req, events>>
  BY DEF GrantInv, SignedInv, SaveBackendState
<1>2. /\ slot \in Manager
      /\ secrets'.refresh \in {secrets.refresh, mgr[slot].refresh}
      /\ secrets'.access \in {secrets.access, mgr[slot].access}
  BY <1>1 DEF TokenTypeOK, setBackendSecrets
<1>3. Refusals' /\ Retries'
  BY <1>1 DEF Refusals, Gone, Retries
<1>4. Numbered'
  BY <1>1, <1>2 DEF Numbered
<1>5. Pending'
  BY <1>1, <1>2 DEF Pending
<1>6. Unspent'
  BY <1>1 DEF Unspent, InUse, Strict
<1> QED
  BY <1>3, <1>4, <1>5, <1>6 DEF SignedInv
LEMMA AnswerSigned ==
  ASSUME GrantInv, SignedInv, NEW m \in Manager, ServerRefreshes(m)
  PROVE  SignedInv'
<1> DEFINE t == mgr[m].call.refresh
           c == mgr'[m].call
<1>1. /\ TokenTypeOK /\ Roles /\ Calls
      /\ Refusals /\ Numbered /\ Pending /\ Retries /\ Unspent
      /\ UNCHANGED <<world, secrets, slot, fsAuth, connect, req, events>>
  BY DEF GrantInv, SignedInv, ServerRefreshes
<1>2. /\ mgr[m].call.at = "sent" /\ mgr' \in [Manager -> State] /\ Alike(m)
      /\ \A o \in Manager \ {m} : mgr'[o] = mgr[o]
      /\ server' \in ServerState
      /\ server'.over = server.over /\ server'.withdrawn = server.withdrawn
      /\ \/ c.at = "denied" /\ c.refresh = t /\ ~Honoured(t) /\ server' = server
         \/ /\ c.at = "ok" /\ Honoured(t)
            /\ c.access = [grant |-> t.grant, n |-> server.access + 1]
            /\ server'.access = server.access + 1
            /\ \/ /\ c.refresh = t /\ server'.spent = server.spent
                  /\ server'.refresh >= server.refresh
               \/ /\ c.refresh = [grant |-> t.grant, n |-> server.refresh + 1]
                  /\ server'.refresh = server.refresh + 1
                  /\ server'.spent = server.spent \cup (IF Strict THEN {t} ELSE {})
  BY <1>1, AnswerFacts
<1>3. /\ t # NoToken /\ t.grant = mgr[m].refresh.grant /\ t \in AnyToken
      /\ t.n \in Nat /\ t.n <= server.refresh
  BY <1>1, <1>2, Numbers DEF Calls, Numbered
<1>4. Strict => m = fsAuth /\ t = mgr[m].refresh /\ mgr[m].refresh \notin server.spent
  BY <1>1, <1>2, LiveOnly, Constants DEF Unspent
<1>5. /\ mgr'[m].refresh = mgr[m].refresh /\ mgr'[m].access = mgr[m].access
      /\ mgr'[m].failed = mgr[m].failed
  BY <1>2 DEF Alike
<1>n. /\ server.access \in Nat /\ server.refresh \in Nat
      /\ server'.access \in Nat /\ server'.refresh \in Nat
      /\ server'.access >= server.access /\ server'.refresh >= server.refresh
  <2>1. server.access \in Nat /\ server'.access \in Nat /\ server.refresh \in Nat
        /\ server'.refresh \in Nat
    BY <1>1, <1>2, Numbers DEF ServerState
  <2> QED
    BY <1>2, <2>1
<1>6. c.at = "ok" => /\ c.access \in AnyToken /\ c.access.n = server.access + 1
                     /\ server'.access = server.access + 1
  BY <1>2, <1>3, <1>n DEF AnyToken
<1>7. c.refresh.n <= server'.refresh
  <2>1. CASE c.refresh = t
    BY <1>3, <1>n, <2>1
  <2>2. CASE /\ c.refresh = [grant |-> t.grant, n |-> server.refresh + 1]
             /\ server'.refresh = server.refresh + 1
    BY <1>n, <2>2
  <2> QED
    BY <1>2, <2>1, <2>2
<1>8. c.at = "denied" => mgr[m].refresh.grant \in server.withdrawn \cup {0}
  BY <1>1, <1>2, <1>3, <1>4 DEF Honoured, Unspent
<1>9. c.at \in {"denied", "ok"}
  BY <1>2
<1>s. /\ \A x \in server'.spent : x \in server.spent \/ x = t
      /\ ~Strict => server'.spent = {}
      /\ Strict /\ c.at = "ok" => c.refresh \notin server'.spent
      /\ c.at # "ok" => server'.spent = server.spent
  <2>1. server.refresh + 1 > t.n /\ \A x \in server.spent : x.n # server.refresh + 1
    BY <1>1, <1>3, <1>n, Numbers DEF Numbered
  <2> HIDE DEF t, c
  <2>2. \A x : x = [grant |-> t.grant, n |-> server.refresh + 1] => x.n = server.refresh + 1
    OBVIOUS
  <2>3. [grant |-> t.grant, n |-> server.refresh + 1] \notin server.spent \cup {t}
    BY <1>3, <1>n, <2>1, <2>2
  <2> QED
    BY <1>1, <1>2, <2>3 DEF Unspent, Honoured
<1> HIDE DEF c, t
<1>10. Refusals'
  BY <1>1, <1>2, <1>5, <1>8 DEF Refusals, Gone, c
<1>11. Numbered'
  <2>1. ASSUME NEW o \in Manager
        PROVE  /\ mgr'[o].refresh.n <= server'.refresh /\ mgr'[o].access.n <= server'.access
               /\ mgr'[o].call.refresh.n <= server'.refresh
               /\ mgr'[o].call.at = "ok" => mgr'[o].call.access.n <= server'.access
    <3>0. /\ mgr[o].refresh.n <= server'.refresh /\ mgr[o].access.n <= server'.access
          /\ mgr[o].call.refresh.n <= server'.refresh
          /\ mgr[o].call.at = "ok" => mgr[o].call.access.n <= server'.access
      BY <1>1, <1>n, Numbers DEF Numbered
    <3>1. CASE o = m
      BY <1>5, <1>6, <1>7, <1>n, <3>0, <3>1 DEF c
    <3>2. CASE o # m
      BY <1>2, <3>0, <3>2
    <3> QED
      BY <3>1, <3>2
  <2>2. /\ \A a \in server'.over : a.n <= server'.access
        /\ secrets'.refresh.n <= server'.refresh /\ secrets'.access.n <= server'.access
    BY <1>1, <1>2, <1>n, Numbers DEF Numbered
  <2>3. \A x \in server'.spent : x # NoToken /\ x.n <= server'.refresh
    BY <1>1, <1>3, <1>n, <1>s, Numbers DEF Numbered
  <2> QED
    BY <2>1, <2>2, <2>3 DEF Numbered
<1>12. Pending'
  <2>1. ASSUME c.at = "ok"
        PROVE  /\ c.access \notin server.over /\ c.access # secrets.access
               /\ \A o \in Manager : mgr[o].access # c.access
               /\ \A o \in Manager : mgr[o].call.at = "ok" => mgr[o].call.access # c.access
    <3>1. c.access.n = server.access + 1
      BY <1>6, <2>1
    <3> QED
      BY <1>1, <1>n, <3>1, Numbers DEF Numbered
  <2>2. /\ \A o \in Manager : mgr'[o].access = mgr[o].access
        /\ server'.over = server.over /\ secrets' = secrets
    BY <1>1, <1>2, <1>5
  <2> QED
    BY <1>1, <1>2, <2>1, <2>2 DEF Pending, c
<1>13. Retries'
  BY <1>1, <1>2 DEF Retries
<1>14. Unspent'
  <2>1. ASSUME Strict, NEW o \in Manager
        PROVE  /\ mgr'[o].call.at = "sent" => mgr'[o].call.refresh = mgr'[o].refresh
               /\ mgr'[o].call.at = "ok" => mgr'[o].call.refresh \notin server'.spent
    <3>1. CASE o = m
      BY <1>9, <1>s, <2>1, <3>1 DEF c
    <3>2. CASE o # m
      BY <1>2, <1>4, <2>1, <3>2, LiveOnly, Constants
    <3> QED
      BY <3>1, <3>2
  <2>2. ASSUME Strict PROVE fsAuth = m /\ m # None
    BY <1>4, <2>2, Bounds
  <2>3. ASSUME Strict, c.at # "ok" PROVE mgr'[m].refresh \notin server'.spent
    BY <1>4, <1>5, <1>s, <2>3
  <2> QED
    BY <1>1, <1>s, <2>1, <2>2, <2>3 DEF Unspent, InUse, Strict, c
<1> QED
  BY <1>10, <1>11, <1>12, <1>13, <1>14 DEF SignedInv

LEMMA FailureSigned ==
  ASSUME GrantInv, SignedInv, NoModes, NEW m \in Manager,
         RefreshLost(m) \/ PublishFails(m) \/ RefreshDenied(m)
  PROVE  SignedInv'
<1>1. /\ TokenTypeOK
      /\ Refusals /\ Numbered /\ Pending /\ Retries /\ Unspent
  BY DEF GrantInv, SignedInv
<1>2. /\ mgr' \in [Manager -> State] /\ mgr'[m].call = NoCall /\ mgr[m].call.at # "none"
      /\ mgr'[m].refresh = mgr[m].refresh /\ mgr'[m].access = mgr[m].access
      /\ mgr'[m].failed # mgr[m].failed => mgr[m].call.at = "denied"
      /\ \A o \in Manager \ {m} : mgr'[o] = mgr[o]
      /\ \A r \in Request :
           \/ req'[r] = req[r]
           \/ /\ req'[r].at \in {"failed", "refused"}
              /\ req'[r].at = "refused" => /\ mgr[m].call.at = "denied"
                                           /\ req'[r].token = mgr[m].refresh
      /\ UNCHANGED <<world, server, secrets, slot, fsAuth, connect, events>>
  BY <1>1, FailureFacts
<1>3. Strict => mgr[m].call.at # "ok"
  BY DEF RefreshLost, PublishFails, RefreshDenied, Allowed, NoModes
<1>4. \A o \in Manager : mgr'[o].refresh = mgr[o].refresh /\ mgr'[o].access = mgr[o].access
  BY <1>2
<1>5. Refusals'
  BY <1>1, <1>2, <1>4, Constants DEF Refusals, Gone
<1>6. Numbered'
  BY <1>1, <1>2, <1>4, Numbers, Constants DEF Numbered
<1>7. Pending'
  BY <1>1, <1>2, <1>4, Constants DEF Pending
<1>8. Retries'
  BY <1>1, <1>2 DEF Retries
<1>9. Unspent'
  <2>1. Strict => m = fsAuth /\ mgr[m].refresh \notin server.spent
    BY <1>2, <1>3, LiveOnly, Constants
  <2>2. \A r \in Request : InUse(r)' => InUse(r) /\ req'[r] = req[r]
    BY <1>2 DEF InUse
  <2> QED
    BY <1>1, <1>2, <2>1, <2>2, Constants DEF Unspent, Strict
<1> QED
  BY <1>5, <1>6, <1>7, <1>8, <1>9 DEF SignedInv

LEMMA SuccessSigned ==
  ASSUME GrantInv, SignedInv, NEW m \in Manager, RefreshSucceeds(m)
  PROVE  SignedInv'
<1> DEFINE c == mgr[m].call
<1>1. /\ TokenTypeOK /\ Calls
      /\ Refusals /\ Numbered /\ Pending /\ Retries /\ Unspent
  BY DEF GrantInv, SignedInv
<1>2. /\ c.at = "ok" /\ c \in Call
      /\ mgr' \in [Manager -> State] /\ mgr'[m].call = NoCall /\ mgr'[m].failed = FALSE
      /\ mgr'[m].refresh = c.refresh /\ mgr'[m].access = c.access
      /\ \A o \in Manager \ {m} : mgr'[o] = mgr[o]
      /\ \A r \in Request :
           IF req[r].at = "waiting" /\ req[r].mgr = m
           THEN /\ req'[r].at = "api" /\ req'[r].token = c.access
                /\ req'[r].mgr = m /\ req'[r].retried = req[r].retried
           ELSE req'[r] = req[r]
      /\ secrets'.access = secrets.access
      /\ secrets'.refresh \in {secrets.refresh, c.refresh}
      /\ UNCHANGED <<world, server, slot, fsAuth, connect, events>>
  BY <1>1, SuccessFacts
<1> HIDE DEF c
<1>3. Refusals'
  BY <1>1, <1>2, Constants DEF Refusals, Gone
<1>4. Numbered'
  BY <1>1, <1>2, Numbers, Constants DEF Numbered, c
<1>5. Pending'
  BY <1>1, <1>2, Constants DEF Pending, c
<1>6. Retries'
  BY <1>1, <1>2 DEF Retries, Pending, c
<1>7. Unspent'
  <2>1. Strict => m = fsAuth /\ c.refresh \notin server.spent
    BY <1>1, <1>2, LiveOnly, Constants DEF Unspent, c
  <2>2. \A r \in Request : InUse(r)' => InUse(r) /\ req'[r].mgr = req[r].mgr
    BY <1>2 DEF InUse
  <2>3. m # None
    BY Bounds
  <2> QED
    BY <1>1, <1>2, <2>1, <2>2, <2>3, Constants DEF Unspent, Strict
<1> QED
  BY <1>3, <1>4, <1>5, <1>6, <1>7 DEF SignedInv
LEMMA AccessSigned ==
  ASSUME GrantInv, SignedInv, NEW r \in Request, NEW q \in Sent, q.mgr \in Manager,
         NEW force \in BOOLEAN, getAccessToken(r, q, force), q.retried => force,
         Strict => q.mgr = fsAuth,
         UNCHANGED <<world, server, secrets, slot, fsAuth, connect, events>>
  PROVE  SignedInv'
<1> DEFINE k == q.mgr
           sent == [at |-> "sent", refresh |-> mgr[k].refresh, access |-> NoToken]
<1>1. /\ TokenTypeOK
      /\ Refusals /\ Numbered /\ Pending /\ Retries /\ Unspent
  BY DEF GrantInv, SignedInv
<1>2. /\ mgr' \in [Manager -> State]
      /\ \A o \in Request \ {r} : req'[o] = req[o]
      /\ req'[r].mgr = k /\ req'[r].retried = q.retried
      /\ req'[r].at = "refused" =>
           /\ req'[r].token = mgr[k].refresh
           /\ mgr[k].refresh = NoToken \/ mgr[k].failed
      /\ req'[r].at = "api" => ~force
      /\ \/ mgr' = mgr
         \/ /\ mgr[k].call = NoCall
            /\ \A o \in Manager \ {k} : mgr'[o] = mgr[o]
            /\ mgr'[k] = [mgr[k] EXCEPT !.call = mgr'[k].call] /\ mgr'[k].call = sent
  BY <1>1, AccessFacts
<1>3. /\ \A o \in Manager : /\ mgr'[o].refresh = mgr[o].refresh
                            /\ mgr'[o].access = mgr[o].access
                            /\ mgr'[o].failed = mgr[o].failed
      /\ \A o \in Manager : \/ mgr'[o].call = mgr[o].call
                            \/ o = k /\ mgr'[o].call = sent /\ mgr[k].call = NoCall
  <2> HIDE DEF sent
  <2>1. CASE mgr' = mgr
    BY <2>1
  <2>2. CASE mgr' # mgr
    <3>1. mgr[k] \in State
      BY <1>1 DEF TokenTypeOK
    <3>2. /\ mgr'[k].refresh = mgr[k].refresh /\ mgr'[k].access = mgr[k].access
          /\ mgr'[k].failed = mgr[k].failed
      BY <1>2, <2>2, <3>1 DEF State
    <3> QED
      BY <1>2, <2>2, <3>2
  <2> QED
    BY <2>1, <2>2
<1>4. sent.at = "sent" /\ sent.refresh = mgr[k].refresh
  OBVIOUS
<1>k. k \in Manager /\ (Strict => k = fsAuth)
  OBVIOUS
<1> HIDE DEF sent, k
<1>5. Refusals'
  BY <1>1, <1>2, <1>3, <1>4, <1>k, Constants DEF Refusals, Gone
<1>6. Numbered'
  BY <1>1, <1>3, <1>4 DEF Numbered
<1>7. Pending'
  BY <1>1, <1>3, <1>4 DEF Pending
<1>8. Retries'
  BY <1>1, <1>2 DEF Retries
<1>9. Unspent'
  <2>1. Strict => \A o \in Request : InUse(o)' => req'[o].mgr = fsAuth
    BY <1>1, <1>2, <1>k DEF Unspent, InUse
  <2>2. ASSUME Strict, NEW o \in Manager
        PROVE  /\ mgr'[o].call.at = "sent" => mgr'[o].call.refresh = mgr'[o].refresh
               /\ mgr'[o].call.at = "ok" => mgr'[o].call.refresh \notin server.spent
    BY <1>1, <1>3, <1>4, <2>2 DEF Unspent
  <2>3. ASSUME Strict, fsAuth # None, mgr'[fsAuth].call.at # "ok"
        PROVE  mgr'[fsAuth].refresh \notin server.spent
    <3>1. fsAuth \in Manager
      BY <1>1, <2>3 DEF TokenTypeOK
    <3> QED
      BY <1>1, <1>3, <2>3, <3>1, Constants DEF Unspent
  <2> QED
    BY <1>1, <2>1, <2>2, <2>3 DEF Unspent, Strict
<1> QED
  BY <1>5, <1>6, <1>7, <1>8, <1>9 DEF SignedInv

LEMMA StartSigned ==
  ASSUME GrantInv, SignedInv, NEW r \in Request, StartRequest(r)
  PROVE  SignedInv'
<1> DEFINE q == [Idle EXCEPT !.mgr = fsAuth]
<1>1. /\ fsAuth # None /\ getAccessToken(r, q, FALSE)
      /\ UNCHANGED <<world, server, secrets, slot, fsAuth, connect, events>>
  BY DEF StartRequest
<1>2. fsAuth \in Manager
  BY <1>1 DEF GrantInv, TokenTypeOK
<1>3. q \in Sent /\ q.mgr = fsAuth /\ q.retried = FALSE
  BY <1>2, Constants DEF Sent, Idle
<1> HIDE DEF q
<1> QED
  BY <1>1, <1>2, <1>3, AccessSigned

LEMMA ApiSigned ==
  ASSUME GrantInv, SignedInv, NEW r \in Request, ApiAnswers(r)
  PROVE  SignedInv'
<1>1. /\ TokenTypeOK /\ Roles /\ Retries /\ Unspent
      /\ req[r].at = "api" /\ req[r] \in Sent
      /\ req \in [Request -> Sent] /\ connect \in ConnectType /\ slot \in Manager \cup {None}
      /\ server \in ServerState
      /\ UNCHANGED <<world, server, secrets, slot, fsAuth, connect, events>>
  BY DEF GrantInv, SignedInv, ApiAnswers, TokenTypeOK
<1>2. ASSUME Fades, req' \in [Request -> Sent], req'[r].at \notin {"waiting", "api"},
             \A o \in Request \ {r} : req'[o] = req[o],
             req'[r].at = "refused" => req'[r].token.grant \in server.withdrawn \cup {0}
      PROVE  SignedInv'
  <2>1. Superseded => Superseded'
    BY <1>1 DEF Superseded
  <2>2. connect.at = "exchange" <=> connect.mgr # None
    BY <1>1, Bounds DEF Roles
  <2>3. Quietly
    BY <1>1, <1>2, <2>1, <2>2 DEF Quietly
  <2>4. Elsewhere
    BY <1>1, Numbers DEF Elsewhere
  <2> QED
    BY <1>1, <1>2, <2>3, <2>4, QuietSigned
<1>3. CASE Ends(r)
  BY <1>1, <1>2, <1>3, EndsFades, Constants
<1>4. CASE /\ ~Live(req[r].token) /\ req[r].retried
           /\ req' = [req EXCEPT ![r].at = "refused"] /\ UNCHANGED mgr
  <2>1. Fades
    BY <1>1, <1>4 DEF Fades, Like, TokenTypeOK
  <2> DEFINE w == [req[r] EXCEPT !.at = "refused"]
  <2>2. req' = [req EXCEPT ![r] = w] /\ w \in Sent /\ w.at = "refused" /\ w.token = req[r].token
    BY <1>1, <1>4 DEF Sent
  <2>3. req[r].token.grant \in server.withdrawn \cup {0}
    BY <1>1, <1>4, Constants DEF Live, Retries
  <2> HIDE DEF w
  <2> QED
    BY <1>1, <1>2, <2>1, <2>2, <2>3
<1>5. CASE getAccessToken(r, [req[r] EXCEPT !.retried = TRUE], TRUE)
  <2> DEFINE q == [req[r] EXCEPT !.retried = TRUE]
  <2>1. q \in Sent /\ q.mgr = req[r].mgr
    BY <1>1 DEF Sent
  <2>2. req[r].mgr \in Manager /\ (Strict => req[r].mgr = fsAuth)
    BY <1>1 DEF Roles, Unspent, InUse
  <2>3. getAccessToken(r, q, TRUE)
    BY <1>5
  <2> HIDE DEF q
  <2> QED
    BY <1>1, <2>1, <2>2, <2>3, AccessSigned
<1> QED
  BY <1>3, <1>4, <1>5 DEF ApiAnswers

LEMMA DetachedSigned ==
  ASSUME GrantInv, SignedInv, NoModes, NEW r \in Request, StartDetachedRead(r)
  PROVE  SignedInv'
<1>1. /\ TokenTypeOK
      /\ Refusals /\ Numbered /\ Pending /\ Retries /\ Unspent
      /\ UNCHANGED <<world, server, secrets, slot, fsAuth, connect, events>>
  BY DEF GrantInv, SignedInv, StartDetachedRead
<1>2. PICK m \in Manager :
         /\ Allowed("detached", ~Strict)
         /\ mgr' \in [Manager -> State]
         /\ mgr'[m].refresh = secrets.refresh /\ mgr'[m].access = secrets.access
         /\ mgr'[m].failed = FALSE
         /\ \A o \in Manager \ {m} : mgr'[o] = mgr[o]
         /\ req'[r].mgr = m /\ req'[r].retried = FALSE
         /\ \A o \in Request \ {r} : req'[o] = req[o]
         /\ \/ req'[r].at = "api" /\ mgr'[m].call = NoCall
            \/ /\ req'[r].at = "waiting"
               /\ mgr'[m].call = [at |-> "sent", refresh |-> secrets.refresh, access |-> NoToken]
  BY <1>1, DetachedFacts
<1>3. /\ mgr'[m].call.at \in {"none", "sent"}
      /\ mgr'[m].call.refresh \in {NoToken, secrets.refresh}
  BY <1>2, Constants
<1>4. ~Strict
  BY <1>2 DEF Allowed, NoModes
<1>5. Refusals'
  BY <1>1, <1>2, <1>3 DEF Refusals, Gone
<1>6. Numbered'
  BY <1>1, <1>2, <1>3, Numbers, Constants DEF Numbered
<1>7. Pending'
  BY <1>1, <1>2, <1>3 DEF Pending
<1>8. Retries'
  BY <1>1, <1>2 DEF Retries
<1>9. Unspent'
  BY <1>1, <1>4 DEF Unspent, Strict
<1> QED
  BY <1>5, <1>6, <1>7, <1>8, <1>9 DEF SignedInv

THEOREM SignedStep == ASSUME GrantInv, SignedInv, NoModes, [Next]_vars PROVE SignedInv'
<1>1. CASE Authorization
  BY <1>1, QuietStepsSigned, ConsentSigned, RebindSigned, DisconnectSigned, RestartSigned
  DEF Authorization
<1>2. CASE SaveBackendState
  BY <1>2, SaveSigned
<1>3. ASSUME NEW m \in Manager, Refresh(m) \/ PublishFails(m) \/ CooldownEnds(m)
      PROVE  SignedInv'
  BY <1>3, QuietStepsSigned, AnswerSigned, FailureSigned, SuccessSigned DEF Refresh
<1>4. ASSUME NEW r \in Request,
             StartRequest(r) \/ StartDetachedRead(r) \/ ApiAnswers(r) \/ RequestEnds(r)
      PROVE  SignedInv'
  BY <1>4, QuietStepsSigned, StartSigned, DetachedSigned, ApiSigned
<1>5. CASE \/ \E a \in Token(MaxAccess) : AccessDue(a) \/ AccessEnds(a)
           \/ \E g \in 1..MaxGrants : Withdraw(g)
           \/ UNCHANGED vars
  BY <1>5, QuietStepsSigned
<1> QED
  BY <1>1, <1>2, <1>3, <1>4, <1>5 DEF Next

THEOREM SignedInit == Init => SignedInv
<1> SUFFICES ASSUME Init PROVE SignedInv
  OBVIOUS
<1>1. /\ mgr = [m \in Manager |-> Blank] /\ fsAuth = None
      /\ secrets.refresh = NoToken /\ secrets.access = NoToken
      /\ server.access = 0 /\ server.refresh = 0
      /\ server.over = {} /\ server.spent = {}
      /\ \A r \in Request : req[r].at = "idle"
  BY Constants DEF Init
<1>2. Refusals /\ Numbered
  BY <1>1, Constants DEF Refusals, Numbered
<1>3. Pending /\ Retries /\ Unspent
  BY <1>1, Constants DEF Pending, Retries, Unspent, InUse
<1> QED
  BY <1>2, <1>3 DEF SignedInv

(* Leaving out the five schedules the code does not defend against, the    *)
(* user is sent to reconnect only when the provider withdrew the consent,  *)
(* whether the server rotates refresh tokens or not.                       *)
THEOREM SignedOutOnlyWhenWithdrawn == NoModes => (Spec => []NoFalseSignOut)
<1> SUFFICES ASSUME NoModes PROVE Spec => []NoFalseSignOut
  OBVIOUS
<1>1. Init => GrantInv /\ SignedInv
  BY GrantInit, SignedInit
<1>2. GrantInv /\ SignedInv /\ [Next]_vars => (GrantInv /\ SignedInv)'
  BY GrantStep, SignedStep DEF NoModes, NoMixing
<1>3. SignedInv => NoFalseSignOut
  BY DEF SignedInv, Refusals, Gone, NoFalseSignOut
<1> QED
  BY <1>1, <1>2, <1>3, PTL DEF Spec
===============================================================================
