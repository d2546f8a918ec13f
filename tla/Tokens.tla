------------------------------- MODULE Tokens -------------------------------
(***************************************************************************)
(* The OAuth tokens of one backend: who holds them, who refreshes them and *)
(* where they are kept (fs/oauth-pkce.ts, pkce-auth-provider.ts,           *)
(* pkce-app-folder-provider.ts, token-store.ts, googledrive/auth*.ts and   *)
(* provider-base.ts, the request wrappers of the three clients).           *)
(*                                                                         *)
(* A token manager (BaseOAuthTokenManager) keeps a refresh token and an    *)
(* access token in memory.  The provider's slot names the shared one, the  *)
(* live file system calls the one it was built on, and every read of the   *)
(* settings page makes a detached one.  SecretStorage outlives them all.   *)
(* Each request asks its manager for an access token, calls the API, and   *)
(* on a 401 asks once more with force.                                     *)
(*                                                                         *)
(* The authorization server is external.  It may keep a refresh token for  *)
(* ever, hand out new ones and honour the old, or honour the newest only.  *)
(* The expiry travels with its access token: settings get it a moment      *)
(* after SecretStorage, which can only make a token look older.            *)
(***************************************************************************)
EXTENDS Naturals, FiniteSets

CONSTANTS
  Request,      \* API requests under way at a time
  Managers,     \* how many token managers live at a time
  Worlds,       \* [code, policy]: whose code, "google" or "pkce", over a
                \* server that rotates "never", "lenient"ly or "strict"ly
  Modes,        \* schedules the other modules leave out, see Allowed
  MaxGrants,    \* consents the user gives
  MaxRefresh,   \* refresh tokens the server hands out
  MaxAccess,    \* access tokens the server hands out
  MaxEnded,     \* access tokens that expire or are dropped
  MaxEvents     \* restarts, rebuilds, withdrawals and disconnections

ASSUME TokenBounds ==
  /\ Worlds \subseteq [code : {"google", "pkce"}, policy : {"never", "lenient", "strict"}]
  /\ Modes \subseteq {"overlaps", "unsaved", "loses", "detached", "partial"}
  /\ {Managers, MaxGrants, MaxRefresh, MaxAccess, MaxEnded, MaxEvents} \subseteq Nat \ {0}

None == 0                                   \* no manager
Manager == 1..Managers
Token(n) == [grant : 1..MaxGrants, n : 1..n]
NoToken == [grant |-> 0, n |-> 0]
NoCall == [at |-> "none", refresh |-> NoToken, access |-> NoToken]
Blank == [refresh |-> NoToken, access |-> NoToken, failed |-> FALSE,
          hooked |-> FALSE, call |-> NoCall]
\* The token of a refused request is the one its manager worked with.
Idle == [at |-> "idle", mgr |-> None, token |-> NoToken, retried |-> FALSE]

VARIABLES
  world,     \* [code, policy]: fixed by the backend in use
  server,    \* [grants, refresh, access: how many were given; spent, over,
             \*  due: tokens no longer honoured, no longer alive, and past
             \*  the expiry the plugin was told; withdrawn: grants]
  secrets,   \* SecretStorage: [refresh, access]
  mgr,       \* the managers
  slot,      \* tokenAuth / googleAuth, the provider's shared manager
  fsAuth,    \* the manager the live file system's client was built on
  connect,   \* [at, mgr, nonce]: the authorization under way
  req,       \* the requests
  events

vars == <<world, server, secrets, mgr, slot, fsAuth, connect, req, events>>

Strict == world.policy = "strict"
Busy == {m \in Manager : \E r \in Request : req[r].mgr = m}
Free == {m \in Manager \ (Busy \cup {slot, fsAuth, connect.mgr}) : mgr[m].call = NoCall}
\* A manager nobody refers to any more is forgotten.
Kept(ms, used) == [m \in Manager |-> IF m \in used \/ ms[m].call # NoCall THEN ms[m] ELSE Blank]
Others(r) == {req[q].mgr : q \in Request \ {r}}
Fresh == CHOOSE m \in Free : TRUE
UnderWay == \E r \in Request : req[r].at \in {"waiting", "api"}

\* What SecretStorage holds is what every manager holds, and nobody is about
\* to change it.
Settled ==
  ~UnderWay /\ \A m \in {slot, fsAuth} \ {None} : mgr[m].refresh \in {NoToken, secrets.refresh}

\* The schedules the passing run leaves out: a reconnection overlapping a
\* request, or one of the file system it replaces; a strict server with a
\* manager whose token is not stored, with an answer lost after the token was
\* spent, or with a second manager.
Allowed(mode, safe) == mode \in Modes \/ safe

Honoured(t) == t # NoToken /\ t \notin server.spent /\ t.grant \notin server.withdrawn
Live(a) == a # NoToken /\ a \notin server.over /\ a.grant \notin server.withdrawn

Init ==
  /\ world \in Worlds
  /\ server = [grants |-> 0, refresh |-> 0, access |-> 0, spent |-> {}, over |-> {},
               due |-> {}, withdrawn |-> {}]
  /\ secrets = [refresh |-> NoToken, access |-> NoToken]
  /\ mgr = [m \in Manager |-> Blank]
  /\ slot = None /\ fsAuth = None
  /\ connect = [at |-> "no", mgr |-> None, nonce |-> FALSE]
  /\ req = [r \in Request |-> Idle]
  /\ events = 0

-----------------------------------------------------------------------------
(* The manager: BaseOAuthTokenManager.                                     *)

setTokens(m, s) == [m EXCEPT !.refresh = s.refresh, !.access = s.access, !.failed = FALSE]

\* Why a manager refuses without asking the server: nothing to show, or the
\* cooldown after a refusal; or a refresh is needed and there is no token.
Refuses(m, force) ==
  \/ m.refresh = NoToken /\ (m.access = NoToken \/ force \/ m.access \in server.due)
  \/ m.failed
Reuses(m, force) == ~force /\ m.access # NoToken /\ m.access \notin server.due

\* getAccessToken: refuse, reuse, or wait for the refresh under way, which is
\* started with the refresh token of this moment when there is none.
getAccessToken(r, q, force) ==
  LET m == mgr[q.mgr]
  IN  IF Refuses(m, force)
      THEN /\ req' = [req EXCEPT ![r] = [q EXCEPT !.at = "refused", !.token = m.refresh]]
           /\ UNCHANGED mgr
      ELSE IF Reuses(m, force)
      THEN /\ req' = [req EXCEPT ![r] = [q EXCEPT !.at = "api", !.token = m.access]]
           /\ UNCHANGED mgr
      ELSE /\ req' = [req EXCEPT ![r] = [q EXCEPT !.at = "waiting"]]
           /\ mgr' = IF m.call # NoCall THEN mgr
                     ELSE [mgr EXCEPT ![q.mgr].call =
                            [NoCall EXCEPT !.at = "sent", !.refresh = m.refresh]]

\* setBackendSecret for both tokens: an empty value is skipped.
setBackendSecrets(t, a) ==
  [refresh |-> IF t = NoToken THEN secrets.refresh ELSE t,
   access |-> IF a = NoToken THEN secrets.access ELSE a]

\* Everyone who awaits the promise of manager m gets its outcome.
Settle(m, outcome) ==
  req' = [r \in Request |-> IF req[r].at = "waiting" /\ req[r].mgr = m
                            THEN [req[r] EXCEPT !.at = outcome.at, !.token = outcome.token]
                            ELSE req[r]]

\* Mutant of storeTokenResponse: a manager that has a refresh token keeps it.
storeTokenResponseKeeps(m, refresh, access) ==
  [m EXCEPT !.access = access, !.failed = FALSE,
            !.refresh = IF @ = NoToken THEN refresh ELSE @]

\* storeTokenResponse, after the rotation hook: install every field.
storeTokenResponse(m, refresh, access) ==
  [m EXCEPT !.access = access, !.failed = FALSE,
            !.refresh = IF refresh = NoToken THEN @ ELSE refresh]

-----------------------------------------------------------------------------
(* The authorization server.                                               *)

Issue(t, a, used) ==
  server' = [server EXCEPT !.refresh = IF t.n > @ THEN t.n ELSE @, !.access = a.n,
                           !.spent = @ \cup used]

\* It answers a refresh: a token it no longer honours gets a 400, another one
\* an access token and perhaps a new refresh token.
ServerRefreshes(m) ==
  LET t == mgr[m].call.refresh
      a == [grant |-> t.grant, n |-> server.access + 1]
      next == [grant |-> t.grant, n |-> server.refresh + 1]
      answer(u) == mgr' = [mgr EXCEPT ![m].call = [at |-> "ok", refresh |-> u, access |-> a]]
  IN  /\ mgr[m].call.at = "sent"
      /\ \/ ~Honoured(t) /\ mgr' = [mgr EXCEPT ![m].call.at = "denied"] /\ UNCHANGED server
         \/ /\ Honoured(t) /\ server.access < MaxAccess
            /\ \/ answer(t) /\ Issue(t, a, {})
               \/ /\ world.policy # "never" /\ server.refresh < MaxRefresh
                  /\ answer(next) /\ Issue(next, a, IF Strict THEN {t} ELSE {})
      /\ UNCHANGED <<world, secrets, slot, fsAuth, connect, req, events>>

\* The request or its answer is lost: an error that arms no cooldown.
RefreshLost(m) ==
  /\ \/ mgr[m].call.at = "sent"
     \/ mgr[m].call.at = "ok" /\ Allowed("loses", ~Strict)
  /\ mgr' = [mgr EXCEPT ![m].call = NoCall]
  /\ Settle(m, [at |-> "failed", token |-> NoToken])
  /\ UNCHANGED <<world, server, secrets, slot, fsAuth, connect, events>>

\* The plugin's clock passes the expiry it was told, less the skew; or the API
\* drops a token before that, but not in the moment after it was issued.
AccessDue(a) ==
  /\ a.n <= server.access /\ a \notin server.due \cup server.over
  /\ Cardinality(server.due \cup server.over) < MaxEnded
  /\ \E m \in Manager : mgr[m].access = a
  /\ server' = [server EXCEPT !.due = @ \cup {a}]
  /\ UNCHANGED <<world, secrets, mgr, slot, fsAuth, connect, req, events>>

AccessEnds(a) ==
  /\ a.n <= server.access /\ Live(a) /\ a \notin server.due
  /\ Cardinality(server.due \cup server.over) < MaxEnded
  /\ \E m \in Manager : mgr[m].access = a
  /\ \A r \in Request : ~(req[r].at = "api" /\ req[r].retried /\ req[r].token = a)
  /\ server' = [server EXCEPT !.over = @ \cup {a}]
  /\ UNCHANGED <<world, secrets, mgr, slot, fsAuth, connect, req, events>>

\* The user removes the plugin's access at the provider.
Withdraw(g) ==
  /\ g \in 1..server.grants \ server.withdrawn
  /\ events < MaxEvents /\ events' = events + 1
  /\ server' = [server EXCEPT !.withdrawn = @ \cup {g}]
  /\ UNCHANGED <<world, secrets, mgr, slot, fsAuth, connect, req>>

-----------------------------------------------------------------------------
(* performRefresh, from the answer on.                                     *)

RefreshDenied(m) ==
  /\ mgr[m].call.at = "denied"
  /\ mgr' = [mgr EXCEPT ![m] = [@ EXCEPT !.call = NoCall, !.failed = TRUE]]
  /\ Settle(m, [at |-> "refused", token |-> mgr[m].refresh])
  /\ UNCHANGED <<world, server, secrets, slot, fsAuth, connect, events>>

\* A rotated token is published first, by the managers that have the hook.
RefreshSucceeds(m) ==
  LET c == mgr[m].call
      rotated == mgr[m].refresh # NoToken /\ c.refresh # mgr[m].refresh
  IN  /\ c.at = "ok"
      /\ secrets' = IF rotated /\ mgr[m].hooked THEN [secrets EXCEPT !.refresh = c.refresh]
                    ELSE secrets
      /\ mgr' = [mgr EXCEPT ![m] = [storeTokenResponse(@, c.refresh, c.access)
                                      EXCEPT !.call = NoCall]]
      /\ Settle(m, [at |-> "api", token |-> c.access])
      /\ UNCHANGED <<world, server, slot, fsAuth, connect, events>>

\* publishBackendSecret throws: nothing is installed, the caller gets an error.
PublishFails(m) ==
  LET c == mgr[m].call
  IN  /\ c.at = "ok" /\ mgr[m].hooked
      /\ mgr[m].refresh # NoToken /\ c.refresh # mgr[m].refresh
      /\ Allowed("loses", ~Strict)
      /\ mgr' = [mgr EXCEPT ![m].call = NoCall]
      /\ Settle(m, [at |-> "failed", token |-> NoToken])
      /\ UNCHANGED <<world, server, secrets, slot, fsAuth, connect, events>>

\* Sixty seconds pass.
CooldownEnds(m) ==
  /\ mgr[m].failed /\ mgr' = [mgr EXCEPT ![m].failed = FALSE]
  /\ UNCHANGED <<world, server, secrets, slot, fsAuth, connect, req, events>>

-----------------------------------------------------------------------------
(* Requests: the clients' request wrappers.                                *)

\* A new consent is stored, the live file system is still that of the old one.
Superseded == connect.at = "rebind" /\ fsAuth # slot

\* A request of a cycle, on the manager of the live file system.
StartRequest(r) ==
  /\ req[r] = Idle /\ fsAuth # None
  /\ Allowed("overlaps", world.policy = "never" \/ ~Superseded)
  /\ getAccessToken(r, [Idle EXCEPT !.mgr = fsAuth], FALSE)
  /\ UNCHANGED <<world, server, secrets, slot, fsAuth, connect, events>>

\* A read of the settings page, on a manager of its own, seeded from the
\* store.  Only the forced refreshes and the due ones of it can be told apart
\* from the shared manager's.
StartDetachedRead(r) ==
  /\ req[r] = Idle /\ Free # {} /\ secrets.refresh # NoToken
  /\ Allowed("detached", ~Strict)
  /\ LET m == [setTokens(Blank, secrets) EXCEPT !.hooked = TRUE]
         q == [Idle EXCEPT !.mgr = Fresh]
     IN  IF Reuses(m, FALSE)
         THEN /\ mgr' = [mgr EXCEPT ![Fresh] = m]
              /\ req' = [req EXCEPT ![r] = [q EXCEPT !.at = "api", !.token = m.access]]
         ELSE /\ mgr' = [mgr EXCEPT ![Fresh] =
                          [m EXCEPT !.call = [NoCall EXCEPT !.at = "sent", !.refresh = m.refresh]]]
              /\ req' = [req EXCEPT ![r] = [q EXCEPT !.at = "waiting"]]
  /\ UNCHANGED <<world, server, secrets, slot, fsAuth, connect, events>>

Ends(r) ==
  /\ req' = [req EXCEPT ![r] = Idle]
  /\ mgr' = Kept(mgr, Others(r) \cup {slot, fsAuth, connect.mgr})

\* Mutant of ApiAnswers: the retry forgets that it is one.
ApiAnswersRetrying(r) ==
  /\ req[r].at = "api"
  /\ IF Live(req[r].token) THEN Ends(r)
     ELSE getAccessToken(r, req[r], FALSE)
  /\ UNCHANGED <<world, server, secrets, slot, fsAuth, connect, events>>

\* The API answers; on the first 401 the token is refreshed by force and the
\* request sent again, a second 401 is the caller's (classified "auth").
ApiAnswers(r) ==
  /\ req[r].at = "api"
  /\ \/ Live(req[r].token) /\ Ends(r)
     \/ /\ ~Live(req[r].token)
        /\ IF req[r].retried
           THEN req' = [req EXCEPT ![r].at = "refused"] /\ UNCHANGED mgr
           ELSE getAccessToken(r, [req[r] EXCEPT !.retried = TRUE], TRUE)
  /\ UNCHANGED <<world, server, secrets, slot, fsAuth, connect, events>>

RequestEnds(r) ==
  /\ req[r].at \in {"refused", "failed"}
  /\ Ends(r)
  /\ UNCHANGED <<world, server, secrets, slot, fsAuth, connect, events>>

\* The end of a cycle: readBackendState writes back what the shared manager
\* holds, empty values skipped; the Google providers only over a stored token.
SaveBackendState ==
  /\ fsAuth # None /\ slot # None /\ connect.at = "no"
  /\ world.code = "google" => mgr[slot].refresh # NoToken /\ secrets.refresh # NoToken
  /\ secrets' = setBackendSecrets(mgr[slot].refresh, mgr[slot].access)
  /\ secrets' # secrets
  /\ UNCHANGED <<world, server, mgr, slot, fsAuth, connect, req, events>>

-----------------------------------------------------------------------------
(* Connecting, rebuilding the file system, disconnecting, restarting.      *)

\* startAuth: the Google providers put a fresh manager, without the hook, in
\* the slot; the others only note state and verifier.
StartAuth ==
  /\ connect.at = "no" /\ ~connect.nonce /\ server.grants < MaxGrants
  /\ connect' = [connect EXCEPT !.nonce = TRUE]
  /\ IF world.code = "pkce" THEN UNCHANGED <<mgr, slot>>
     ELSE Free # {} /\ slot' = Fresh /\ mgr' = Kept(mgr, Busy \cup {fsAuth})
  /\ UNCHANGED <<world, server, secrets, fsAuth, req, events>>

\* completeAuth up to the exchange: the slot's manager or a new one, which the
\* Google providers take out of the slot meanwhile.
BeginCompleteAuth ==
  /\ connect.at = "no" /\ connect.nonce
  /\ LET m == IF slot # None THEN slot ELSE Fresh
     IN  /\ slot = None => Free # {}
         /\ connect' = [connect EXCEPT !.at = "exchange", !.mgr = m]
         /\ mgr' = IF slot # None THEN mgr ELSE [mgr EXCEPT ![m] = Blank]
         /\ slot' = IF world.code = "google" THEN None ELSE m
  /\ UNCHANGED <<world, server, secrets, fsAuth, req, events>>

\* A refresh under way on the manager that gets the new tokens, or, where
\* tokens rotate, on any.
Overlapped ==
  IF world.policy = "never" THEN connect.mgr # None /\ mgr[connect.mgr].call # NoCall
  ELSE UnderWay \/ \E m \in Manager : mgr[m].call # NoCall

\* The code is exchanged: tokens of a new consent, stored, then the manager
\* is the shared one.  Without a refresh token in the callback the Google
\* providers go on with the stored one.  (The built-in Google flow leaves the
\* end of a cooldown to the setTokens of the initBackend that follows.)
EndCompleteAuth ==
  /\ connect.at = "exchange" /\ server.access < MaxAccess
  /\ Allowed("overlaps", ~Overlapped)
  /\ \E given \in BOOLEAN :
       LET g == server.grants + 1
           a == [grant |-> g, n |-> server.access + 1]
           t == IF given THEN [grant |-> g, n |-> server.refresh + 1] ELSE secrets.refresh
           m == storeTokenResponse(mgr[connect.mgr], t, a)
       IN  /\ given => server.refresh < MaxRefresh
           /\ given \/ (world.code = "google" /\ Allowed("partial", secrets.refresh = NoToken))
           /\ server' = [server EXCEPT !.grants = g, !.access = a.n,
                                       !.refresh = IF given THEN t.n ELSE @]
           /\ IF t # NoToken
              THEN /\ mgr' = [mgr EXCEPT ![connect.mgr] = m]
                   /\ secrets' = setBackendSecrets(m.refresh, m.access)
                   /\ slot' = connect.mgr
                   /\ connect' = [at |-> "rebind", mgr |-> None, nonce |-> FALSE]
              ELSE /\ connect' = [connect EXCEPT !.at = "no", !.mgr = None]
                   /\ UNCHANGED <<mgr, secrets, slot>>
  /\ UNCHANGED <<world, fsAuth, req, events>>

\* The exchange fails: the Google providers drop the manager, the others keep
\* what they had; the nonce stays for another callback.
CompleteAuthFails ==
  /\ connect.at = "exchange"
  /\ events < MaxEvents /\ events' = events + 1
  /\ connect' = [connect EXCEPT !.at = "no", !.mgr = None]
  /\ mgr' = Kept(mgr, Busy \cup {slot, fsAuth})
  /\ UNCHANGED <<world, server, secrets, slot, fsAuth, req>>

\* createFs: the slot's manager, or a new one (with the hook only in the
\* Google providers), seeded from the store.
createFs ==
  LET m == IF slot # None THEN slot ELSE Fresh
      was == IF slot # None THEN mgr[slot] ELSE [Blank EXCEPT !.hooked = world.code = "google"]
  IN  /\ slot = None => Free # {}
      /\ secrets.refresh # NoToken
      /\ mgr' = Kept([mgr EXCEPT ![m] = setTokens(was, secrets)], Busy \cup {m})
      /\ slot' = m /\ fsAuth' = m

\* initBackend, after a connection or a change of settings.
Rebind ==
  /\ \/ connect.at = "rebind" /\ UNCHANGED events
     \/ connect.at = "no" /\ events < MaxEvents /\ events' = events + 1
  /\ Allowed("unsaved", ~Strict \/ Settled)
  /\ createFs
  /\ connect' = [connect EXCEPT !.at = "no"]
  /\ UNCHANGED <<world, server, secrets, req>>

\* disconnect: revokeAuth awaits the provider, then slot, secrets and file
\* system go.
Disconnect ==
  /\ connect.at = "no" /\ secrets.refresh # NoToken
  /\ events < MaxEvents /\ events' = events + 1
  /\ connect' = [connect EXCEPT !.at = "revoke"]
  /\ \/ UNCHANGED server
     \/ LET t == IF slot # None THEN mgr[slot].refresh ELSE secrets.refresh
        IN  t # NoToken /\ server' = [server EXCEPT !.withdrawn = @ \cup {t.grant}]
  /\ UNCHANGED <<world, secrets, mgr, slot, fsAuth, req>>

EndDisconnect ==
  /\ connect.at = "revoke"
  /\ Allowed("overlaps", ~Overlapped)
  /\ slot' = None /\ fsAuth' = None
  /\ secrets' = [refresh |-> NoToken, access |-> NoToken]
  /\ connect' = [at |-> "no", mgr |-> None, nonce |-> FALSE]
  /\ mgr' = Kept(mgr, Busy)
  /\ UNCHANGED <<world, server, req, events>>

\* The plugin is reloaded or the app killed; the file system is created again
\* from the store when there is a token.
Restart ==
  /\ events < MaxEvents /\ events' = events + 1
  /\ Allowed("unsaved", ~Strict \/ Settled)
  /\ req' = [r \in Request |-> Idle]
  /\ connect' = [connect EXCEPT !.at = "no", !.mgr = None]
  /\ LET none == [m \in Manager |-> Blank]
         m == [Blank EXCEPT !.hooked = world.code = "google"]
     IN  IF secrets.refresh # NoToken
         THEN /\ mgr' = [none EXCEPT ![1] = setTokens(m, secrets)]
              /\ slot' = 1 /\ fsAuth' = 1
         ELSE mgr' = none /\ slot' = None /\ fsAuth' = None
  /\ UNCHANGED <<world, server, secrets>>

-----------------------------------------------------------------------------

Authorization ==
  \/ StartAuth \/ BeginCompleteAuth \/ EndCompleteAuth \/ CompleteAuthFails
  \/ Rebind \/ Disconnect \/ EndDisconnect \/ Restart

Refresh(m) == ServerRefreshes(m) \/ RefreshLost(m) \/ RefreshDenied(m) \/ RefreshSucceeds(m)

Next ==
  \/ Authorization
  \/ SaveBackendState
  \/ \E m \in Manager : Refresh(m) \/ PublishFails(m) \/ CooldownEnds(m)
  \/ \E r \in Request : StartRequest(r) \/ StartDetachedRead(r) \/ ApiAnswers(r) \/ RequestEnds(r)
  \/ \E a \in Token(MaxAccess) : AccessDue(a) \/ AccessEnds(a)
  \/ \E g \in 1..MaxGrants : Withdraw(g)

Fairness ==
  /\ \A m \in Manager : WF_vars(Refresh(m))
  /\ \A r \in Request : WF_vars(ApiAnswers(r)) /\ WF_vars(RequestEnds(r))

Spec == Init /\ [][Next]_vars /\ Fairness

-----------------------------------------------------------------------------
(* The user is sent to reconnect only when the provider really withdrew    *)
(* the consent the manager works with, whatever was refreshed, rotated,    *)
(* lost or restarted before (oauth-pkce.ts authFailedAt, the rotation      *)
(* hook, readBackendState): a manager never presents a spent token, nor    *)
(* keeps the cooldown of a consent it no longer uses.                      *)
NoFalseSignOut ==
  \A r \in Request :
    req[r].at = "refused" => req[r].token.grant \in server.withdrawn \cup {0}

(* Access and refresh token are of one consent, in memory and in           *)
(* SecretStorage: after a reconnection to another account no request       *)
(* goes out with the access of the former one.                             *)
OneGrant ==
  \A s \in {secrets} \cup {mgr[m] : m \in Manager} :
    s.access # NoToken => s.access.grant = s.refresh.grant

(* A request for which a token must be refreshed, once or after a 401,     *)
(* ends: everyone who shares a refresh learns its outcome, and a token     *)
(* that is refused again is not asked for again.                           *)
RequestsEnd == \A r \in Request : req[r].at \in {"waiting", "api"} ~> req[r] = Idle
=============================================================================
