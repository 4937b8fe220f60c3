--------------------------- MODULE BrowserSession ---------------------------
(***************************************************************************)
(* One browser session of refract-server (browser.rs, oidc.rs) over its    *)
(* row in refract-storage (sessions.rs): requests authenticate by it and   *)
(* refresh its access token under a database lease that replicas share,    *)
(* each process caches the signing keys of the identity provider, and the  *)
(* provider rotates refresh tokens and refuses a spent one.  Sessions share*)
(* nothing but the keys, so one stands for all; a session id is never      *)
(* drawn again.                                                            *)
(*                                                                         *)
(* A refresh token is identified by its place in the rotation of the grant *)
(* (0: the provider issued none), an access token by its expiry; cookies,  *)
(* encryption and the sign-in that created the row are left out.  A        *)
(* request runs in one process, statement by statement, and stands for the *)
(* lease token it draws.                                                   *)
(***************************************************************************)
EXTENDS Integers

CONSTANTS
  Requests, Servers,
  Home,         \* the process that serves a request
  NoOne,        \* the empty lease token; also a mutex nobody holds
  Lease,        \* lease of a refresh (30 seconds)
  Margin,       \* a token is refreshed this long before it expires (30 seconds)
  Leeway,       \* of a token's expiry when it is verified (30 seconds)
  MaxHold,      \* external: time a request takes from a lookup or a claim on
                \* (an exchange times out in 10 seconds, a fetch of keys in 5)
  TokenLife,    \* external: lifetime of an access token
  SessionLife, Idle,       \* seven days, 24 hours
  KeysFresh, KeysBackoff,  \* key cache: 300 seconds, 30 for an unknown key
  Tries,        \* attempts to claim before a request gives up (120)
  MaxFailures,  \* bound on cancelled, crashed and failed calls
  MaxTime       \* bound on the clock

ASSUME SessionAssumption ==
  /\ Home \in [Requests -> Servers] /\ NoOne \notin Requests
  /\ {Lease, Margin, Leeway, MaxHold, TokenLife, SessionLife, Idle, KeysFresh,
      KeysBackoff, Tries, MaxFailures, MaxTime} \subseteq Nat
  /\ SessionLife > 0

\* A request ends before the lease it claimed, and before a token that was good
\* when it began stops being good.
ASSUME HoldAssumption == MaxHold < Lease /\ MaxHold < TokenLife /\ MaxHold <= Margin /\ MaxHold <= Leeway

VARIABLES
  now,
  enabled,   \* the subject is provisioned in the scope of the session
  sess,      \* the row of browser_sessions; expires = 0 when it is gone
  grant,     \* the identity provider: the refresh token that is still good
  keys,      \* per server: the cache of signing keys and its mutex
  pc, tokens, tries, since,  \* per request, see TypeOK
  failures   \* calls that were cancelled, crashed or failed so far

reqVars == <<pc, tokens, tries, since>>
vars == <<now, enabled, sess, grant, keys, reqVars, failures>>

NoTokens == [refresh |-> 0, exp |-> 0]
NoRow == [tokens |-> NoTokens, lease |-> NoOne, until |-> 0, expires |-> 0, seen |-> 0]
NoKeys == [known |-> FALSE, fetched |-> -1, holder |-> NoOne]
Tokens == [refresh: Nat, exp: Nat]
Rows == [tokens: Tokens, lease: Requests \cup {NoOne}, until: Nat, expires: Nat, seen: Nat]
Caches == [known: BOOLEAN, fetched: Nat \cup {-1}, holder: Requests \cup {NoOne}]

Consulting == {"check", "verify"}            \* in subject_expiry
Deleting == {"disowned", "refused", "expired", "unverified"}

TypeOK ==
  /\ now \in Nat /\ enabled \in BOOLEAN /\ failures \in Nat
  /\ sess \in Rows
  /\ grant \in Nat
  /\ keys \in [Servers -> Caches]
  /\ pc \in [Requests -> {"idle", "sleep", "resolve", "claim", "reread", "exchange",
                          "finish", "grant", "touch"} \cup Consulting \cup Deleting]
  /\ tokens \in [Requests -> Tokens]   \* the stored ones it read
  /\ tries \in [Requests -> Nat]
  /\ since \in [Requests -> Nat]       \* when it looked up or claimed

Exists == sess.expires # 0
\* The condition of every query for a session that is still good.
Alive == sess.expires > now /\ sess.seen + Idle > now

Goto(r, label) == pc' = [pc EXCEPT ![r] = label]
\* The response is sent, or the connection closed.
Done(r) ==
  /\ Goto(r, "idle")
  /\ tokens' = [tokens EXCEPT ![r] = NoTokens]
  /\ tries' = [tries EXCEPT ![r] = 0] /\ since' = [since EXCEPT ![r] = 0]
Fails == failures < MaxFailures /\ failures' = failures + 1

-----------------------------------------------------------------------------
(* authenticate: a request with a session cookie.                          *)

\* browser_session, at the head of the loop.
Lookup(r) ==
  /\ IF Alive
     THEN /\ tokens' = [tokens EXCEPT ![r] = sess.tokens]
          /\ since' = [since EXCEPT ![r] = now]
          /\ Goto(r, "resolve") /\ UNCHANGED tries
     ELSE Done(r)
  /\ UNCHANGED <<now, enabled, sess, grant, keys, failures>>
Begin(r) == pc[r] = "idle" /\ Lookup(r)
Retry(r) == pc[r] = "sleep" /\ Lookup(r)

Expiring(t) == t.exp <= now + Margin
\* The tail of the loop: the second test of the expiry, without an await.
Verifiable(r, t) == Goto(r, IF t.exp <= now THEN "expired" ELSE "verify")

\* resolve_subject, and whether to refresh.
Resolve(r) ==
  /\ pc[r] = "resolve"
  /\ IF ~enabled THEN Goto(r, "disowned")
     ELSE IF Expiring(tokens[r]) /\ tokens[r].refresh # 0 THEN Goto(r, "claim")
     ELSE Verifiable(r, tokens[r])
  /\ UNCHANGED <<now, enabled, sess, grant, keys, tokens, tries, since, failures>>

\* Fault: requests wait for a busy lease without end.
Patient(r) == TRUE
\* claim_browser_refresh, its WHERE.
Claimable == Alive /\ sess.until < now
\* The loop has another turn.
Again(r) == tries[r] + 1 < Tries
Claim(r) ==
  /\ pc[r] = "claim"
  /\ \/ /\ Claimable
        /\ sess' = [sess EXCEPT !.lease = r, !.until = now + Lease]
        /\ since' = [since EXCEPT ![r] = now]
        /\ tries' = [tries EXCEPT ![r] = 0]     \* not used again
        /\ Goto(r, "reread") /\ UNCHANGED tokens
     \/ /\ ~Claimable /\ Again(r)
        /\ tries' = [tries EXCEPT ![r] = IF @ < Tries THEN @ + 1 ELSE @]  \* bounded
        /\ tokens' = [tokens EXCEPT ![r] = NoTokens] /\ since' = [since EXCEPT ![r] = 0]
        /\ Goto(r, "sleep") /\ UNCHANGED sess
     \/ /\ ~Claimable /\ ~Again(r)
        /\ Done(r) /\ UNCHANGED sess      \* "session refresh is busy"
  /\ UNCHANGED <<now, enabled, grant, keys, failures>>

\* Fault: the tokens read before the claim are used.
Unread(r) == tokens[r]
\* The second browser_session, once the lease is held.
Latest(r) == sess.tokens
Reread(r) ==
  /\ pc[r] = "reread"
  /\ IF Alive
     THEN /\ tokens' = [tokens EXCEPT ![r] = Latest(r)]
          /\ Goto(r, IF Expiring(Latest(r)) THEN "exchange" ELSE "finish")
          /\ UNCHANGED <<tries, since>>
     ELSE Done(r)
  /\ UNCHANGED <<now, enabled, sess, grant, keys, failures>>

\* exchange with grant_type refresh_token, at the provider: the next tokens,
\* with a rotated refresh token or the same; a refusal; or no answer.
Exchange(r) ==
  /\ pc[r] = "exchange"
  /\ LET good == tokens[r].refresh = grant
     IN  \/ /\ good /\ UNCHANGED failures
            /\ \E next \in {grant, grant + 1} :
                 /\ grant' = next
                 /\ tokens' = [tokens EXCEPT ![r] = [refresh |-> next, exp |-> now + TokenLife]]
            /\ Goto(r, "check")
         \/ /\ ~good /\ Goto(r, "refused") /\ UNCHANGED <<grant, tokens, failures>>
         \/ /\ Fails /\ Goto(r, "refused") /\ UNCHANGED tokens
            /\ grant' = grant \/ (good /\ grant' = grant + 1)
  /\ UNCHANGED <<now, enabled, sess, keys, tries, since>>

\* Fault: the refreshed session is written whatever became of its row.
Upserted(r) == TRUE
\* finish_browser_refresh, its WHERE.
Finishable(r) ==
  sess.lease = r /\ sess.until > now /\ sess.expires > now
\* SET lease='', lease_until=0.
Returned(row) == [row EXCEPT !.lease = NoOne, !.until = 0]
Finish(r) ==
  /\ pc[r] = "finish"
  /\ IF Finishable(r)
     THEN /\ sess' = [Returned(sess) EXCEPT !.tokens = tokens[r], !.seen = now]
          /\ Verifiable(r, tokens[r]) /\ UNCHANGED <<tokens, tries, since>>
     ELSE Done(r) /\ UNCHANGED sess
  /\ UNCHANGED <<now, enabled, grant, keys, failures>>

\* authenticate_store: resolve_subject once more, for the scope and the role.
Grant(r) ==
  /\ pc[r] = "grant"
  /\ Goto(r, IF enabled THEN "touch" ELSE "unverified")
  /\ UNCHANGED <<now, enabled, sess, grant, keys, tokens, tries, since, failures>>

\* touch_browser_session; the request is authenticated.
Touch(r) ==
  /\ pc[r] = "touch"
  /\ sess' = IF Alive THEN [sess EXCEPT !.seen = now] ELSE sess
  /\ Done(r)
  /\ UNCHANGED <<now, enabled, grant, keys, failures>>

\* delete_browser_session; the request is not authenticated.
Delete(r) ==
  /\ pc[r] \in Deleting
  /\ sess' = NoRow
  /\ Done(r)
  /\ UNCHANGED <<now, enabled, grant, keys, failures>>

-----------------------------------------------------------------------------
(* subject_expiry: the signing keys of a process, under its mutex.         *)

\* What follows a key that is known (or not) at each of its callers: new
\* tokens must not have expired, stored ones not by more than the leeway.
Judged(r, good) ==
  \/ /\ pc[r] = "check"
     /\ Goto(r, IF good /\ tokens[r].exp > now THEN "finish" ELSE "refused")
     /\ UNCHANGED <<tokens, tries, since>>
  \/ /\ pc[r] = "verify"
     /\ Goto(r, IF good /\ tokens[r].exp + Leeway >= now THEN "grant" ELSE "unverified")
     /\ tokens' = [tokens EXCEPT ![r] = NoTokens]   \* not used again
     /\ UNCHANGED <<tries, since>>

Outdated(k) ==
  k.fetched = -1 \/ now >= k.fetched + (IF k.known THEN KeysFresh ELSE KeysBackoff)

\* The mutex is free: judge by the cached keys, or start to fetch them, which
\* backs off later attempts from now on whatever comes of this one.
Consult(r) ==
  LET k == keys[Home[r]]
  IN  /\ pc[r] \in Consulting /\ k.holder = NoOne
      /\ IF Outdated(k)
         THEN /\ keys' = [keys EXCEPT ![Home[r]].fetched = now, ![Home[r]].holder = r]
              /\ UNCHANGED reqVars
         ELSE /\ Judged(r, k.known) /\ UNCHANGED keys
      /\ UNCHANGED <<now, enabled, sess, grant, failures>>

\* The answer of the JWKS endpoint, or an error, which `?` returns at once.
Fetch(r) ==
  /\ keys[Home[r]].holder = r
  /\ \/ /\ keys' = [keys EXCEPT ![Home[r]].holder = NoOne, ![Home[r]].known = TRUE]
        /\ Judged(r, TRUE) /\ UNCHANGED failures
     \/ /\ keys' = [keys EXCEPT ![Home[r]].holder = NoOne]
        /\ Judged(r, FALSE) /\ Fails
  /\ UNCHANGED <<now, enabled, sess, grant>>

-----------------------------------------------------------------------------
(* Signing out, provisioning, failures and time.                           *)

\* logout; also complete, when the browser signs in anew with its old cookie,
\* and begin_browser_login, which sweeps what has expired.
Logout == Exists /\ sess' = NoRow /\ UNCHANGED <<now, enabled, grant, keys, reqVars, failures>>

\* provision with enabled=false; a subject is not provisioned anew.
Deactivate ==
  /\ enabled /\ enabled' = FALSE
  /\ UNCHANGED <<now, sess, grant, keys, reqVars, failures>>

Unlocked(k, R) == [k EXCEPT !.holder = IF @ \in R THEN NoOne ELSE @]

\* The client disconnects: the handler is dropped at its await, which gives
\* the mutex back but not the lease.
Cancel(r) ==
  /\ pc[r] # "idle" /\ Fails
  /\ Done(r)
  /\ keys' = [keys EXCEPT ![Home[r]] = Unlocked(@, {r})]
  /\ UNCHANGED <<now, enabled, sess, grant>>

\* A process dies and is started again: its cache is empty.
Restart(v) ==
  LET lost == {r \in Requests : Home[r] = v /\ pc[r] # "idle"}
  IN  /\ Fails
      /\ pc' = [r \in Requests |-> IF r \in lost THEN "idle" ELSE pc[r]]
      /\ tokens' = [r \in Requests |-> IF r \in lost THEN NoTokens ELSE tokens[r]]
      /\ tries' = [r \in Requests |-> IF r \in lost THEN 0 ELSE tries[r]]
      /\ since' = [r \in Requests |-> IF r \in lost THEN 0 ELSE since[r]]
      /\ keys' = [keys EXCEPT ![v] = NoKeys]
      /\ UNCHANGED <<now, enabled, sess, grant>>

\* Time passes, but no request is held for longer than MaxHold.
Tick ==
  /\ now < MaxTime
  /\ \A r \in Requests : pc[r] \notin {"idle", "sleep"} => now < since[r] + MaxHold
  /\ now' = now + 1
  /\ UNCHANGED <<enabled, sess, grant, keys, reqVars, failures>>

-----------------------------------------------------------------------------
\* A browser signed in before; its access token is about to expire.
Init ==
  /\ now = 0 /\ enabled = TRUE /\ failures = 0
  /\ \E refresh \in {0, 1} :
       /\ sess = [NoRow EXCEPT !.tokens = [refresh |-> refresh, exp |-> Margin],
                               !.expires = SessionLife]
       /\ grant = refresh
  /\ keys = [v \in Servers |-> NoKeys]
  /\ pc = [r \in Requests |-> "idle"]
  /\ tokens = [r \in Requests |-> NoTokens]
  /\ tries = [r \in Requests |-> 0] /\ since = [r \in Requests |-> 0]

Step(r) ==
  \/ Retry(r) \/ Resolve(r) \/ Claim(r) \/ Reread(r) \/ Exchange(r) \/ Finish(r)
  \/ Grant(r) \/ Touch(r) \/ Delete(r)
  \/ Consult(r) \/ Fetch(r)

Next ==
  \/ \E r \in Requests : Begin(r) \/ Step(r) \/ Cancel(r)
  \/ \E v \in Servers : Restart(v)
  \/ Logout \/ Deactivate \/ Tick

Spec == Init /\ [][Next]_vars
\* A handler runs on until it returns.
SpecFair == Spec /\ \A r \in Requests : WF_vars(Step(r))

-----------------------------------------------------------------------------
(* Properties.                                                             *)

\* The requests whose step ends the session.
Ends == Exists /\ sess' = NoRow
EndedBy == {r \in Requests : pc[r] \in Deleting /\ pc'[r] = "idle"}

\* As long as nothing was cancelled, crashed or failed, concurrent requests of
\* a browser never sign it out: they end a live session only because its
\* subject was deactivated or a token that came without a refresh token
\* expired.  (authenticate reads the tokens again once it holds the lease, so
\* a rotated refresh token is not spent twice.)
SessionKept ==
  [][(Ends /\ Alive /\ failures = 0) =>
       \A r \in EndedBy : ~enabled \/ (pc[r] = "expired" /\ tokens[r].refresh = 0)]_vars

\* A session that ended never comes back, in particular not by a refresh that
\* a sign-out overtook.
NoResurrection == [][~Exists => sess' = sess]_vars

\* Every request is answered: no lease a lost request left behind and no key
\* fetch that was dropped holds the others up for good.
RequestsReturn == \A r \in Requests : pc[r] # "idle" ~> pc[r] = "idle"
=============================================================================
