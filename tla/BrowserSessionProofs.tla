----------------------- MODULE BrowserSessionProofs ------------------------
(***************************************************************************)
(* Types of BrowserSession, and that no step brings back a session that    *)
(* ended, for any number of requests, processes and failures.              *)
(***************************************************************************)
EXTENDS BrowserSession, TLAPS

\* The constants that bound times and retries are numbers.
LEMMA Numbers ==
  /\ Home \in [Requests -> Servers] /\ NoOne \notin Requests
  /\ Lease \in Nat /\ Margin \in Nat /\ TokenLife \in Nat /\ SessionLife \in Nat
  /\ Tries \in Nat /\ SessionLife > 0
  BY SessionAssumption

\* A row that is gone is empty: nothing of the session is kept.
Gone == sess.expires = 0 => sess = NoRow

RequestTypes ==
  /\ pc \in [Requests -> {"idle", "sleep", "resolve", "claim", "reread", "exchange",
                          "finish", "grant", "touch"} \cup Consulting \cup Deleting]
  /\ tokens \in [Requests -> Tokens]
  /\ tries \in [Requests -> Nat]
  /\ since \in [Requests -> Nat]
RowTypes ==
  /\ now \in Nat /\ enabled \in BOOLEAN /\ failures \in Nat
  /\ sess \in Rows /\ grant \in Nat
  /\ keys \in [Servers -> Caches]

\* A request that returns, or goes on elsewhere, keeps its types.
LEMMA DoneTypes ==
  ASSUME RequestTypes, NEW r \in Requests, Done(r) PROVE RequestTypes'
  BY DEF RequestTypes, Done, Goto, NoTokens, Tokens

\* What the provider issued last is a token of its kind.
LEMMA IssuedTokens ==
  ASSUME NEW a \in Nat, NEW b \in Nat PROVE [refresh |-> a, exp |-> b] \in Tokens
  BY DEF Tokens

\* The types of the requests are kept by every step.
LEMMA RequestsNext == TypeOK /\ [Next]_vars => RequestTypes'
<1> SUFFICES ASSUME TypeOK, [Next]_vars PROVE RequestTypes'
  OBVIOUS
<1> USE Numbers DEF Consulting, Deleting
<1>a. RequestTypes /\ RowTypes
  BY DEF TypeOK, RequestTypes, RowTypes
<1>b. sess.tokens \in Tokens
  BY <1>a DEF RowTypes, Rows
<1>1. ASSUME NEW r \in Requests, Lookup(r) PROVE RequestTypes'
  <2>1. CASE Alive
    BY <1>1, <2>1, <1>a, <1>b DEF Lookup, Goto, RequestTypes, RowTypes
  <2>2. CASE ~Alive
    BY <1>1, <2>2, <1>a, DoneTypes DEF Lookup
  <2> QED BY <2>1, <2>2
<1>2. ASSUME NEW r \in Requests, Resolve(r) PROVE RequestTypes'
  BY <1>2, <1>a DEF Resolve, Goto, Verifiable, RequestTypes
<1>3. ASSUME NEW r \in Requests, Claim(r) PROVE RequestTypes'
  <2>1. CASE Done(r)
    BY <2>1, <1>a, DoneTypes
  <2>2. CASE ~Done(r)
    <3>1. tries' \in [Requests -> Nat] /\ since' \in [Requests -> Nat]
      BY <1>3, <2>2, <1>a DEF Claim, RequestTypes, RowTypes
    <3>2. pc' = [pc EXCEPT ![r] = "reread"] \/ pc' = [pc EXCEPT ![r] = "sleep"]
      BY <1>3, <2>2 DEF Claim, Goto
    <3>3. tokens' = tokens \/ tokens' = [tokens EXCEPT ![r] = NoTokens]
      BY <1>3, <2>2 DEF Claim
    <3>4. NoTokens \in Tokens
      BY DEF NoTokens, Tokens
    <3> QED BY <3>1, <3>2, <3>3, <3>4, <1>a DEF RequestTypes
  <2> QED BY <2>1, <2>2
<1>4. ASSUME NEW r \in Requests, Reread(r) PROVE RequestTypes'
  <2>1. CASE Done(r)
    BY <2>1, <1>a, DoneTypes
  <2>2. CASE ~Done(r)
    BY <1>4, <2>2, <1>a, <1>b DEF Reread, Latest, Goto, RequestTypes
  <2> QED BY <2>1, <2>2
<1>5. ASSUME NEW r \in Requests, Exchange(r) PROVE RequestTypes'
  <2>1. \A n \in {grant, grant + 1} : [refresh |-> n, exp |-> now + TokenLife] \in Tokens
    BY <1>a, IssuedTokens DEF RowTypes
  <2> QED BY <1>5, <2>1, <1>a DEF Exchange, Goto, RequestTypes
<1>6. ASSUME NEW r \in Requests, Finish(r) PROVE RequestTypes'
  <2>1. CASE Done(r)
    BY <2>1, <1>a, DoneTypes
  <2>2. CASE ~Done(r)
    BY <1>6, <2>2, <1>a DEF Finish, Verifiable, Goto, RequestTypes
  <2> QED BY <2>1, <2>2
<1>7. ASSUME NEW r \in Requests, Grant(r) PROVE RequestTypes'
  BY <1>7, <1>a DEF Grant, Goto, RequestTypes
<1>8. ASSUME NEW r \in Requests, Touch(r) \/ Delete(r) \/ Cancel(r) PROVE RequestTypes'
  BY <1>8, <1>a, DoneTypes DEF Touch, Delete, Cancel
<1>9. ASSUME NEW r \in Requests, Consult(r) \/ Fetch(r) PROVE RequestTypes'
  <2>1. CASE UNCHANGED reqVars
    BY <2>1, <1>a DEF reqVars, RequestTypes
  <2>2. CASE \E good \in BOOLEAN : Judged(r, good)
    BY <2>2, <1>a DEF Judged, Goto, RequestTypes, NoTokens, Tokens
  <2>3. keys[Home[r]].known \in BOOLEAN
    BY <1>a DEF RowTypes, Caches
  <2> QED BY <1>9, <2>1, <2>2, <2>3 DEF Consult, Fetch
<1>10. CASE \E v \in Servers : Restart(v)
  BY <1>10, <1>a DEF Restart, RequestTypes, NoTokens, Tokens
<1>11. CASE Logout \/ Deactivate \/ Tick \/ UNCHANGED vars
  BY <1>11, <1>a DEF Logout, Deactivate, Tick, vars, reqVars, RequestTypes
<1> QED
  BY <1>1, <1>2, <1>3, <1>4, <1>5, <1>6, <1>7, <1>8, <1>9, <1>10, <1>11
  DEF Next, Step, Begin, Retry

\* A row with another lease expires when it did.
LEMMA LeasedRow ==
  ASSUME NEW row \in Rows, NEW l \in Requests \cup {NoOne}, NEW u \in Nat
  PROVE  /\ [row EXCEPT !.lease = l, !.until = u] \in Rows
         /\ [row EXCEPT !.lease = l, !.until = u].expires = row.expires
  BY DEF Rows
\* So does a row just seen.
LEMMA SeenRow ==
  ASSUME NEW row \in Rows, NEW n \in Nat
  PROVE  [row EXCEPT !.seen = n] \in Rows /\ [row EXCEPT !.seen = n].expires = row.expires
  BY DEF Rows
\* And a row with other tokens, its lease given back.
LEMMA RefreshedRow ==
  ASSUME NEW row \in Rows, NEW t \in Tokens, NEW n \in Nat
  PROVE  /\ [Returned(row) EXCEPT !.tokens = t, !.seen = n] \in Rows
         /\ [Returned(row) EXCEPT !.tokens = t, !.seen = n].expires = row.expires
  BY DEF Rows, Returned

\* The empty row and the empty cache.
LEMMA Empty == NoRow \in Rows /\ NoRow.expires = 0 /\ NoKeys \in Caches
  BY DEF NoRow, Rows, NoTokens, Tokens, NoKeys, Caches

\* How a step changes the row: it is left alone, deleted, or rewritten by a
\* request that found it good.
LEMMA RowSteps ==
  ASSUME TypeOK, [Next]_vars
  PROVE  \/ sess' = sess
         \/ sess' = NoRow
         \/ sess.expires > 0 /\ sess' \in Rows /\ sess'.expires = sess.expires
<1>a. now \in Nat /\ sess \in Rows /\ tokens \in [Requests -> Tokens] /\ sess.expires \in Nat
  BY DEF TypeOK, Rows
<1>1. ASSUME NEW r \in Requests, Claim(r), sess' # sess
      PROVE  sess.expires > 0 /\ sess' \in Rows /\ sess'.expires = sess.expires
  <2>1. Alive /\ sess' = [sess EXCEPT !.lease = r, !.until = now + Lease]
    BY <1>1 DEF Claim, Claimable
  <2>2. now + Lease \in Nat
    BY <1>a, Numbers
  <2>3. [sess EXCEPT !.lease = r, !.until = now + Lease] \in Rows
        /\ [sess EXCEPT !.lease = r, !.until = now + Lease].expires = sess.expires
    BY <2>2, <1>a, LeasedRow
  <2> QED BY <2>1, <2>3, <1>a DEF Alive
<1>2. ASSUME NEW r \in Requests, Finish(r), sess' # sess
      PROVE  sess.expires > 0 /\ sess' \in Rows /\ sess'.expires = sess.expires
  <2>1. sess.expires > now /\ sess' = [Returned(sess) EXCEPT !.tokens = tokens[r], !.seen = now]
    BY <1>2 DEF Finish, Finishable
  <2>2. tokens[r] \in Tokens
    BY <1>a
  <2>3. [Returned(sess) EXCEPT !.tokens = tokens[r], !.seen = now] \in Rows
        /\ [Returned(sess) EXCEPT !.tokens = tokens[r], !.seen = now].expires = sess.expires
    BY <2>2, <1>a, RefreshedRow
  <2> QED BY <2>1, <2>3, <1>a
<1>3. ASSUME NEW r \in Requests, Touch(r), sess' # sess
      PROVE  sess.expires > 0 /\ sess' \in Rows /\ sess'.expires = sess.expires
  <2>1. sess.expires > now /\ sess' = [sess EXCEPT !.seen = now]
    BY <1>3 DEF Touch, Alive
  <2> QED BY <2>1, <1>a, SeenRow
<1>4. ASSUME NEW r \in Requests,
             Lookup(r) \/ Resolve(r) \/ Reread(r) \/ Exchange(r) \/ Grant(r) \/ Delete(r)
               \/ Consult(r) \/ Fetch(r) \/ Cancel(r)
      PROVE  sess' = sess \/ sess' = NoRow
  BY <1>4 DEF Lookup, Resolve, Reread, Exchange, Grant, Delete, Consult, Fetch, Cancel
<1>5. CASE Logout \/ Deactivate \/ Tick \/ (\E v \in Servers : Restart(v)) \/ UNCHANGED vars
  BY <1>5 DEF Logout, Deactivate, Tick, Restart, vars
<1> QED BY <1>1, <1>2, <1>3, <1>4, <1>5 DEF Next, Step, Begin, Retry

\* The types of the row, the grant and the key caches are kept.
LEMMA RowsNext == TypeOK /\ [Next]_vars => RowTypes'
<1> SUFFICES ASSUME TypeOK, [Next]_vars PROVE RowTypes'
  OBVIOUS
<1>a. RequestTypes /\ RowTypes
  BY DEF TypeOK, RequestTypes, RowTypes
<1>1. sess' \in Rows
  BY RowSteps, Empty, <1>a DEF RowTypes
<1>2. now' \in Nat /\ enabled' \in BOOLEAN
  <2>1. now' = now \/ now' = now + 1
    BY DEF Next, Step, Begin, Retry, Lookup, Resolve, Claim, Reread, Exchange, Finish, Grant,
      Touch, Delete, Consult, Fetch, Logout, Deactivate, Cancel, Restart, Tick, vars
  <2>2. enabled' = enabled \/ enabled' = FALSE
    BY DEF Next, Step, Begin, Retry, Lookup, Resolve, Claim, Reread, Exchange, Finish, Grant,
      Touch, Delete, Consult, Fetch, Logout, Deactivate, Cancel, Restart, Tick, vars
  <2>3. now \in Nat /\ enabled \in BOOLEAN
    BY <1>a DEF RowTypes
  <2>4. enabled' \in BOOLEAN
    BY <2>2, <2>3, Zenon
  <2> QED BY <2>1, <2>3, <2>4
<1>4. failures' \in Nat
  <2>1. failures' = failures \/ failures' = failures + 1
    BY DEF Next, Step, Begin, Retry, Lookup, Resolve, Claim, Reread, Exchange, Finish, Grant,
      Touch, Delete, Consult, Fetch, Logout, Deactivate, Cancel, Restart, Tick, vars, Fails
  <2> QED BY <2>1, <1>a DEF RowTypes
<1>5. grant' \in Nat
  <2>1. grant' = grant \/ grant' = grant + 1
    BY DEF Next, Step, Begin, Retry, Lookup, Resolve, Claim, Reread, Exchange, Finish, Grant,
      Touch, Delete, Consult, Fetch, Logout, Deactivate, Cancel, Restart, Tick, vars
  <2> QED BY <2>1, <1>a DEF RowTypes
<1>3. keys' \in [Servers -> Caches]
  <2>1. ASSUME NEW r \in Requests, NEW c \in Caches,
               keys' = [keys EXCEPT ![Home[r]] = c]
        PROVE  keys' \in [Servers -> Caches]
    BY <2>1, <1>a, Numbers DEF RowTypes
  <2>2. ASSUME NEW r \in Requests, Consult(r) PROVE keys' \in [Servers -> Caches]
    <3>1. CASE keys' = keys
      BY <3>1, <1>a DEF RowTypes
    <3>2. CASE keys' = [keys EXCEPT ![Home[r]].fetched = now, ![Home[r]].holder = r]
      BY <3>2, <1>a, Numbers DEF RowTypes, Caches
    <3> QED BY <2>2, <3>1, <3>2 DEF Consult
  <2>3. ASSUME NEW r \in Requests, Fetch(r) PROVE keys' \in [Servers -> Caches]
    <3>1. CASE keys' = [keys EXCEPT ![Home[r]].holder = NoOne, ![Home[r]].known = TRUE]
      BY <3>1, <1>a, Numbers DEF RowTypes, Caches
    <3>2. CASE keys' = [keys EXCEPT ![Home[r]].holder = NoOne]
      BY <3>2, <1>a, Numbers DEF RowTypes, Caches
    <3> QED BY <2>3, <3>1, <3>2 DEF Fetch
  <2>4. ASSUME NEW r \in Requests, Cancel(r) PROVE keys' \in [Servers -> Caches]
    <3>1. Unlocked(keys[Home[r]], {r}) \in Caches
      BY <1>a, Numbers DEF RowTypes, Caches, Unlocked
    <3>2. keys' = [keys EXCEPT ![Home[r]] = Unlocked(keys[Home[r]], {r})]
      BY <2>4 DEF Cancel
    <3> QED BY <2>1, <3>1, <3>2
  <2>5. CASE \E v \in Servers : Restart(v)
    BY <2>5, <1>a, Empty DEF RowTypes, Restart
  <2>6. CASE keys' = keys
    BY <2>6, <1>a DEF RowTypes
  <2> QED BY <2>2, <2>3, <2>4, <2>5, <2>6 DEF Next, Step, Begin, Retry, Lookup, Resolve, Claim,
        Reread, Exchange, Finish, Grant, Touch, Delete, Logout, Deactivate, Tick, vars
<1> QED BY <1>1, <1>2, <1>3, <1>4, <1>5 DEF RowTypes

\* The rows and requests of the initial state have their types.
LEMMA InitTypes == Init => TypeOK
<1> SUFFICES ASSUME Init PROVE TypeOK
  OBVIOUS
<1>1. sess \in Rows
  <2> PICK refresh \in {0, 1} :
             sess = [NoRow EXCEPT !.tokens = [refresh |-> refresh, exp |-> Margin],
                                  !.expires = SessionLife]
    BY DEF Init
  <2>1. [refresh |-> refresh, exp |-> Margin] \in Tokens
    BY IssuedTokens, Numbers
  <2> QED BY <2>1, Numbers, Empty DEF Rows
<1>2. keys \in [Servers -> Caches]
  BY Empty DEF Init
<1> QED BY <1>1, <1>2 DEF Init, TypeOK, NoTokens, Tokens

\* TypeOK, in every state.
THEOREM SessionTypeCorrect == Spec => []TypeOK
<1>1. Init => TypeOK
  BY InitTypes
<1>2. TypeOK /\ [Next]_vars => TypeOK'
  BY RequestsNext, RowsNext DEF RequestTypes, RowTypes, TypeOK
<1> QED BY <1>1, <1>2, PTL DEF Spec

\* NoResurrection: a session that was signed out, deactivated, refused or swept
\* stays gone; in particular the refresh that was under way does not bring it
\* back, nor the request that was authenticated by it.
THEOREM EndedSessionsStayGone == Spec => NoResurrection
<1>1. Init => Gone
  BY Numbers DEF Init, Gone, NoRow
<1>2. TypeOK /\ Gone /\ [Next]_vars => Gone' /\ (~Exists => sess' = sess)
  <2> SUFFICES ASSUME TypeOK, Gone, [Next]_vars PROVE Gone' /\ (~Exists => sess' = sess)
    OBVIOUS
  <2>1. CASE sess' = sess
    BY <2>1 DEF Gone
  <2>2. CASE sess' = NoRow
    BY <2>2 DEF Gone, Exists
  <2>3. CASE sess.expires > 0 /\ sess'.expires = sess.expires
    BY <2>3 DEF Gone, Exists
  <2> QED BY <2>1, <2>2, <2>3, RowSteps
<1>3. Spec => []Gone
  BY <1>1, <1>2, SessionTypeCorrect, PTL DEF Spec
<1>4. TypeOK /\ Gone /\ [Next]_vars => [~Exists => sess' = sess]_vars
  BY <1>2
<1> QED BY <1>3, <1>4, SessionTypeCorrect, PTL DEF Spec, NoResurrection

-----------------------------------------------------------------------------
(* Why concurrent requests do not end a good session.                      *)

Refreshing == {"reread", "exchange", "check", "finish"}
Renewed == {"check", "finish"}

\* A request is held for MaxHold at most since its lookup, or its claim.
Timed(r) == pc[r] \notin {"idle", "sleep"} => since[r] <= now /\ now <= since[r] + MaxHold

\* A request that refreshes holds the lease, until after its end.
Leased(r) ==
  sess.expires > now /\ pc[r] \in Refreshing =>
    sess.lease = r /\ sess.until = since[r] + Lease

\* Tokens about to be written, or verified, stay good while the request lasts.
Lasting(r) ==
  /\ pc[r] \in Renewed => tokens[r].exp > since[r] + MaxHold
  /\ pc[r] = "verify" => tokens[r].exp + Leeway > since[r] + MaxHold

Good == failures = 0 /\ sess.expires > now

\* The refresh token a request presents is the stored one, and the one it is
\* about to store is the last of the grant.
Unspent(r) ==
  Good => /\ pc[r] = "exchange" => tokens[r].refresh = sess.tokens.refresh
          /\ pc[r] \in Renewed => tokens[r].refresh = grant

\* A request is about to end the session for one of the permitted reasons only.
Rightly(r) ==
  Good /\ pc[r] \in Deleting => ~enabled \/ (pc[r] = "expired" /\ tokens[r].refresh = 0)

Kept(r) == Timed(r) /\ Leased(r) /\ Lasting(r) /\ Unspent(r) /\ Rightly(r)

\* Unless a request is about to store the next one, the stored refresh token is
\* the one that is good.
Settled == Good /\ (\A r \in Requests : pc[r] \notin Renewed) => grant = sess.tokens.refresh

\* Keys that were fetched are known.
KeysKnown ==
  failures = 0 => \A v \in Servers :
    keys[v].fetched # -1 /\ keys[v].holder = NoOne => keys[v].known

KeptInv == TypeOK /\ (\A r \in Requests : Kept(r)) /\ Settled /\ KeysKnown

LEMMA Times ==
  /\ {Lease, Margin, Leeway, MaxHold, TokenLife, SessionLife} \subseteq Nat
  /\ TypeOK => /\ {now, failures, sess.expires, sess.until, grant} \subseteq Nat
               /\ sess.tokens \in Tokens /\ sess.tokens.exp \in Nat
               /\ \A r \in Requests : tokens[r] \in Tokens /\ tokens[r].exp \in Nat /\ since[r] \in Nat
  BY SessionAssumption DEF TypeOK, Rows, Tokens

\* One request at a time refreshes a session that has not expired.
LEMMA OneRefreshes ==
  ASSUME KeptInv, sess.expires > now, NEW r \in Requests, NEW q \in Requests,
         pc[r] \in Refreshing, pc[q] \in Refreshing
  PROVE  q = r
  BY DEF KeptInv, Kept, Leased

\* The row keeps what refreshing depends on.
SameRow ==
  /\ sess'.expires = sess.expires /\ sess'.tokens = sess.tokens
  /\ sess'.lease = sess.lease /\ sess'.until = sess.until

\* The others keep theirs in a step of one request, which writes the session
\* only while none of them refreshes it, or to end it.
LEMMA OthersKept ==
  ASSUME KeptInv, TypeOK', NEW r \in Requests,
         \A q \in Requests \ {r} : pc'[q] = pc[q] /\ tokens'[q] = tokens[q] /\ since'[q] = since[q],
         now' = now, enabled' = enabled, failures' = 0 => failures = 0,
         \/ SameRow /\ grant' = grant
         \/ /\ sess'.expires = sess.expires
            /\ sess.expires > now => \A q \in Requests \ {r} : pc[q] \notin Refreshing
         \/ sess'.expires = 0
  PROVE  \A q \in Requests \ {r} : Kept(q)'
<1> SUFFICES ASSUME NEW q \in Requests \ {r} PROVE Kept(q)'
  OBVIOUS
<1>0. /\ Kept(q) /\ now \in Nat /\ pc'[q] = pc[q] /\ tokens'[q] = tokens[q] /\ since'[q] = since[q]
  BY Times DEF KeptInv
<1>1. Timed(q)' /\ Lasting(q)'
  BY <1>0 DEF Kept, Timed, Lasting
<1>2. CASE SameRow /\ grant' = grant
  BY <1>0, <1>1, <1>2 DEF SameRow, Kept, Leased, Unspent, Rightly, Good
<1>3. CASE /\ sess'.expires = sess.expires
           /\ sess.expires > now => pc[q] \notin Refreshing
  BY <1>0, <1>1, <1>3 DEF Kept, Leased, Unspent, Rightly, Good, Refreshing, Renewed
<1>4. CASE sess'.expires = 0
  <2>1. ~(sess'.expires > now')
    BY <1>0, <1>4
  <2> QED BY <1>1, <2>1 DEF Kept, Leased, Unspent, Rightly, Good
<1> QED BY <1>2, <1>3, <1>4

\* A request that returned, or waits for another turn, has nothing to keep.
LEMMA LeftKept ==
  ASSUME NEW r \in Requests, pc'[r] \in {"idle", "sleep"} PROVE Kept(r)'
  BY DEF Kept, Timed, Leased, Lasting, Unspent, Rightly, Refreshing, Renewed, Deleting

\* A step of one request that leaves the grant alone, and the tokens of the row.
LEMMA QuietKept ==
  ASSUME KeptInv, TypeOK', NEW r \in Requests, Kept(r)',
         \A q \in Requests \ {r} : pc'[q] = pc[q] /\ tokens'[q] = tokens[q] /\ since'[q] = since[q],
         now' = now, enabled' = enabled, failures' = 0 => failures = 0,
         grant' = grant, sess'.tokens = sess.tokens,
         \/ SameRow
         \/ /\ sess'.expires = sess.expires
            /\ sess.expires > now => \A q \in Requests \ {r} : pc[q] \notin Refreshing,
         pc[r] \in Renewed /\ Good' => pc'[r] \in Renewed
  PROVE  (\A q \in Requests : Kept(q)') /\ Settled'
<1>1. \A q \in Requests \ {r} : Kept(q)'
  BY OthersKept
<1>2. Good' => Good
  BY DEF Good, SameRow
<1>3. Settled'
  BY <1>2 DEF KeptInv, Settled
<1> QED BY <1>1, <1>3

\* What a step of one request leaves as it was.
LEMMA OneActs ==
  ASSUME TypeOK, NEW r \in Requests, Begin(r) \/ Step(r) \/ Cancel(r)
  PROVE  /\ \A q \in Requests \ {r} : pc'[q] = pc[q] /\ tokens'[q] = tokens[q] /\ since'[q] = since[q]
         /\ now' = now /\ enabled' = enabled /\ (failures' = 0 => failures = 0)
<1>1. /\ DOMAIN pc = Requests /\ DOMAIN tokens = Requests /\ DOMAIN since = Requests /\ failures \in Nat
  BY DEF TypeOK
<1> QED BY <1>1 DEF Begin, Step, Cancel, Retry, Lookup, Resolve, Claim, Reread, Exchange, Finish, Grant,
         Touch, Delete, Consult, Fetch, Judged, Verifiable, Goto, Done, Fails, reqVars

\* Up to the exchange: the session is looked up, its lease is claimed, and the
\* session is read again.
LEMMA ReadingKept ==
  ASSUME KeptInv, TypeOK', NEW r \in Requests,
         Begin(r) \/ Retry(r) \/ Resolve(r) \/ Claim(r) \/ Reread(r)
  PROVE  (\A q \in Requests : Kept(q)') /\ Settled'
<1> USE DEF KeptInv, Goto
<1>0. /\ \A q \in Requests \ {r} : pc'[q] = pc[q] /\ tokens'[q] = tokens[q] /\ since'[q] = since[q]
      /\ now' = now /\ enabled' = enabled /\ (failures' = 0 => failures = 0)
  BY OneActs DEF Step
<1>1. /\ UNCHANGED <<grant, failures>> /\ sess'.tokens = sess.tokens /\ Kept(r) /\ Settled
      /\ DOMAIN pc = Requests /\ DOMAIN tokens = Requests /\ DOMAIN since = Requests
      /\ now \in Nat /\ sess.until \in Nat /\ sess.expires \in Nat /\ sess.tokens.exp \in Nat
      /\ tokens[r].exp \in Nat /\ since[r] \in Nat
      /\ Lease \in Nat /\ Margin \in Nat /\ Leeway \in Nat /\ MaxHold \in Nat
  <2>1. sess'.tokens = sess.tokens
    BY DEF Begin, Retry, Lookup, Resolve, Claim, Reread, TypeOK, Rows
  <2> QED BY <2>1, Times DEF Begin, Retry, Lookup, Resolve, Claim, Reread, TypeOK
<1>2. CASE Begin(r) \/ Retry(r)
  <2>1. SameRow /\ pc[r] \in {"idle", "sleep"}
    BY <1>2 DEF Begin, Retry, Lookup, SameRow
  <2>2. CASE pc'[r] = "idle"
    BY <1>0, <1>1, <2>1, <2>2, LeftKept, QuietKept DEF Renewed
  <2>3. CASE pc'[r] # "idle"
    <3>1. pc'[r] = "resolve" /\ since'[r] = now
      BY <1>1, <1>2, <2>3 DEF Begin, Retry, Lookup, Done
    <3>2. Kept(r)'
      BY <1>0, <1>1, <3>1 DEF Kept, Timed, Leased, Lasting, Unspent, Rightly, Refreshing, Renewed, Deleting
    <3> QED BY <1>0, <1>1, <2>1, <3>2, QuietKept DEF Renewed
  <2> QED BY <2>2, <2>3
<1>3. CASE Resolve(r)
  <2>1. /\ SameRow /\ pc[r] = "resolve" /\ UNCHANGED <<sess, tokens, since>>
        /\ \/ pc'[r] = "disowned" /\ ~enabled
           \/ pc'[r] = "claim"
           \/ pc'[r] = "expired" /\ tokens[r].refresh = 0
           \/ pc'[r] = "verify" /\ tokens[r].exp > now
    <3>1. tokens[r].exp <= now => Expiring(tokens[r])
      BY <1>1 DEF Expiring
    <3> QED BY <1>1, <1>3, <3>1 DEF Resolve, Verifiable, SameRow
  <2>2. Timed(r)'
    BY <1>0, <1>1, <2>1 DEF Kept, Timed
  <2>3. Kept(r)'
    BY <1>0, <1>1, <2>1, <2>2, HoldAssumption
       DEF Kept, Timed, Leased, Lasting, Unspent, Rightly, Refreshing, Renewed, Deleting
  <2> QED BY <1>0, <1>1, <2>1, <2>3, QuietKept DEF Renewed
<1>4. CASE Claim(r)
  <2>1. CASE ~Claimable
    <3>1. pc'[r] \in {"idle", "sleep"} /\ sess' = sess
      BY <1>1, <1>4, <2>1 DEF Claim, Done
    <3> QED BY <1>0, <1>1, <1>4, <3>1, LeftKept, QuietKept DEF SameRow, Claim, Renewed
  <2>2. CASE Claimable
    <3>1. /\ sess' = [sess EXCEPT !.lease = r, !.until = now + Lease]
          /\ since'[r] = now /\ pc'[r] = "reread"
      BY <1>1, <1>4, <2>2 DEF Claim
    <3>2. /\ sess'.lease = r /\ sess'.until = now + Lease /\ sess'.expires = sess.expires
      BY <3>1 DEF TypeOK, Rows
    <3>3. ASSUME sess.expires > now, NEW q \in Requests \ {r}, pc[q] \in Refreshing
          PROVE  FALSE
      <4>1. sess.until = since[q] + Lease /\ now <= since[q] + MaxHold
        BY <3>3 DEF Kept, Leased, Timed, Refreshing
      <4>2. since[q] \in Nat
        BY Times
      <4> QED BY <1>1, <2>2, <4>1, <4>2, HoldAssumption DEF Claimable
    <3>4. Kept(r)'
      BY <1>0, <1>1, <3>1, <3>2 DEF Kept, Timed, Leased, Lasting, Unspent, Rightly, Renewed, Deleting
    <3> QED BY <1>0, <1>1, <1>4, <3>2, <3>3, <3>4, QuietKept DEF Claim, Renewed
  <2> QED BY <2>1, <2>2
<1>5. CASE Reread(r)
  <2>1. SameRow /\ sess' = sess /\ pc[r] = "reread"
    BY <1>5 DEF Reread, SameRow
  <2>2. CASE ~Alive
    <3>1. pc'[r] = "idle"
      BY <1>1, <1>5, <2>2 DEF Reread, Done
    <3> QED BY <1>0, <1>1, <2>1, <3>1, LeftKept, QuietKept DEF Renewed
  <2>3. CASE Alive
    <3>1. /\ tokens'[r] = sess.tokens /\ since'[r] = since[r]
          /\ \/ pc'[r] = "exchange"
             \/ pc'[r] = "finish" /\ sess.tokens.exp > now + Margin
      BY <1>1, <1>5, <2>3 DEF Reread, Latest, Expiring
    <3>2. Timed(r)' /\ Leased(r)'
      BY <1>0, <1>1, <2>1, <3>1 DEF Kept, Timed, Leased, Refreshing
    <3>3. Lasting(r)'
      BY <1>0, <1>1, <2>1, <3>1, HoldAssumption DEF Kept, Timed, Lasting, Renewed
    <3>4. Good => grant = sess.tokens.refresh
      <4>1. ASSUME Good PROVE \A q \in Requests : pc[q] \notin Renewed
        BY <2>1, <4>1, OneRefreshes DEF Good, Refreshing, Renewed
      <4> QED BY <1>1, <4>1 DEF Settled
    <3>5. Unspent(r)' /\ Rightly(r)'
      BY <1>0, <1>1, <2>1, <3>1, <3>4 DEF Unspent, Rightly, Good, Renewed, Deleting
    <3>6. Kept(r)'
      BY <3>2, <3>3, <3>5 DEF Kept
    <3> QED BY <1>0, <1>1, <2>1, <3>6, QuietKept DEF Renewed
  <2> QED BY <2>2, <2>3
<1> QED BY <1>2, <1>3, <1>4, <1>5

\* The provider's next tokens are stored, by the request that holds the lease.
LEMMA RenewingKept ==
  ASSUME KeptInv, TypeOK', NEW r \in Requests, Exchange(r) \/ Finish(r)
  PROVE  (\A q \in Requests : Kept(q)') /\ Settled'
<1> USE DEF KeptInv, Goto
<1>0. /\ \A q \in Requests \ {r} : pc'[q] = pc[q] /\ tokens'[q] = tokens[q] /\ since'[q] = since[q]
      /\ now' = now /\ enabled' = enabled /\ (failures' = 0 => failures = 0)
  BY OneActs DEF Step
<1>1. /\ Kept(r) /\ Settled /\ sess \in Rows
      /\ DOMAIN pc = Requests /\ DOMAIN tokens = Requests /\ DOMAIN since = Requests
      /\ now \in Nat /\ sess.expires \in Nat /\ tokens[r].exp \in Nat /\ since[r] \in Nat
      /\ Lease \in Nat /\ MaxHold \in Nat /\ TokenLife \in Nat /\ Leeway \in Nat
      /\ failures \in Nat
  BY Times DEF TypeOK
<1>2. pc[r] \in Refreshing
  BY DEF Exchange, Finish, Refreshing
<1>3. sess.expires > now => \A q \in Requests \ {r} : pc[q] \notin Refreshing
  BY <1>2, OneRefreshes
<1>4. CASE Exchange(r)
  <2>1. /\ SameRow /\ sess' = sess /\ pc[r] = "exchange" /\ since'[r] = since[r]
        /\ \/ /\ pc'[r] = "check" /\ tokens'[r].refresh = grant' /\ tokens'[r].exp = now + TokenLife
           \/ pc'[r] = "refused" /\ tokens[r].refresh # grant
           \/ pc'[r] = "refused" /\ failures' = failures + 1
    BY <1>1, <1>4 DEF Exchange, SameRow, Fails
  <2>2. Good => tokens[r].refresh = grant
    <3>1. ASSUME Good PROVE \A q \in Requests : pc[q] \notin Renewed
      BY <1>3, <2>1, <3>1 DEF Good, Refreshing, Renewed
    <3> QED BY <1>1, <2>1, <3>1 DEF Settled, Kept, Unspent
  <2>3. Good' => Good /\ pc'[r] = "check"
    BY <1>0, <1>1, <2>1, <2>2 DEF Good
  <2>4. Timed(r)' /\ Leased(r)'
    BY <1>0, <1>1, <2>1 DEF Kept, Timed, Leased, Refreshing
  <2>5. Lasting(r)'
    BY <1>0, <1>1, <2>1, <2>4, HoldAssumption DEF Timed, Lasting, Renewed
  <2>6. Unspent(r)' /\ Rightly(r)'
    BY <2>1, <2>3 DEF Unspent, Rightly, Renewed, Deleting
  <2>7. Kept(r)'
    BY <2>4, <2>5, <2>6 DEF Kept
  <2>8. \A q \in Requests \ {r} : Kept(q)'
    BY <1>0, <1>3, <2>1, OthersKept DEF SameRow
  <2>9. Settled'
    BY <2>3 DEF Settled, Renewed
  <2> QED BY <2>7, <2>8, <2>9
<1>5. CASE Finish(r)
  <2>1. pc[r] = "finish" /\ tokens[r].exp > now
    BY <1>1, <1>5, HoldAssumption DEF Finish, Kept, Timed, Lasting, Renewed
  <2>2. CASE ~Finishable(r)
    <3>1. pc'[r] = "idle" /\ sess' = sess /\ grant' = grant
      BY <1>1, <1>5, <2>2 DEF Finish, Done
    <3>2. ~(sess.expires > now)
      BY <1>1, <2>1, <2>2, HoldAssumption DEF Kept, Timed, Leased, Finishable, Refreshing
    <3>3. ~Good'
      BY <1>0, <3>1, <3>2 DEF Good
    <3> QED BY <1>0, <1>1, <3>1, <3>3, LeftKept, QuietKept DEF SameRow
  <2>3. CASE Finishable(r)
    <3>1. /\ sess' = [Returned(sess) EXCEPT !.tokens = tokens[r], !.seen = now]
          /\ pc'[r] = "verify" /\ tokens'[r] = tokens[r] /\ since'[r] = since[r] /\ grant' = grant
          /\ failures' = failures
      BY <1>1, <1>5, <2>1, <2>3 DEF Finish, Verifiable
    <3>2. sess'.expires = sess.expires /\ sess'.tokens = tokens[r]
      BY <1>1, <3>1 DEF Returned, Rows
    <3>3. Timed(r)' /\ Leased(r)'
      BY <1>0, <1>1, <2>1, <3>1 DEF Kept, Timed, Leased, Refreshing
    <3>4. Lasting(r)'
      BY <1>1, <2>1, <3>1 DEF Kept, Lasting, Renewed
    <3>5. Unspent(r)' /\ Rightly(r)'
      BY <3>1 DEF Unspent, Rightly, Renewed, Deleting
    <3>6. Kept(r)'
      BY <3>3, <3>4, <3>5 DEF Kept
    <3>7. \A q \in Requests \ {r} : Kept(q)'
      BY <1>0, <1>3, <3>2, OthersKept
    <3>8. Settled'
      <4>1. Good' => Good /\ tokens[r].refresh = grant
        BY <1>0, <1>1, <2>1, <3>1, <3>2 DEF Good, Kept, Unspent, Renewed
      <4> QED BY <3>1, <3>2, <4>1 DEF Settled
    <3> QED BY <3>6, <3>7, <3>8
  <2> QED BY <2>2, <2>3
<1> QED BY <1>4, <1>5

\* What a known key is asked of a request's tokens, it answers well.
LEMMA JudgedKept ==
  ASSUME KeptInv, TypeOK', NEW r \in Requests, NEW good \in BOOLEAN, Judged(r, good),
         failures' = 0 => good,
         \A q \in Requests \ {r} : pc'[q] = pc[q] /\ tokens'[q] = tokens[q] /\ since'[q] = since[q],
         now' = now, enabled' = enabled, failures' = 0 => failures = 0, sess' = sess, grant' = grant
  PROVE  (\A q \in Requests : Kept(q)') /\ Settled'
<1> USE DEF KeptInv, Goto
<1>1. /\ Kept(r) /\ SameRow
      /\ DOMAIN pc = Requests /\ DOMAIN tokens = Requests /\ DOMAIN since = Requests
      /\ now \in Nat /\ tokens[r].exp \in Nat /\ since[r] \in Nat /\ MaxHold \in Nat /\ Leeway \in Nat
  BY Times DEF TypeOK, SameRow
<1>2. CASE pc[r] = "check"
  <2>1. tokens[r].exp > now
    BY <1>1, <1>2 DEF Kept, Timed, Lasting, Renewed
  <2>2. /\ tokens'[r] = tokens[r] /\ since'[r] = since[r]
        /\ pc'[r] = IF good THEN "finish" ELSE "refused"
    BY <1>1, <1>2, <2>1 DEF Judged
  <2>3. Good' => pc'[r] = "finish"
    BY <2>2 DEF Good
  <2>4. Timed(r)' /\ Leased(r)' /\ Lasting(r)'
    BY <1>1, <1>2, <2>2 DEF Kept, Timed, Leased, Lasting, Refreshing, Renewed
  <2>5. Unspent(r)' /\ Rightly(r)'
    BY <1>1, <1>2, <2>2, <2>3 DEF Kept, Unspent, Rightly, Good, Renewed, Deleting
  <2> QED BY <1>1, <2>3, <2>4, <2>5, QuietKept DEF Kept, SameRow, Renewed
<1>3. CASE pc[r] = "verify"
  <2>1. tokens[r].exp + Leeway >= now
    BY <1>1, <1>3 DEF Kept, Timed, Lasting
  <2>2. since'[r] = since[r] /\ pc'[r] = IF good THEN "grant" ELSE "unverified"
    BY <1>1, <1>3, <2>1 DEF Judged
  <2>3. Good' => pc'[r] = "grant"
    BY <2>2 DEF Good
  <2>4. Timed(r)' /\ Leased(r)' /\ Lasting(r)'
    BY <1>1, <1>3, <2>2 DEF Kept, Timed, Leased, Lasting, Refreshing, Renewed
  <2>5. Unspent(r)' /\ Rightly(r)'
    BY <1>1, <1>3, <2>2, <2>3 DEF Unspent, Rightly, Renewed, Deleting
  <2> QED BY <1>1, <1>3, <2>3, <2>4, <2>5, QuietKept DEF Kept, SameRow, Renewed
<1> QED BY <1>2, <1>3 DEF Judged

\* The keys, in every step.
LEMMA KeysStep ==
  ASSUME KeptInv, TypeOK', [Next]_vars PROVE KeysKnown'
<1> USE DEF KeptInv
<1>1. failures \in Nat /\ keys \in [Servers -> Caches] /\ KeysKnown /\ Home \in [Requests -> Servers]
  BY Numbers DEF TypeOK
<1>2. CASE keys' = keys /\ (failures' = 0 => failures = 0)
  BY <1>1, <1>2 DEF KeysKnown
<1>3. CASE failures' = failures + 1
  BY <1>1, <1>3 DEF KeysKnown
<1>4. ASSUME NEW r \in Requests, Consult(r), keys' # keys PROVE KeysKnown'
  <2>1. failures' = failures /\ keys' = [keys EXCEPT ![Home[r]].fetched = now, ![Home[r]].holder = r]
    BY <1>4 DEF Consult
  <2>2. keys'[Home[r]].holder = r
    BY <1>1, <2>1 DEF Caches
  <2>3. r # NoOne /\ \A v \in Servers \ {Home[r]} : keys'[v] = keys[v]
    BY <1>1, <2>1, Numbers
  <2> QED BY <1>1, <2>1, <2>2, <2>3 DEF KeysKnown
<1>5. ASSUME NEW r \in Requests, Fetch(r), failures' = failures PROVE KeysKnown'
  <2>1. keys' = [keys EXCEPT ![Home[r]].holder = NoOne, ![Home[r]].known = TRUE]
    <3>1. ~Fails
      BY <1>1, <1>5 DEF Fails
    <3> QED BY <1>5, <3>1, Zenon DEF Fetch
  <2>2. keys'[Home[r]].known = TRUE
    BY <1>1, <2>1 DEF Caches
  <2>3. \A v \in Servers \ {Home[r]} : keys'[v] = keys[v]
    BY <1>1, <2>1
  <2> QED BY <1>1, <1>5, <2>2, <2>3 DEF KeysKnown
<1> QED BY <1>2, <1>3, <1>4, <1>5 DEF Next, Step, Begin, Retry, Lookup, Resolve, Claim, Reread,
        Exchange, Finish, Grant, Touch, Delete, Consult, Fetch, Cancel, Restart, Logout, Deactivate,
        Tick, Fails, vars

\* The end of a request, and the keys it is judged by.
LEMMA EndingKept ==
  ASSUME KeptInv, TypeOK', NEW r \in Requests,
         Consult(r) \/ Fetch(r) \/ Grant(r) \/ Touch(r) \/ Delete(r) \/ Cancel(r)
  PROVE  (\A q \in Requests : Kept(q)') /\ Settled'
<1> USE DEF KeptInv, Goto
<1>0. /\ \A q \in Requests \ {r} : pc'[q] = pc[q] /\ tokens'[q] = tokens[q] /\ since'[q] = since[q]
      /\ now' = now /\ enabled' = enabled /\ (failures' = 0 => failures = 0)
  BY OneActs DEF Step
<1>1. /\ Kept(r) /\ Settled /\ sess \in Rows /\ Home[r] \in Servers
      /\ DOMAIN pc = Requests /\ now \in Nat /\ failures \in Nat
      /\ keys \in [Servers -> Caches]
  BY Numbers DEF TypeOK
<1>2. CASE Consult(r)
  <2>1. sess' = sess /\ grant' = grant /\ failures' = failures
    BY <1>2 DEF Consult
  <2>2. CASE Outdated(keys[Home[r]])
    <3>1. UNCHANGED <<pc, tokens, since>>
      BY <1>2, <2>2 DEF Consult, reqVars
    <3>2. Kept(r)'
      BY <1>0, <1>1, <2>1, <3>1 DEF Kept, Timed, Leased, Lasting, Unspent, Rightly, Good
    <3> QED BY <1>0, <1>1, <2>1, <3>1, <3>2, QuietKept DEF SameRow
  <2>3. CASE ~Outdated(keys[Home[r]])
    <3>1. Judged(r, keys[Home[r]].known) /\ keys[Home[r]].holder = NoOne
      BY <1>2, <2>3 DEF Consult
    <3>2. failures = 0 => keys[Home[r]].known
      BY <1>1, <2>3, <3>1 DEF KeysKnown, Outdated
    <3>3. keys[Home[r]].known \in BOOLEAN
      BY <1>1 DEF Caches
    <3> QED BY <1>0, <2>1, <3>1, <3>2, <3>3, JudgedKept
  <2> QED BY <2>2, <2>3
<1>3. CASE Fetch(r)
  <2>1. sess' = sess /\ grant' = grant
    BY <1>3 DEF Fetch
  <2>2. \/ Judged(r, TRUE)
        \/ Judged(r, FALSE) /\ failures' # 0
    <3>1. Fails => failures' # 0
      BY <1>1 DEF Fails
    <3> QED BY <1>3, <3>1, Zenon DEF Fetch
  <2> QED BY <1>0, <2>1, <2>2, JudgedKept
<1>4. CASE Grant(r)
  <2>1. /\ sess' = sess /\ grant' = grant /\ pc[r] = "grant"
        /\ UNCHANGED <<tokens, since>> /\ pc'[r] = IF enabled THEN "touch" ELSE "unverified"
    BY <1>1, <1>4 DEF Grant
  <2>2. Kept(r)'
    BY <1>0, <1>1, <2>1 DEF Kept, Timed, Leased, Lasting, Unspent, Rightly, Refreshing, Renewed, Deleting
  <2> QED BY <1>0, <1>1, <2>1, <2>2, QuietKept DEF SameRow, Renewed
<1>5. CASE Touch(r)
  <2>1. SameRow /\ grant' = grant /\ pc[r] = "touch" /\ pc'[r] = "idle"
    BY <1>1, <1>5 DEF Touch, Done, SameRow, Rows
  <2> QED BY <1>0, <1>1, <2>1, LeftKept, QuietKept DEF SameRow, Renewed
<1>6. CASE Delete(r)
  <2>1. sess'.expires = 0 /\ pc'[r] = "idle"
    BY <1>1, <1>6 DEF Delete, Done, NoRow
  <2>2. \A q \in Requests \ {r} : Kept(q)'
    BY <1>0, <2>1, OthersKept
  <2>3. ~Good'
    BY <1>0, <1>1, <2>1 DEF Good
  <2> QED BY <2>1, <2>2, <2>3, LeftKept DEF Settled
<1>7. CASE Cancel(r)
  <2>1. sess' = sess /\ grant' = grant /\ pc'[r] = "idle" /\ failures' # 0
    BY <1>1, <1>7 DEF Cancel, Done, Fails
  <2> QED BY <1>0, <1>1, <2>1, LeftKept, QuietKept DEF SameRow, Good
<1> QED BY <1>2, <1>3, <1>4, <1>5, <1>6, <1>7

\* Signing out, deactivation, a restart and time.
LEMMA OutsideKept ==
  ASSUME KeptInv, TypeOK', Logout \/ Deactivate \/ Tick \/ UNCHANGED vars \/ \E v \in Servers : Restart(v)
  PROVE  (\A q \in Requests : Kept(q)') /\ Settled'
<1> USE DEF KeptInv
<1>0. now \in Nat /\ failures \in Nat /\ MaxHold \in Nat /\ sess.expires \in Nat
      /\ \A q \in Requests : since[q] \in Nat
  BY Times DEF TypeOK
<1>1. CASE Logout
  <2>1. sess'.expires = 0 /\ UNCHANGED <<now, pc, tokens, since>>
    BY <1>1 DEF Logout, NoRow, reqVars
  <2>2. ~(sess'.expires > now')
    BY <1>0, <2>1
  <2> QED BY <2>1, <2>2 DEF Kept, Timed, Leased, Lasting, Unspent, Rightly, Good, Settled
<1>2. CASE Deactivate
  BY <1>2 DEF Deactivate, reqVars, Kept, Timed, Leased, Lasting, Unspent, Rightly, Good, Settled
<1>3. CASE Tick
  <2>1. /\ now' = now + 1 /\ UNCHANGED <<enabled, sess, grant, pc, tokens, since, failures>>
        /\ \A q \in Requests : pc[q] \notin {"idle", "sleep"} => now < since[q] + MaxHold
    BY <1>3 DEF Tick, reqVars
  <2>2. Good' => Good
    BY <1>0, <2>1 DEF Good
  <2>3. sess'.expires > now' => sess.expires > now
    BY <1>0, <2>1
  <2>4. ASSUME NEW q \in Requests PROVE Timed(q)'
    BY <1>0, <2>1 DEF Kept, Timed
  <2> QED BY <2>1, <2>2, <2>3, <2>4 DEF Kept, Leased, Lasting, Unspent, Rightly, Settled
<1>4. ASSUME NEW v \in Servers, Restart(v) PROVE (\A q \in Requests : Kept(q)') /\ Settled'
  <2>1. /\ failures' # 0 /\ UNCHANGED <<now, sess>>
        /\ \A q \in Requests : \/ pc'[q] = "idle"
                               \/ pc'[q] = pc[q] /\ tokens'[q] = tokens[q] /\ since'[q] = since[q]
    BY <1>0, <1>4 DEF Restart, Fails
  <2>2. ASSUME NEW q \in Requests PROVE Kept(q)'
    <3>1. CASE pc'[q] = "idle"
      BY <3>1, LeftKept
    <3>2. CASE pc'[q] # "idle"
      BY <2>1, <3>2 DEF Kept, Timed, Leased, Lasting, Unspent, Rightly, Good
    <3> QED BY <3>1, <3>2
  <2> QED BY <2>1, <2>2 DEF Settled, Good
<1>5. CASE UNCHANGED vars
  BY <1>5 DEF vars, reqVars, Kept, Timed, Leased, Lasting, Unspent, Rightly, Good, Settled
<1> QED BY <1>1, <1>2, <1>3, <1>4, <1>5

\* SessionKept: while nothing fails, a session that is good is ended only for a
\* deactivated subject or for a token without a refresh token, however many
\* requests refresh it at once.
THEOREM GoodSessionsKept == Spec => SessionKept
<1>1. Init => KeptInv
  <2> SUFFICES ASSUME Init PROVE KeptInv
    OBVIOUS
  <2>1. TypeOK
    BY InitTypes
  <2>2. \A r \in Requests : Kept(r)
    BY DEF Init, Kept, Timed, Leased, Lasting, Unspent, Rightly, Refreshing, Renewed, Deleting
  <2>3. Settled
    <3> PICK refresh \in {0, 1} :
               /\ sess = [NoRow EXCEPT !.tokens = [refresh |-> refresh, exp |-> Margin],
                                       !.expires = SessionLife]
               /\ grant = refresh
      BY DEF Init
    <3> QED BY DEF Settled, NoRow
  <2>4. KeysKnown
    BY DEF Init, KeysKnown, NoKeys
  <2> QED BY <2>1, <2>2, <2>3, <2>4 DEF KeptInv
<1>2. ASSUME KeptInv, TypeOK', [Next]_vars PROVE KeptInv'
  <2>1. (\A r \in Requests : Kept(r)') /\ Settled'
    BY <1>2, ReadingKept, RenewingKept, EndingKept, OutsideKept DEF Next, Step
  <2> QED BY <1>2, <2>1, KeysStep DEF KeptInv
<1>3. KeptInv /\ [Next]_vars =>
        [(Ends /\ Alive /\ failures = 0) =>
           \A r \in EndedBy : ~enabled \/ (pc[r] = "expired" /\ tokens[r].refresh = 0)]_vars
  BY DEF KeptInv, Kept, Rightly, Good, Alive, EndedBy
<1>4. Spec => []KeptInv
  BY <1>1, <1>2, SessionTypeCorrect, PTL DEF Spec
<1> QED BY <1>3, <1>4, PTL DEF Spec, SessionKept
=============================================================================
