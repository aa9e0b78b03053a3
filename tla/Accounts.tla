------------------------------ MODULE Accounts ------------------------------
(***************************************************************************)
(* Signing in and staying signed in, for one phone number: the codes and   *)
(* accounts of the API, its rotating refresh tokens, and the tabs of the   *)
(* web client that keep one session and renew it when an access token runs *)
(* out.                                                                    *)
(*                                                                         *)
(* A token pair is named by its refresh token.  One action is what one     *)
(* database transaction reads, or what it writes and commits, or one turn  *)
(* of a tab's event loop: the API locks no row, so that requests overlap.  *)
(***************************************************************************)
EXTENDS Integers, FiniteSets

CONSTANTS
  Logins, Page,     \* verify_otp requests: the login page's, others from anywhere
  Tabs,             \* tabs of the client, which share the session
  Calls,            \* API calls the tabs may have in flight
  Kinds,            \* what they are: a screen's own, SessionProvider's me(), signOut's logout()
  MaxTokens, MaxUsers,  \* bound the rows
  MaxChallenges,    \* otp_max_requests_per_window; the model is one window
  MaxAttempts,      \* otp_max_attempts
  MaxLost           \* bounds the answers that do not arrive

ASSUME AccountsAssumption ==
  /\ {MaxTokens, MaxChallenges, MaxUsers, MaxAttempts} \subseteq Nat \ {0}
  /\ MaxLost \in Nat
  /\ IsFiniteSet(Logins) /\ Page \in Logins
  /\ Kinds \subseteq {"page", "me", "logout"}

VARIABLES
  challenge,  \* OtpChallenge rows, in the order of created_at
  submit,     \* verify_otp requests
  users,      \* how many accounts this phone has had
  owner,      \* the one that is not deleted; 0: none
  tokens,     \* RefreshToken rows
  stale,      \* pairs whose access token has expired
  store,      \* the pair in localStorage; 0: signed out
  call,       \* requests of the tabs, across their replay
  refresh,    \* refreshInFlight of each tab
  checks,     \* history: codes compared with each challenge
  overwritten,  \* history: attempts counted that a count did not know of
  raced,      \* history: tokens two rotations loaded before either revoked them
  overlap,    \* history: two tabs had a refresh in flight at once
  lost        \* answers lost so far

vars == <<challenge, submit, users, owner, tokens, stale, store, call, refresh,
          checks, overwritten, raced, overlap, lost>>
codes   == <<challenge, submit, checks, overwritten>>
rows    == <<users, owner, tokens, raced>>
browser == <<store, call, refresh, overlap>>

Challenges == 1 .. MaxChallenges
Tokens     == 1 .. MaxTokens
Made       == {k \in Challenges : challenge[k].state # "none"}
Issued     == {t \in Tokens : tokens[t].user # 0}
Fresh(t)   == t \in Issued \ stale
Active(u)  == u # 0 /\ u = owner

NoCall   == [pc |-> "idle", tab |-> 0, kind |-> "page", sent |-> 0, body |-> 0,
             retried |-> FALSE, answer |-> 0]
NoSubmit == [pc |-> "idle", id |-> 0, attempts |-> 0, found |-> 0]
NoRefresh == [pc |-> "none", token |-> 0, new |-> 0]

TypeOK ==
  /\ challenge \in [Challenges -> [state : {"none", "live", "expired", "consumed"},
                                   attempts : 0 .. MaxAttempts]]
  /\ submit \in [Logins -> [pc : {"idle", "loaded", "counted", "matched"},
                             id : 0 .. MaxChallenges, attempts : 0 .. MaxAttempts,
                             found : 0 .. MaxUsers]]
  /\ users \in 0 .. MaxUsers /\ owner \in 0 .. users
  /\ tokens \in [Tokens -> [user : 0 .. MaxUsers, login : 0 .. MaxTokens,
                            revoked : BOOLEAN, expired : BOOLEAN]]
  /\ stale \subseteq Issued /\ store \in Issued \cup {0}
  /\ call \in [Calls -> [pc : {"idle", "sent", "answered", "waiting"},
                         tab : Tabs \cup {0}, kind : {"page", "me", "logout"}, sent : 0 .. MaxTokens,
                         body : 0 .. MaxTokens, retried : BOOLEAN,
                         answer : {0, 200, 401, 404}]]
  /\ refresh \in [Tabs -> [pc : {"none", "sent", "loaded", "answered"},
                            token : 0 .. MaxTokens, new : 0 .. MaxTokens]]
  /\ checks \in [Challenges -> Nat] /\ overwritten \in [Challenges -> Int]
  /\ raced \subseteq Issued /\ overlap \in BOOLEAN
  /\ lost \in 0 .. MaxLost

Init ==
  /\ challenge = [k \in Challenges |-> [state |-> "none", attempts |-> 0]]
  /\ submit = [v \in Logins |-> NoSubmit]
  /\ users = 0 /\ owner = 0
  /\ tokens = [t \in Tokens |-> [user |-> 0, login |-> 0, revoked |-> FALSE,
                                 expired |-> FALSE]]
  /\ stale = {} /\ store = 0
  /\ call = [c \in Calls |-> NoCall]
  /\ refresh = [b \in Tabs |-> NoRefresh]
  /\ checks = [k \in Challenges |-> 0] /\ overwritten = [k \in Challenges |-> 0]
  /\ raced = {} /\ overlap = FALSE /\ lost = 0

-----------------------------------------------------------------------------
\* Codes.

\* request_otp, from anywhere: limited by the rows of the window.
RequestOtp ==
  /\ \E k \in Challenges \ Made :
       /\ \A j \in Challenges \ Made : k <= j
       /\ challenge' = [challenge EXCEPT ![k] = [state |-> "live", attempts |-> 0]]
  /\ UNCHANGED <<submit, checks, overwritten, rows, browser, stale, lost>>

CodeExpires(k) ==
  /\ challenge[k].state = "live"
  /\ challenge' = [challenge EXCEPT ![k].state = "expired"]
  /\ UNCHANGED <<submit, checks, overwritten, rows, browser, stale, lost>>

\* The newest challenge of the phone that is not consumed.
Newest(k) ==
  /\ challenge[k].state \in {"live", "expired"}
  /\ \A j \in Challenges : challenge[j].state \in {"live", "expired"} => j <= k

\* The login page is shown without a session.  A person takes longer to receive
\* a code and type it than a request takes: none of the tabs' is left.
Quiet ==
  /\ store = 0
  /\ \A b \in Tabs : refresh[b].pc = "none"
  /\ \A c \in Calls : call[c].pc = "idle"

\* verify_otp, first transaction: load the challenge ...
VerifyLoads(v) ==
  /\ submit[v] = NoSubmit
  /\ v = Page => Quiet
  /\ \E k \in Challenges :
       /\ Newest(k) /\ challenge[k].state = "live"
       /\ IF challenge[k].attempts >= MaxAttempts
            THEN /\ challenge' = [challenge EXCEPT ![k].state = "consumed"]
                 /\ UNCHANGED submit
            ELSE /\ submit' = [submit EXCEPT ![v] =
                      [pc |-> "loaded", id |-> k, attempts |-> challenge[k].attempts,
                       found |-> 0]]
                 /\ UNCHANGED challenge
  /\ UNCHANGED <<checks, overwritten, rows, browser, stale, lost>>

\* Faulty variant: rolled back with the failing request.
CountRolledBack(v) == submit[v].attempts

\* ... and count the attempt that was loaded plus one, committed whatever becomes
\* of the request and whatever others have counted.
CountedAttempts(v) == submit[v].attempts + 1
VerifyCounts(v) ==
  /\ submit[v].pc = "loaded"
  /\ LET k == submit[v].id IN
       /\ challenge' = [challenge EXCEPT ![k].attempts = CountedAttempts(v)]
       /\ overwritten' = [overwritten EXCEPT
                            ![k] = @ + (challenge[k].attempts - submit[v].attempts)]
  /\ submit' = [submit EXCEPT ![v].pc = "counted"]
  /\ UNCHANGED <<checks, rows, browser, stale, lost>>

\* Second transaction: compare, and look the account up.
VerifyCompares(v, right) ==
  /\ submit[v].pc = "counted"
  /\ checks' = [checks EXCEPT ![submit[v].id] = @ + 1]
  /\ submit' = [submit EXCEPT
                  ![v] = IF right THEN [@ EXCEPT !.pc = "matched", !.found = owner]
                                  ELSE NoSubmit]
  /\ UNCHANGED <<challenge, overwritten, rows, browser, stale, lost>>

NextToken(t) == t \notin Issued /\ \A j \in Tokens \ Issued : t <= j
Row(u, login) == [user |-> u, login |-> login, revoked |-> FALSE, expired |-> FALSE]

\* The tokens reach who asked: the login page keeps them.
Arrives(v, t) ==
  IF v = Page
    THEN \/ store' = t /\ UNCHANGED lost
         \/ lost < MaxLost /\ lost' = lost + 1 /\ UNCHANGED store
    ELSE UNCHANGED <<store, lost>>

\* _get_or_create_user, _issue_refresh_token and the commit, which asks nothing of
\* the code once it matched.  An account made meanwhile for the same phone fails
\* users_phone_key, and all is rolled back.
VerifyIssues(v) ==
  /\ submit[v].pc = "matched"
  /\ ~(submit[v].found = 0 /\ owner # 0)
  /\ submit[v].found = 0 => users < MaxUsers
  /\ \E t \in Tokens :
       LET new == submit[v].found = 0
           u   == IF new THEN users + 1 ELSE submit[v].found
       IN /\ NextToken(t)
          /\ users' = IF new THEN u ELSE users
          /\ owner' = IF new THEN u ELSE owner
          /\ tokens' = [tokens EXCEPT ![t] = Row(u, t)]
          /\ challenge' = [challenge EXCEPT ![submit[v].id].state = "consumed"]
          /\ Arrives(v, t)
  /\ submit' = [submit EXCEPT ![v] = NoSubmit]
  /\ UNCHANGED <<stale, call, refresh, overlap, checks, overwritten, raced>>

VerifyConflicts(v) ==
  /\ submit[v].pc = "matched"
  /\ submit[v].found = 0 /\ owner # 0
  /\ submit' = [submit EXCEPT ![v] = NoSubmit]
  /\ UNCHANGED <<challenge, checks, overwritten, rows, browser, stale, lost>>

\* add_member: staff give this phone an account.
AccountIsAdded ==
  /\ owner = 0 /\ users < MaxUsers
  /\ users' = users + 1 /\ owner' = users + 1
  /\ UNCHANGED <<codes, tokens, raced, browser, stale, lost>>

\* delete_account, called by another client that is signed in to it.
DeleteAccount ==
  /\ owner # 0
  /\ owner' = 0
  /\ tokens' = [t \in Tokens |-> IF tokens[t].user = owner
                                   THEN [tokens[t] EXCEPT !.revoked = TRUE] ELSE tokens[t]]
  /\ UNCHANGED <<codes, users, raced, browser, stale, lost>>

-----------------------------------------------------------------------------
\* Tokens run out: an access token after 15 minutes, a pair after 30 days.  A
\* replay takes seconds, so that the pair it was made with lasts until its end.
BeingReplayed(t) ==
  \/ \E b \in Tabs : refresh[b].new = t
  \/ \E c \in Calls : call[c].retried /\ call[c].sent = t

AccessExpires(t) ==
  /\ Fresh(t) /\ ~BeingReplayed(t)
  /\ stale' = stale \cup {t}
  /\ UNCHANGED <<codes, rows, browser, lost>>

RefreshExpires(t) ==
  /\ t \in stale /\ ~tokens[t].expired /\ ~tokens[t].revoked
  /\ tokens' = [tokens EXCEPT ![t].expired = TRUE]
  /\ UNCHANGED <<codes, users, owner, raced, browser, stale, lost>>

\* refresh_tokens: load and check the presented token ...
Rotates(t) ==
  /\ ~tokens[t].revoked /\ ~tokens[t].expired
  /\ Active(tokens[t].user)

Loaded(t) == {b \in Tabs : refresh[b].pc = "loaded" /\ refresh[b].token = t}

RefreshLoads(b) ==
  /\ refresh[b].pc = "sent"
  /\ LET t == refresh[b].token IN
       /\ refresh' = [refresh EXCEPT ![b].pc = IF Rotates(t) THEN "loaded" ELSE "answered"]
       /\ raced' = IF Rotates(t) /\ Loaded(t) # {} THEN raced \cup {t} ELSE raced
  /\ UNCHANGED <<codes, users, owner, tokens, stale, store, call, overlap, lost>>

\* Faulty variant: the presented token stays valid.
NotRevoked(t, new) == [tokens EXCEPT ![new] = Row(tokens[t].user, tokens[t].login)]

\* ... revoke it and issue the next.
Rotated(t, new) ==
  [tokens EXCEPT ![t].revoked = TRUE, ![new] = Row(tokens[t].user, tokens[t].login)]

RefreshCommits(b) ==
  /\ refresh[b].pc = "loaded"
  /\ \E new \in Tokens :
       /\ NextToken(new)
       /\ tokens' = Rotated(refresh[b].token, new)
       /\ refresh' = [refresh EXCEPT ![b].pc = "answered", ![b].new = new]
  /\ UNCHANGED <<codes, users, owner, raced, stale, store, call, overlap, lost>>

\* The request or its answer is lost: fetch throws.
RefreshLost(b) ==
  /\ refresh[b].pc \in {"sent", "answered"}
  /\ lost < MaxLost
  /\ lost' = lost + 1
  /\ refresh' = [refresh EXCEPT ![b].pc = "answered", ![b].new = 0]
  /\ UNCHANGED <<codes, rows, stale, store, call, overlap>>

-----------------------------------------------------------------------------
\* The tabs.

\* request: with the access token of the moment.
CallSends(c, b, kind) ==
  /\ call[c] = NoCall
  /\ store # 0
  /\ call' = [call EXCEPT ![c] = [NoCall EXCEPT
                !.pc = "sent", !.tab = b, !.kind = kind, !.sent = store,
                !.body = IF kind = "logout" THEN store ELSE 0]]
  /\ UNCHANGED <<codes, rows, stale, store, refresh, overlap, lost>>

\* get_current_user: 401 for a token that has expired, 404 for a deleted account.
Answer(t) ==
  CASE t = 0 \/ t \in stale -> 401
    [] t \in Issued \ stale /\ ~Active(tokens[t].user) -> 404
    [] OTHER -> 200

\* The API serves a call; revoke_refresh_token looks for a row of this user.
Revokes(c) ==
  {t \in {call[c].body} \ {0} : tokens[t].user = tokens[call[c].sent].user}

CallServed(c) ==
  /\ call[c].pc = "sent"
  /\ LET answer == Answer(call[c].sent) IN
       /\ call' = [call EXCEPT ![c].pc = "answered", ![c].answer = answer]
       /\ tokens' = [t \in Tokens |->
            IF answer = 200 /\ t \in Revokes(c) THEN [tokens[t] EXCEPT !.revoked = TRUE]
                                                ELSE tokens[t]]
  /\ UNCHANGED <<codes, users, owner, raced, stale, store, refresh, overlap, lost>>

CallLost(c) ==
  /\ call[c].pc \in {"sent", "answered"}
  /\ lost < MaxLost
  /\ lost' = lost + 1
  /\ call' = [call EXCEPT ![c].pc = "answered", ![c].answer = 0]
  /\ UNCHANGED <<codes, rows, stale, store, refresh, overlap>>

\* tryRefresh after a 401: join the tab's refresh in flight or start one.
Refused(c) == call[c].pc = "answered" /\ call[c].answer = 401 /\ ~call[c].retried
\* Faulty variant: every 401 starts a refresh of its own.
EachRefreshes(b) == FALSE
SingleFlight(b) == refresh[b].pc # "none"

Joins(c) ==
  /\ SingleFlight(call[c].tab)
  /\ UNCHANGED <<refresh, overlap>>

Starts(c) ==
  LET b == call[c].tab IN
  /\ ~SingleFlight(b) /\ store # 0
  /\ refresh' = [refresh EXCEPT ![b] = [pc |-> "sent", token |-> store, new |-> 0]]
  /\ overlap' = (overlap \/ \E o \in Tabs \ {b} : refresh[o].pc # "none")

CallWaits(c) ==
  /\ Refused(c)
  /\ Joins(c) \/ Starts(c)
  /\ call' = [call EXCEPT ![c].pc = "waiting"]
  /\ UNCHANGED <<codes, rows, stale, store, lost>>

\* Faulty variant: only requests made with the pair that was renewed resume.
WaitingForThis(b) ==
  {c \in Calls : call[c].pc = "waiting" /\ call[c].tab = b
                   /\ call[c].sent = refresh[b].token}
\* The refresh settles: those of the tab who waited replay their request with the
\* new pair, once, or give up and clear the session.
Waiting(b) == {c \in Calls : call[c].pc = "waiting" /\ call[c].tab = b}
Replayed(c, t) == [call[c] EXCEPT !.pc = "sent", !.sent = t, !.retried = TRUE, !.answer = 0]

RefreshSettles(b) ==
  /\ refresh[b].pc = "answered"
  /\ refresh' = [refresh EXCEPT ![b] = NoRefresh]
  /\ LET new == refresh[b].new IN
       /\ store' = new
       /\ call' = [c \in Calls |->
                     IF c \notin Waiting(b) THEN call[c]
                     ELSE IF new # 0 THEN Replayed(c, new) ELSE NoCall]
  /\ UNCHANGED <<codes, rows, stale, overlap, lost>>

\* What a tab does with the outcome: signOut clears the session whatever it
\* is, SessionProvider's me() clears it unless it succeeded, and request itself
\* clears it when there is nothing to refresh with.
Clears(c) ==
  \/ call[c].kind = "logout"
  \/ call[c].kind = "me" /\ call[c].answer # 200
  \/ Refused(c)

CallEnds(c) ==
  /\ call[c].pc = "answered"
  /\ Refused(c) => store = 0 /\ ~SingleFlight(call[c].tab)
  /\ store' = IF Clears(c) THEN 0 ELSE store
  /\ call' = [call EXCEPT ![c] = NoCall]
  /\ UNCHANGED <<codes, rows, stale, refresh, overlap, lost>>

-----------------------------------------------------------------------------
Verifying(v) ==
  \/ VerifyLoads(v) \/ VerifyCounts(v) \/ VerifyIssues(v) \/ VerifyConflicts(v)
  \/ \E right \in BOOLEAN : VerifyCompares(v, right)
Refreshing(b) == RefreshLoads(b) \/ RefreshCommits(b) \/ RefreshSettles(b)
Calling(c) == CallServed(c) \/ CallWaits(c) \/ CallEnds(c)

Next ==
  \/ RequestOtp \/ AccountIsAdded \/ DeleteAccount
  \/ \E k \in Challenges : CodeExpires(k)
  \/ \E v \in Logins : Verifying(v)
  \/ \E t \in Tokens : AccessExpires(t) \/ RefreshExpires(t)
  \/ \E c \in Calls, b \in Tabs, kind \in Kinds : CallSends(c, b, kind)
  \/ \E c \in Calls : Calling(c) \/ CallLost(c)
  \/ \E b \in Tabs : Refreshing(b) \/ RefreshLost(b)

Spec == Init /\ [][Next]_vars

\* The API answers what reaches it and the client handles the answers.
Fairness ==
  /\ \A b \in Tabs : WF_vars(Refreshing(b))
  /\ \A c \in Calls : WF_vars(Calling(c))

FairSpec == Spec /\ Fairness

-----------------------------------------------------------------------------
\* A code is compared otp_max_attempts times at most, although a failing request
\* is rolled back (verify_otp commits the count before it compares), and once more
\* for every attempt that a request beside it counted and that it wrote over.
AttemptsBounded ==
  \A k \in Challenges : checks[k] <= MaxAttempts + overwritten[k]

Renewable(t) == t \in Issued /\ ~tokens[t].revoked

\* Of the pairs one sign-in led to, at most one can still be renewed, whatever
\* answers are lost, unless two requests had loaded one of them before either
\* revoked it (refresh_tokens checks and revokes without a lock).
RotationKeepsOne ==
  \A t, r \in Tokens :
    Renewable(t) /\ Renewable(r) /\ t # r /\ tokens[t].login = tokens[r].login =>
      \E s \in raced : tokens[s].login = tokens[t].login

\* The client forgets a session only when the player signs out, the pair ran
\* out, the account is gone, the network failed or two tabs renewed it at once:
\* requests that meet an expired token, together or late, in one tab or in tabs
\* one after the other, renew it and do not end it.
SessionSurvives ==
  [][store # 0 /\ store' = 0 =>
       \/ lost > 0
       \/ overlap
       \/ \E c \in Calls : call[c].kind = "logout"
       \/ tokens[store].expired
       \/ ~Active(tokens[store].user)]_vars

\* Every request of a tab ends, replayed or not (unless MaxTokens is met).
CallsEnd ==
  \A c \in Calls : call[c].pc # "idle" ~> call[c].pc = "idle" \/ Issued = Tokens

\* What docs/api.md and the comments of auth_service.py say without a condition.
\* No run has these among its properties, since they are false of requests that
\* overlap: each guess counts, a code signs in once, a revoked token is not renewed.
CodeIsGuessedSeldom == \A k \in Challenges : checks[k] <= MaxAttempts

CodeSignsInOnce ==
  [][\A v \in Logins : VerifyIssues(v) => challenge[submit[v].id].state # "consumed"]_vars

RotatesOnce ==
  [][\A b \in Tabs : RefreshCommits(b) => ~tokens[refresh[b].token].revoked]_vars

\* What docs/api.md says of logout: it revokes the session that was signed out
\* of, when its request gets through and the account still is there.  No run
\* has it among its properties, since it is false: a logout that meets an
\* expired access token rotates the pair and then, replayed with the body it
\* had, revokes the old half of it.
SignOutEnds ==
  [][\A c \in Calls :
       call[c].kind = "logout" /\ call'[c] = NoCall /\ lost = 0
         /\ Active(tokens[call[c].body].user) =>
         \A t \in Issued : tokens[t].login = tokens[call[c].body].login =>
                             tokens[t].revoked \/ tokens[t].expired]_vars
=============================================================================
