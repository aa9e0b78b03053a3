-------------------------- MODULE Accounts_proofs --------------------------
(***************************************************************************)
(* Proofs about Accounts: the attempts at a code, the threads of refresh   *)
(* tokens, and the session of the web client, for any number of requests   *)
(* side by side, tabs, calls, tokens, accounts, codes, attempts and lost   *)
(* answers.  Each says what requests without a lock leave of the rule: how  *)
(* many attempts are lost, which sign-ins may keep two tokens, and that a   *)
(* session outlives refreshes of one tab at a time.                         *)
(***************************************************************************)
EXTENDS Accounts, FiniteSetTheorems, TLAPS

SubmitRow == [pc : {"idle", "loaded", "counted", "matched"},
              id : Nat, attempts : Nat, found : Nat]

CodesTyped ==
  /\ challenge \in [Challenges -> [state : {"none", "live", "expired", "consumed"},
                                   attempts : Nat]]
  /\ submit \in [Logins -> SubmitRow]
  /\ \A v \in Logins : submit[v].pc # "idle" => submit[v].id \in Made
  /\ checks \in [Challenges -> Nat]
  /\ overwritten \in [Challenges -> Int]

\* Requests that have counted their attempt and not compared the code yet.
Pending(k) == {v \in Logins : submit[v].pc = "counted" /\ submit[v].id = k}

\* Every comparison was counted before: its attempt is in the row, or was written
\* over.  A request gets as far as its count when what it loaded leaves room.
Counted ==
  /\ \A k \in Challenges :
       checks[k] + Cardinality(Pending(k)) <= challenge[k].attempts + overwritten[k]
  /\ \A k \in Challenges : challenge[k].attempts <= MaxAttempts
  /\ \A k \in Challenges \ Made : checks[k] = 0 /\ overwritten[k] = 0
  /\ \A v \in Logins : submit[v].pc = "loaded" => submit[v].attempts < MaxAttempts

CodesInv == CodesTyped /\ Counted

TokenRow  == [user : Nat, login : Nat, revoked : BOOLEAN, expired : BOOLEAN]
InFlight  == [pc : {"none", "sent", "loaded", "answered"},
              token : Tokens \cup {0}, new : Tokens \cup {0}]

TokensTyped ==
  /\ users \in Nat /\ owner \in Nat
  /\ submit \in [Logins -> SubmitRow]
  /\ tokens \in [Tokens -> TokenRow]
  /\ store \in Tokens \cup {0}
  /\ refresh \in [Tabs -> InFlight]
  /\ \A b \in Tabs : refresh[b].pc \in {"sent", "loaded"} => refresh[b].token \in Tokens
  /\ raced \subseteq Issued

\* A sign-in is named by its first token.
LoginsIssued == \A t \in Issued : tokens[t].login \in Issued

\* A token of this sign-in was loaded by two rotations.
Raced(login) == \E s \in raced : tokens[s].login = login

\* While a rotation is between its load and its commit, no other token of the
\* sign-in is valid, even if the one it holds is revoked under it, and no other
\* rotation of the sign-in is; unless one of its tokens was raced for.
RotatesTheLast ==
  \A b \in Tabs : refresh[b].pc = "loaded" =>
    /\ refresh[b].token \in Issued
    /\ \/ Raced(tokens[refresh[b].token].login)
       \/ /\ \A t \in Issued :
               t # refresh[b].token /\ tokens[t].login = tokens[refresh[b].token].login =>
                 tokens[t].revoked
          /\ \A o \in Tabs :
               refresh[o].pc = "loaded"
                 /\ tokens[refresh[o].token].login = tokens[refresh[b].token].login =>
                   o = b

TokensInv == TokensTyped /\ LoginsIssued /\ RotatesTheLast /\ RotationKeepsOne

-----------------------------------------------------------------------------
(***************************************************************************)
(* The attempts at a code.                                                 *)
(***************************************************************************)
LEMMA PendingAreCounted ==
  ASSUME NEW k PROVE IsFiniteSet(Pending(k)) /\ Cardinality(Pending(k)) \in Nat
<1>1. Pending(k) \subseteq Logins /\ IsFiniteSet(Logins)
  BY AccountsAssumption DEF Pending
<1> QED BY <1>1, FS_Subset, FS_CardinalityType

LEMMA CodesInitially == Init => CodesInv
<1> SUFFICES ASSUME Init PROVE CodesInv
  OBVIOUS
<1>1. CodesTyped /\ \A v \in Logins : submit[v].pc = "idle"
  BY AccountsAssumption DEF Init, NoSubmit, CodesTyped, SubmitRow
<1>2. \A k : Pending(k) = {}
  BY <1>1 DEF Pending
<1>3. \A k : Cardinality(Pending(k)) = 0
  BY <1>2, FS_EmptySet
<1> QED BY <1>1, <1>3, AccountsAssumption DEF Init, CodesInv, Counted, Challenges

\* Whatever leaves the requests between count and comparison alone leaves the books
\* of a challenge alone.
LEMMA SamePending ==
  ASSUME \A v \in Logins : /\ submit'[v].pc = "counted" <=> submit[v].pc = "counted"
                           /\ submit[v].pc = "counted" => submit'[v].id = submit[v].id
  PROVE  \A k \in Challenges : Cardinality(Pending(k))' = Cardinality(Pending(k))
<1>1. \A k \in Challenges : Pending(k)' = Pending(k)
  BY DEF Pending
<1> QED BY <1>1

LEMMA RequestKeepsCodes ==
  ASSUME CodesInv, RequestOtp PROVE CodesInv'
<1> USE AccountsAssumption DEF CodesInv
<1>1. PICK k \in Challenges \ Made :
        challenge' = [challenge EXCEPT ![k] = [state |-> "live", attempts |-> 0]]
  BY DEF RequestOtp
<1>2. submit' = submit /\ checks' = checks /\ overwritten' = overwritten
  BY DEF RequestOtp
<1>3. /\ challenge'[k] = [state |-> "live", attempts |-> 0]
      /\ \A j \in Challenges \ {k} : challenge'[j] = challenge[j]
  BY <1>1 DEF CodesTyped
<1>4. Made' = Made \cup {k}
  BY <1>3 DEF Made
<1>5. CodesTyped'
  BY <1>1, <1>2, <1>4 DEF CodesTyped
<1>6. \A j \in Challenges :
        checks'[j] + Cardinality(Pending(j))' <= challenge'[j].attempts + overwritten'[j]
  <2>1. \A j \in Challenges : Cardinality(Pending(j))' = Cardinality(Pending(j))
    BY <1>2, SamePending
  <2>2. Pending(k) = {}
    BY DEF Pending, CodesTyped
  <2>3. Cardinality(Pending(k)) = 0 /\ checks[k] = 0 /\ overwritten[k] = 0
    BY <2>2, FS_EmptySet DEF Counted
  <2> QED BY <1>2, <1>3, <2>1, <2>3 DEF Counted
<1>7. Counted'
  BY <1>2, <1>3, <1>4, <1>6 DEF Counted
<1> QED BY <1>5, <1>7

\* A challenge may expire or be consumed, and a request be forgotten, without a word
\* to the books.
LEMMA RestKeepsCodes ==
  ASSUME CodesInv,
         challenge' \in [Challenges -> [state : {"none", "live", "expired", "consumed"},
                                        attempts : Nat]],
         \A k \in Challenges : challenge'[k].attempts = challenge[k].attempts,
         Made' = Made,
         submit' \in [Logins -> SubmitRow],
         \A v \in Logins : submit'[v] = submit[v] \/ (submit'[v].pc = "idle" /\ submit[v].pc # "counted"),
         checks' = checks, overwritten' = overwritten
  PROVE  CodesInv'
<1> USE DEF CodesInv
<1>1. \A k \in Challenges : Cardinality(Pending(k))' = Cardinality(Pending(k))
  BY SamePending
<1>2. CodesTyped'
  BY DEF CodesTyped
<1>3. Counted'
  BY <1>1 DEF Counted
<1> QED BY <1>2, <1>3

LEMMA ExpiryKeepsCodes ==
  ASSUME CodesInv, NEW k \in Challenges, CodeExpires(k) PROVE CodesInv'
<1>1. /\ challenge[k].state = "live"
      /\ challenge' = [challenge EXCEPT ![k].state = "expired"]
      /\ submit' = submit /\ checks' = checks /\ overwritten' = overwritten
  BY DEF CodeExpires
<1>2. /\ \A j \in Challenges : challenge'[j].attempts = challenge[j].attempts
      /\ Made' = Made
      /\ challenge' \in [Challenges -> [state : {"none", "live", "expired", "consumed"},
                                        attempts : Nat]]
      /\ submit' \in [Logins -> SubmitRow]
  BY <1>1 DEF CodesInv, CodesTyped, Made
<1> QED BY <1>1, <1>2, RestKeepsCodes

LEMMA LoadKeepsCodes ==
  ASSUME CodesInv, NEW v \in Logins, VerifyLoads(v) PROVE CodesInv'
<1> USE AccountsAssumption DEF CodesInv
<1>1. PICK k \in Challenges :
        /\ challenge[k].state = "live"
        /\ IF challenge[k].attempts >= MaxAttempts
             THEN /\ challenge' = [challenge EXCEPT ![k].state = "consumed"]
                  /\ UNCHANGED submit
             ELSE /\ submit' = [submit EXCEPT ![v] =
                       [pc |-> "loaded", id |-> k, attempts |-> challenge[k].attempts,
                        found |-> 0]]
                  /\ UNCHANGED challenge
  BY DEF VerifyLoads
<1>2. submit[v].pc = "idle" /\ checks' = checks /\ overwritten' = overwritten
  BY DEF VerifyLoads, NoSubmit
<1>3. k \in Made
  BY <1>1 DEF Made
<1>4. CASE challenge[k].attempts >= MaxAttempts
  <2>1. /\ challenge' = [challenge EXCEPT ![k].state = "consumed"]
        /\ submit' = submit
    BY <1>1, <1>4
  <2>2. /\ \A j \in Challenges : challenge'[j].attempts = challenge[j].attempts
        /\ Made' = Made
        /\ challenge' \in [Challenges -> [state : {"none", "live", "expired", "consumed"},
                                          attempts : Nat]]
        /\ submit' \in [Logins -> SubmitRow]
    BY <2>1, <1>1 DEF CodesTyped, Made
  <2> QED BY <1>2, <2>1, <2>2, RestKeepsCodes
<1>5. CASE ~(challenge[k].attempts >= MaxAttempts)
  <2>1. /\ submit' = [submit EXCEPT ![v] =
             [pc |-> "loaded", id |-> k, attempts |-> challenge[k].attempts, found |-> 0]]
        /\ challenge' = challenge /\ Made' = Made
    BY <1>1, <1>5 DEF Made
  <2>2. /\ submit'[v] = [pc |-> "loaded", id |-> k, attempts |-> challenge[k].attempts,
                         found |-> 0]
        /\ \A w \in Logins \ {v} : submit'[w] = submit[w]
    BY <2>1 DEF CodesTyped
  <2>3. CodesTyped'
    BY <1>2, <1>3, <2>1, <2>2 DEF CodesTyped, Challenges, SubmitRow
  <2>4. \A j \in Challenges : Cardinality(Pending(j))' = Cardinality(Pending(j))
    BY <1>2, <2>2, SamePending
  <2>5. challenge[k].attempts < MaxAttempts
    BY <1>5 DEF CodesTyped
  <2> QED BY <1>2, <2>1, <2>2, <2>3, <2>4, <2>5 DEF Counted
<1> QED BY <1>4, <1>5

LEMMA CountKeepsCodes ==
  ASSUME CodesInv, NEW v \in Logins, VerifyCounts(v) PROVE CodesInv'
<1> USE AccountsAssumption DEF CodesInv
<1> DEFINE a == submit[v].attempts
<1>0. PICK k \in Made : k = submit[v].id
  BY DEF VerifyCounts, CodesTyped
<1>1. /\ submit[v].pc = "loaded" /\ submit[v].id = k /\ k \in Challenges
      /\ challenge' = [challenge EXCEPT ![k].attempts = a + 1]
      /\ overwritten' = [overwritten EXCEPT
                           ![k] = overwritten[k] + (challenge[k].attempts - a)]
      /\ submit' = [submit EXCEPT ![v].pc = "counted"]
      /\ checks' = checks
  BY <1>0 DEF VerifyCounts, CountedAttempts, CodesTyped, Made
<1>2. a \in Nat /\ a < MaxAttempts /\ challenge[k].attempts \in Nat
  BY <1>1 DEF CodesTyped, Counted, SubmitRow
<1>3. /\ challenge'[k].attempts = a + 1
      /\ overwritten'[k] = overwritten[k] + (challenge[k].attempts - a)
      /\ \A j \in Challenges \ {k} : /\ challenge'[j].attempts = challenge[j].attempts
                                     /\ overwritten'[j] = overwritten[j]
      /\ \A j \in Challenges : challenge'[j].state = challenge[j].state
  BY <1>1 DEF CodesTyped
<1>4. Made' = Made
  BY <1>3 DEF Made
<1>5. /\ submit'[v].pc = "counted" /\ submit'[v].id = k
      /\ \A w \in Logins \ {v} : submit'[w] = submit[w]
  BY <1>1 DEF CodesTyped, SubmitRow
<1>6. CodesTyped'
  <2>1. submit' \in [Logins -> SubmitRow]
    BY <1>1 DEF CodesTyped, SubmitRow
  <2>2. overwritten' \in [Challenges -> Int]
    BY <1>1, <1>2 DEF CodesTyped
  <2>3. challenge' \in [Challenges -> [state : {"none", "live", "expired", "consumed"},
                                       attempts : Nat]]
    BY <1>1, <1>2 DEF CodesTyped
  <2> QED BY <1>0, <1>1, <1>4, <1>5, <2>1, <2>2, <2>3 DEF CodesTyped
<1>7. Cardinality(Pending(k))' = Cardinality(Pending(k)) + 1
  <2>1. Pending(k)' = Pending(k) \cup {v} /\ v \notin Pending(k)
    BY <1>1, <1>5 DEF Pending
  <2>2. Cardinality(Pending(k) \cup {v}) = Cardinality(Pending(k)) + 1
    BY <2>1, PendingAreCounted, FS_AddElement
  <2> QED BY <2>1, <2>2
<1>8. ASSUME NEW j \in Challenges \ {k}
      PROVE  Cardinality(Pending(j))' = Cardinality(Pending(j))
  <2>1. Pending(j)' = Pending(j)
    BY <1>1, <1>5 DEF Pending
  <2> QED BY <2>1
<1>9. Counted'
  <2>1. checks'[k] + Cardinality(Pending(k))' <= challenge'[k].attempts + overwritten'[k]
    <3>1. checks[k] + Cardinality(Pending(k)) <= challenge[k].attempts + overwritten[k]
      BY <1>1 DEF Counted
    <3>2. checks[k] \in Nat /\ overwritten[k] \in Int /\ Cardinality(Pending(k)) \in Nat
      BY <1>1, PendingAreCounted DEF CodesTyped
    <3> HIDE DEF a
    <3> QED BY <1>1, <1>2, <1>3, <1>7, <3>1, <3>2
  <2>2. \A j \in Challenges :
          checks'[j] + Cardinality(Pending(j))' <= challenge'[j].attempts + overwritten'[j]
    BY <1>1, <1>3, <1>8, <2>1 DEF Counted
  <2>3. \A j \in Challenges : challenge'[j].attempts <= MaxAttempts
    BY <1>2, <1>3 DEF Counted
  <2>4. \A j \in Challenges \ Made : checks'[j] = 0 /\ overwritten'[j] = 0
    BY <1>1, <1>3 DEF Counted
  <2>5. \A w \in Logins : submit'[w].pc = "loaded" => submit'[w].attempts < MaxAttempts
    BY <1>5 DEF Counted
  <2> QED BY <1>4, <2>2, <2>3, <2>4, <2>5 DEF Counted
<1> QED BY <1>6, <1>9

LEMMA CompareKeepsCodes ==
  ASSUME CodesInv, owner \in Nat, NEW v \in Logins, NEW right \in BOOLEAN,
         VerifyCompares(v, right)
  PROVE  CodesInv'
<1> USE AccountsAssumption DEF CodesInv
<1>0. PICK k \in Made : k = submit[v].id
  BY DEF VerifyCompares, CodesTyped
<1>1. /\ submit[v].pc = "counted" /\ submit[v].id = k /\ k \in Challenges
      /\ checks' = [checks EXCEPT ![k] = checks[k] + 1]
      /\ challenge' = challenge /\ Made' = Made /\ overwritten' = overwritten
  BY <1>0 DEF VerifyCompares, CodesTyped, Made
<1>2. /\ submit' \in [Logins -> SubmitRow]
      /\ \A w \in Logins \ {v} : submit'[w] = submit[w]
      /\ submit'[v].pc \in {"idle", "matched"}
      /\ submit'[v].pc = "matched" => submit'[v].id = k
  <2>1. CASE right
    BY <1>0, <2>1 DEF VerifyCompares, CodesTyped, SubmitRow
  <2>2. CASE ~right
    BY <2>2 DEF VerifyCompares, CodesTyped, SubmitRow, NoSubmit
  <2> QED BY <2>1, <2>2
<1>3. CodesTyped'
  BY <1>0, <1>1, <1>2 DEF CodesTyped
<1>4. Cardinality(Pending(k))' = Cardinality(Pending(k)) - 1
  <2>1. Pending(k)' = Pending(k) \ {v} /\ v \in Pending(k)
    BY <1>1, <1>2 DEF Pending
  <2>2. Cardinality(Pending(k) \ {v}) = Cardinality(Pending(k)) - 1
    BY <2>1, PendingAreCounted, FS_RemoveElement
  <2> QED BY <2>1, <2>2
<1>5. ASSUME NEW j \in Challenges \ {k}
      PROVE  Cardinality(Pending(j))' = Cardinality(Pending(j))
  <2>1. Pending(j)' = Pending(j)
    BY <1>1, <1>2 DEF Pending
  <2> QED BY <2>1
<1>6. Counted'
  <2>1. checks'[k] + Cardinality(Pending(k))' <= challenge'[k].attempts + overwritten'[k]
    <3>1. checks[k] + Cardinality(Pending(k)) <= challenge[k].attempts + overwritten[k]
      BY <1>1 DEF Counted
    <3>2. checks[k] \in Nat /\ Cardinality(Pending(k)) \in Nat /\ checks'[k] = checks[k] + 1
      BY <1>1, PendingAreCounted DEF CodesTyped
    <3>3. (checks[k] + 1) + (Cardinality(Pending(k)) - 1)
            = checks[k] + Cardinality(Pending(k))
      BY <3>2
    <3> QED BY <1>1, <1>4, <3>1, <3>2, <3>3
  <2>2. \A j \in Challenges \ {k} : checks'[j] = checks[j]
    BY <1>1 DEF CodesTyped
  <2> QED BY <1>1, <1>2, <1>5, <2>1, <2>2 DEF Counted
<1> QED BY <1>3, <1>6

LEMMA IssueKeepsCodes ==
  ASSUME CodesInv, NEW v \in Logins, VerifyIssues(v) PROVE CodesInv'
<1> USE DEF CodesInv
<1> DEFINE k == submit[v].id
<1>1. /\ submit[v].pc = "matched" /\ k \in Made /\ k \in Challenges
      /\ challenge' = [challenge EXCEPT ![k].state = "consumed"]
      /\ submit' = [submit EXCEPT ![v] = NoSubmit]
      /\ checks' = checks /\ overwritten' = overwritten
  BY DEF VerifyIssues, CodesTyped, Made
<1>2. /\ \A j \in Challenges : challenge'[j].attempts = challenge[j].attempts
      /\ Made' = Made
      /\ challenge' \in [Challenges -> [state : {"none", "live", "expired", "consumed"},
                                        attempts : Nat]]
  BY <1>1 DEF CodesTyped, Made
<1>3. /\ submit' \in [Logins -> SubmitRow]
      /\ submit'[v].pc = "idle" /\ \A w \in Logins \ {v} : submit'[w] = submit[w]
  BY <1>1 DEF CodesTyped, SubmitRow, NoSubmit
<1> QED BY <1>1, <1>2, <1>3, RestKeepsCodes

LEMMA ConflictKeepsCodes ==
  ASSUME CodesInv, NEW v \in Logins, VerifyConflicts(v) PROVE CodesInv'
<1>1. /\ submit' = [submit EXCEPT ![v] = NoSubmit] /\ challenge' = challenge
      /\ checks' = checks /\ overwritten' = overwritten
      /\ Made' = Made /\ submit[v].pc = "matched"
  BY DEF VerifyConflicts, Made
<1>2. /\ submit' \in [Logins -> SubmitRow]
      /\ submit'[v].pc = "idle" /\ \A w \in Logins \ {v} : submit'[w] = submit[w]
  BY <1>1 DEF CodesInv, CodesTyped, SubmitRow, NoSubmit
<1>3. challenge' \in [Challenges -> [state : {"none", "live", "expired", "consumed"},
                                     attempts : Nat]]
  BY <1>1 DEF CodesInv, CodesTyped
<1> QED BY <1>1, <1>2, <1>3, RestKeepsCodes

LEMMA OthersKeepCodes ==
  ASSUME CodesInv, UNCHANGED codes PROVE CodesInv'
<1>1. UNCHANGED <<challenge, submit, checks, overwritten>> /\ Made' = Made
  BY DEF codes, Made
<1> QED BY <1>1, RestKeepsCodes DEF CodesInv, CodesTyped

-----------------------------------------------------------------------------
(***************************************************************************)
(* The threads of refresh tokens.                                          *)
(***************************************************************************)
LEMMA TokensInitially == Init => TokensInv
  BY AccountsAssumption
  DEF Init, NoSubmit, SubmitRow, NoRefresh, TokensInv, TokensTyped, TokenRow, InFlight, LoginsIssued,
      RotatesTheLast, RotationKeepsOne, Renewable, Issued, Tokens

\* Whatever only revokes or expires tokens, and starts no rotation of a loaded
\* token, keeps the threads as they are.
LEMMA RevokingKeepsTokens ==
  ASSUME TokensInv,
         users' \in Nat, owner' \in Nat, submit' \in [Logins -> SubmitRow],
         store' \in Tokens \cup {0},
         tokens' \in [Tokens -> TokenRow],
         \A t \in Tokens : /\ tokens'[t].user = tokens[t].user
                           /\ tokens'[t].login = tokens[t].login
                           /\ tokens[t].revoked => tokens'[t].revoked,
         refresh' \in [Tabs -> InFlight],
         \A b \in Tabs : refresh'[b].pc \in {"sent", "loaded"} => refresh'[b].token \in Tokens,
         \A b \in Tabs : refresh'[b].pc = "loaded" => refresh'[b] = refresh[b],
         raced' = raced
  PROVE  TokensInv'
<1> USE DEF TokensInv
<1>1. Issued' = Issued /\ Issued \subseteq Tokens /\ raced \subseteq Issued
  BY DEF Issued, TokensTyped
<1>2. TokensTyped'
  BY <1>1 DEF TokensTyped, Tokens, TokenRow, InFlight
<1>3. LoginsIssued'
  BY <1>1 DEF LoginsIssued
<1>4. \A n : Raced(n)' <=> Raced(n)
  BY <1>1 DEF Raced
<1>5. RotatesTheLast'
  <2> SUFFICES ASSUME NEW b \in Tabs, refresh'[b].pc = "loaded"
               PROVE  /\ refresh'[b].token \in Issued'
                      /\ \/ Raced(tokens[refresh[b].token].login)'
                         \/ /\ \A t \in Issued' :
                                 t # refresh'[b].token
                                   /\ tokens'[t].login = tokens'[refresh'[b].token].login =>
                                     tokens'[t].revoked
                            /\ \A o \in Tabs :
                                 refresh'[o].pc = "loaded"
                                   /\ tokens'[refresh'[o].token].login
                                        = tokens'[refresh'[b].token].login =>
                                     o = b
    BY DEF RotatesTheLast
  <2>1. refresh'[b] = refresh[b] /\ refresh[b].pc = "loaded" /\ refresh[b].token \in Issued
    BY DEF RotatesTheLast
  <2>2. /\ tokens'[refresh[b].token].login = tokens[refresh[b].token].login
        /\ refresh'[b].token = refresh[b].token
    BY <1>1, <2>1
  <2>3. CASE Raced(tokens[refresh[b].token].login)
    <3> DEFINE n == tokens[refresh[b].token].login
    <3>1. n' = n
      BY <2>2
    <3>2. PICK s \in raced : tokens[s].login = n
      BY <2>3 DEF Raced
    <3>3. s \in raced' /\ tokens'[s].login = n'
      BY <1>1, <3>1, <3>2
    <3> QED BY <1>1, <2>1, <3>3 DEF Raced
  <2>4. CASE ~Raced(tokens[refresh[b].token].login)
    <3>1. \A t \in Issued :
            t # refresh[b].token /\ tokens[t].login = tokens[refresh[b].token].login =>
              tokens[t].revoked
      BY <2>1, <2>4 DEF RotatesTheLast
    <3>2. \A o \in Tabs :
            refresh[o].pc = "loaded"
              /\ tokens[refresh[o].token].login = tokens[refresh[b].token].login => o = b
      BY <2>1, <2>4 DEF RotatesTheLast
    <3>3. \A o \in Tabs : refresh'[o].pc = "loaded" =>
            /\ refresh[o].pc = "loaded" /\ refresh'[o].token = refresh[o].token
            /\ tokens'[refresh'[o].token].login = tokens[refresh[o].token].login
      BY <1>1 DEF RotatesTheLast
    <3> QED BY <1>1, <2>1, <2>2, <3>1, <3>2, <3>3
  <2> QED BY <2>3, <2>4
<1>6. RotationKeepsOne'
  <2> SUFFICES ASSUME NEW t \in Tokens, NEW r \in Tokens, Renewable(t)', Renewable(r)',
                      t # r, tokens'[t].login = tokens'[r].login
               PROVE  \E s \in raced' : tokens'[s].login = tokens'[t].login
    BY DEF RotationKeepsOne
  <2>1. Renewable(t) /\ Renewable(r) /\ tokens[t].login = tokens[r].login
    BY <1>1 DEF Renewable
  <2>2. PICK s \in raced : tokens[s].login = tokens[t].login
    BY <2>1 DEF RotationKeepsOne
  <2> QED BY <1>1, <2>2
<1> QED BY <1>2, <1>3, <1>5, <1>6

LEMMA IssueKeepsTokens ==
  ASSUME TokensInv, NEW v \in Logins, VerifyIssues(v) PROVE TokensInv'
<1> USE DEF TokensInv
<1> DEFINE new == submit[v].found = 0
           u   == IF new THEN users + 1 ELSE submit[v].found
<1>1. PICK t \in Tokens :
        /\ t \notin Issued
        /\ users' = IF new THEN u ELSE users
        /\ owner' = IF new THEN u ELSE owner
        /\ tokens' = [tokens EXCEPT ![t] = Row(u, t)]
        /\ store' = t \/ store' = store
  BY DEF VerifyIssues, NextToken, Arrives
<1>2. u \in Nat /\ u # 0
  BY DEF TokensTyped, SubmitRow
<1>3. /\ tokens'[t] = [user |-> u, login |-> t, revoked |-> FALSE, expired |-> FALSE]
      /\ \A j \in Tokens \ {t} : tokens'[j] = tokens[j]
  BY <1>1 DEF TokensTyped, Row
<1>4. Issued' = Issued \cup {t} /\ Issued \subseteq Tokens
  BY <1>2, <1>3 DEF Issued
<1>5. refresh' = refresh /\ submit' = [submit EXCEPT ![v] = NoSubmit] /\ raced' = raced
  BY DEF VerifyIssues
<1>6. TokensTyped'
  <2>1. tokens' \in [Tokens -> TokenRow]
    BY <1>1, <1>2 DEF TokensTyped, TokenRow, Row, Tokens
  <2>2. users' \in Nat /\ owner' \in Nat /\ store' \in Tokens \cup {0}
    BY <1>1, <1>2 DEF TokensTyped
  <2>3. submit' \in [Logins -> SubmitRow]
    BY <1>5 DEF TokensTyped, SubmitRow, NoSubmit
  <2>4. raced' \subseteq Issued'
    BY <1>4, <1>5 DEF TokensTyped
  <2> QED BY <1>5, <2>1, <2>2, <2>3, <2>4 DEF TokensTyped, Tokens
<1>7. \A j \in Issued : tokens'[j] = tokens[j] /\ j # t /\ tokens[j].login # t
  BY <1>1, <1>3, <1>4 DEF LoginsIssued
<1>8. LoginsIssued'
  BY <1>1, <1>3, <1>4, <1>7 DEF LoginsIssued
<1>9. RotatesTheLast'
  <2> SUFFICES ASSUME NEW b \in Tabs, refresh[b].pc = "loaded"
               PROVE  /\ refresh[b].token \in Issued'
                      /\ \/ Raced(tokens[refresh[b].token].login)'
                         \/ /\ \A j \in Issued' :
                                 j # refresh[b].token
                                   /\ tokens'[j].login = tokens'[refresh[b].token].login =>
                                     tokens'[j].revoked
                            /\ \A o \in Tabs :
                                 refresh[o].pc = "loaded"
                                   /\ tokens'[refresh[o].token].login
                                        = tokens'[refresh[b].token].login =>
                                     o = b
    BY <1>5 DEF RotatesTheLast
  <2>1. refresh[b].token \in Issued
    BY DEF RotatesTheLast
  <2>2. \A o \in Tabs : refresh[o].pc = "loaded" =>
          /\ refresh[o].token \in Issued
          /\ tokens'[refresh[o].token] = tokens[refresh[o].token]
    BY <1>7 DEF RotatesTheLast
  <2>3. CASE Raced(tokens[refresh[b].token].login)
    <3>1. PICK s \in raced : tokens[s].login = tokens[refresh[b].token].login
      BY <2>3 DEF Raced
    <3>2. s \in raced' /\ tokens'[s].login = tokens'[refresh[b].token].login
      BY <1>5, <1>7, <2>2, <3>1 DEF TokensTyped
    <3> QED BY <1>4, <1>5, <2>1, <3>2 DEF Raced
  <2>4. CASE ~Raced(tokens[refresh[b].token].login)
    <3>1. \A j \in Issued :
            j # refresh[b].token /\ tokens[j].login = tokens[refresh[b].token].login =>
              tokens[j].revoked
      BY <2>4 DEF RotatesTheLast
    <3>2. \A o \in Tabs :
            refresh[o].pc = "loaded"
              /\ tokens[refresh[o].token].login = tokens[refresh[b].token].login => o = b
      BY <2>4 DEF RotatesTheLast
    <3>3. tokens'[t].login = t
      BY <1>3
    <3> QED BY <1>4, <1>7, <2>1, <2>2, <3>1, <3>2, <3>3
  <2> QED BY <2>3, <2>4
<1>10. RotationKeepsOne'
  <2> SUFFICES ASSUME NEW j \in Tokens, NEW r \in Tokens, Renewable(j)', Renewable(r)',
                      j # r, tokens'[j].login = tokens'[r].login
               PROVE  \E s \in raced' : tokens'[s].login = tokens'[j].login
    BY DEF RotationKeepsOne
  <2>1. j \in Issued /\ r \in Issued
    BY <1>3, <1>4, <1>7 DEF Renewable
  <2>2. Renewable(j) /\ Renewable(r) /\ tokens[j].login = tokens[r].login
    BY <1>7, <2>1 DEF Renewable
  <2>3. PICK s \in raced : tokens[s].login = tokens[j].login
    BY <2>2 DEF RotationKeepsOne
  <2> QED BY <1>5, <1>7, <2>1, <2>3 DEF TokensTyped
<1> QED BY <1>6, <1>8, <1>9, <1>10

LEMMA LoadKeepsTokens ==
  ASSUME TokensInv, NEW b \in Tabs, RefreshLoads(b) PROVE TokensInv'
<1> USE DEF TokensInv
<1> DEFINE t == refresh[b].token
<1>1. /\ refresh[b].pc = "sent" /\ t \in Tokens
      /\ refresh' = [refresh EXCEPT ![b].pc = IF Rotates(t) THEN "loaded" ELSE "answered"]
      /\ raced' = IF Rotates(t) /\ Loaded(t) # {} THEN raced \cup {t} ELSE raced
      /\ UNCHANGED <<users, owner, submit, tokens, store>>
  BY DEF RefreshLoads, codes, TokensTyped
<1>2. /\ refresh' \in [Tabs -> InFlight]
      /\ refresh'[b].token = t
      /\ refresh'[b].pc = IF Rotates(t) THEN "loaded" ELSE "answered"
      /\ \A o \in Tabs \ {b} : refresh'[o] = refresh[o]
  BY <1>1 DEF TokensTyped, InFlight
<1>3. CASE Rotates(t)
  <2>1. t \in Issued /\ ~tokens[t].revoked /\ refresh'[b].pc = "loaded"
    BY <1>1, <1>2, <1>3 DEF Rotates, Active, Issued
  <2>2. Issued' = Issued /\ raced \subseteq raced' /\ raced' \subseteq Issued
    BY <1>1, <2>1 DEF Issued, TokensTyped
  <2>3. TokensTyped'
    BY <1>1, <1>2, <2>2 DEF TokensTyped, Tokens
  <2>4. \A o \in Tabs : refresh'[o].pc = "loaded" => refresh'[o].token \in Issued
    BY <1>2, <2>1 DEF RotatesTheLast
  <2>5. RotatesTheLast'
    <3> SUFFICES ASSUME NEW o \in Tabs, refresh'[o].pc = "loaded",
                        \A s \in raced' : tokens[s].login # tokens[refresh'[o].token].login
                 PROVE  /\ \A j \in Issued :
                             j # refresh'[o].token
                               /\ tokens[j].login = tokens[refresh'[o].token].login =>
                                 tokens[j].revoked
                        /\ \A p \in Tabs :
                             refresh'[p].pc = "loaded"
                               /\ tokens[refresh'[p].token].login
                                    = tokens[refresh'[o].token].login =>
                                 p = o
      BY <1>1, <2>2, <2>4 DEF RotatesTheLast, Raced
    <3>1. \A s \in raced : tokens[s].login # tokens[refresh'[o].token].login
      BY <2>2
    <3>2. \A p \in Tabs \ {b} :
            refresh[p].pc = "loaded" /\ tokens[refresh[p].token].login = tokens[t].login
              /\ ~Raced(tokens[t].login) =>
                refresh[p].token = t
      <4> SUFFICES ASSUME NEW p \in Tabs, refresh[p].pc = "loaded",
                          tokens[refresh[p].token].login = tokens[t].login,
                          ~Raced(tokens[t].login), refresh[p].token # t
                   PROVE  FALSE
        OBVIOUS
      <4>1. ~Raced(tokens[refresh[p].token].login)
        BY DEF Raced
      <4>2. tokens[t].revoked
        BY <2>1, <4>1 DEF RotatesTheLast
      <4> QED BY <2>1, <4>2
    <3>3. CASE tokens[refresh'[o].token].login = tokens[t].login
      <4>1. ~Raced(tokens[t].login) /\ t \notin raced'
        BY <3>1, <3>3 DEF Raced
      <4>2. Loaded(t) = {}
        BY <1>1, <1>3, <4>1
      <4>3. \A p \in Tabs \ {b} :
              ~(refresh[p].pc = "loaded" /\ tokens[refresh[p].token].login = tokens[t].login)
        BY <3>2, <4>1, <4>2 DEF Loaded
      <4>4. o = b
        BY <1>2, <3>3, <4>3
      <4>5. \A j \in Issued : j # t /\ tokens[j].login = tokens[t].login => tokens[j].revoked
        <5> SUFFICES ASSUME NEW j \in Issued, j # t, tokens[j].login = tokens[t].login,
                            ~tokens[j].revoked
                     PROVE  FALSE
          OBVIOUS
        <5>1. j \in Tokens /\ t \in Tokens /\ Renewable(j) /\ Renewable(t)
          BY <2>1 DEF Renewable, Issued
        <5> QED BY <4>1, <5>1 DEF RotationKeepsOne, Raced
      <4> QED BY <1>2, <4>3, <4>4, <4>5
    <3>4. CASE tokens[refresh'[o].token].login # tokens[t].login
      <4>1. o # b /\ refresh'[o] = refresh[o]
        BY <1>2, <3>4
      <4>2. /\ \A j \in Issued :
                 j # refresh[o].token /\ tokens[j].login = tokens[refresh[o].token].login =>
                   tokens[j].revoked
            /\ \A p \in Tabs :
                 refresh[p].pc = "loaded"
                   /\ tokens[refresh[p].token].login = tokens[refresh[o].token].login => p = o
        BY <3>1, <4>1 DEF RotatesTheLast, Raced
      <4>3. \A p \in Tabs :
              refresh'[p].pc = "loaded"
                /\ tokens[refresh'[p].token].login = tokens[refresh'[o].token].login => p = o
        BY <1>2, <3>4, <4>1, <4>2
      <4> QED BY <4>1, <4>2, <4>3
    <3> QED BY <3>3, <3>4
  <2>6. RotationKeepsOne'
    BY <1>1, <2>2 DEF RotationKeepsOne, Renewable
  <2> QED BY <1>1, <2>2, <2>3, <2>5, <2>6 DEF LoginsIssued
<1>4. CASE ~Rotates(t)
  <2>1. refresh'[b].pc = "answered" /\ raced' = raced
    BY <1>1, <1>2, <1>4
  <2>2. \A o \in Tabs : refresh'[o].pc \in {"sent", "loaded"} => refresh'[o] = refresh[o]
    BY <1>2, <2>1
  <2> QED BY <1>1, <1>2, <2>1, <2>2, RevokingKeepsTokens DEF TokensTyped
<1> QED BY <1>3, <1>4

LEMMA CommitKeepsTokens ==
  ASSUME TokensInv, NEW b \in Tabs, RefreshCommits(b) PROVE TokensInv'
<1> USE DEF TokensInv
<1>0. refresh[b].pc = "loaded"
  BY DEF RefreshCommits
<1>1. PICK t \in Issued : t = refresh[b].token
  BY <1>0 DEF RotatesTheLast
<1>2. PICK new \in Tokens :
        /\ new \notin Issued
        /\ tokens' = Rotated(t, new)
        /\ refresh' = [refresh EXCEPT ![b].pc = "answered", ![b].new = new]
  BY <1>1 DEF RefreshCommits, NextToken
<1>3. t \in Tokens /\ t # new /\ UNCHANGED <<users, owner, submit, store, raced>>
  BY <1>2 DEF RefreshCommits, codes, Issued
<1>4. /\ tokens'[new] = [user |-> tokens[t].user, login |-> tokens[t].login,
                         revoked |-> FALSE, expired |-> FALSE]
      /\ tokens'[t].user = tokens[t].user /\ tokens'[t].login = tokens[t].login
      /\ tokens'[t].revoked
      /\ \A j \in Tokens \ {t, new} : tokens'[j] = tokens[j]
      /\ tokens' \in [Tokens -> TokenRow]
  BY <1>2, <1>3 DEF TokensTyped, Rotated, Row, TokenRow
<1>5. Issued' = Issued \cup {new} /\ Issued \subseteq Tokens
  BY <1>3, <1>4 DEF Issued
<1>6. /\ refresh' \in [Tabs -> InFlight] /\ refresh'[b].pc = "answered"
      /\ \A o \in Tabs \ {b} : refresh'[o] = refresh[o]
  BY <1>2 DEF TokensTyped, InFlight
<1>7. TokensTyped'
  BY <1>3, <1>4, <1>5, <1>6 DEF TokensTyped, Tokens
<1>8. \A j \in Issued : tokens'[j].login = tokens[j].login /\ j # new
  BY <1>2, <1>4, <1>5
<1>9. LoginsIssued'
  BY <1>4, <1>5, <1>8 DEF LoginsIssued
<1>10. raced \subseteq Issued
  BY DEF TokensTyped
<1>11. ~Raced(tokens[t].login) =>
         /\ \A j \in Issued : j # t /\ tokens[j].login = tokens[t].login => tokens[j].revoked
         /\ \A o \in Tabs :
              refresh[o].pc = "loaded" /\ tokens[refresh[o].token].login = tokens[t].login =>
                o = b
  BY <1>0, <1>1 DEF RotatesTheLast
<1>12. RotatesTheLast'
  <2> SUFFICES ASSUME NEW o \in Tabs, refresh'[o].pc = "loaded"
               PROVE  /\ refresh'[o].token \in Issued'
                      /\ (\A s \in raced : tokens'[s].login # tokens'[refresh'[o].token].login) =>
                         /\ \A j \in Issued' :
                              j # refresh'[o].token
                                /\ tokens'[j].login = tokens'[refresh'[o].token].login =>
                                  tokens'[j].revoked
                         /\ \A p \in Tabs :
                              refresh'[p].pc = "loaded"
                                /\ tokens'[refresh'[p].token].login
                                     = tokens'[refresh'[o].token].login =>
                                  p = o
    BY <1>3 DEF RotatesTheLast, Raced
  <2>1. o # b /\ refresh'[o] = refresh[o] /\ refresh[o].token \in Issued
    BY <1>6 DEF RotatesTheLast
  <2> SUFFICES ASSUME \A s \in raced : tokens'[s].login # tokens'[refresh'[o].token].login
               PROVE  /\ \A j \in Issued' :
                           j # refresh[o].token
                             /\ tokens'[j].login = tokens'[refresh[o].token].login =>
                               tokens'[j].revoked
                      /\ \A p \in Tabs :
                           refresh'[p].pc = "loaded"
                             /\ tokens'[refresh'[p].token].login
                                  = tokens'[refresh[o].token].login =>
                               p = o
    BY <1>5, <2>1
  <2>2. ~Raced(tokens[refresh[o].token].login)
    BY <1>8, <1>10, <2>1 DEF Raced
  <2>3. /\ \A j \in Issued :
             j # refresh[o].token /\ tokens[j].login = tokens[refresh[o].token].login =>
               tokens[j].revoked
        /\ \A p \in Tabs :
             refresh[p].pc = "loaded"
               /\ tokens[refresh[p].token].login = tokens[refresh[o].token].login => p = o
    BY <2>1, <2>2 DEF RotatesTheLast
  <2>4. tokens[t].login # tokens[refresh[o].token].login
    BY <1>0, <1>1, <2>1, <2>3
  <2>5. \A j \in Issued :
          j # refresh[o].token /\ tokens'[j].login = tokens'[refresh[o].token].login =>
            tokens'[j].revoked
    BY <1>4, <1>5, <1>8, <2>1, <2>3
  <2>6. tokens'[new].login # tokens'[refresh[o].token].login
    BY <1>4, <1>8, <2>1, <2>4
  <2>7. \A p \in Tabs :
          refresh'[p].pc = "loaded"
            /\ tokens'[refresh'[p].token].login = tokens'[refresh[o].token].login => p = o
    <3> SUFFICES ASSUME NEW p \in Tabs, refresh'[p].pc = "loaded",
                        tokens'[refresh'[p].token].login = tokens'[refresh[o].token].login
                 PROVE  p = o
      OBVIOUS
    <3>1. p # b /\ refresh'[p] = refresh[p] /\ refresh[p].token \in Issued
      BY <1>6 DEF RotatesTheLast
    <3> QED BY <1>8, <2>1, <2>3, <3>1
  <2> QED BY <1>5, <2>5, <2>6, <2>7
<1>13. RotationKeepsOne'
  <2> SUFFICES ASSUME NEW j \in Tokens, NEW r \in Tokens, Renewable(j)', Renewable(r)',
                      j # r, tokens'[j].login = tokens'[r].login,
                      \A s \in raced : tokens'[s].login # tokens'[j].login
               PROVE  FALSE
    BY <1>3 DEF RotationKeepsOne
  <2>1. j \in Issued \cup {new} /\ r \in Issued \cup {new} /\ j # t /\ r # t
    BY <1>4, <1>5 DEF Renewable
  <2>2. CASE j # new /\ r # new
    <3>1. Renewable(j) /\ Renewable(r) /\ tokens[j].login = tokens[r].login
      BY <1>4, <2>1, <2>2 DEF Renewable
    <3>2. PICK s \in raced : tokens[s].login = tokens[j].login
      BY <3>1 DEF RotationKeepsOne
    <3> QED BY <1>8, <1>10, <2>1, <2>2, <3>2
  <2>3. CASE j = new \/ r = new
    <3>1. PICK i \in {j, r} : i # new /\ i \in Issued /\ tokens'[i] = tokens[i]
      BY <1>4, <1>5, <2>1, <2>3
    <3>2. tokens[i].login = tokens[t].login /\ ~tokens[i].revoked
      BY <1>4, <2>1, <2>3, <3>1 DEF Renewable
    <3>3. \A s \in raced : tokens[s].login # tokens[t].login
      BY <1>4, <1>8, <1>10, <2>3
    <3> QED BY <1>11, <2>1, <3>1, <3>2, <3>3 DEF Raced
  <2> QED BY <2>2, <2>3
<1> QED BY <1>7, <1>9, <1>12, <1>13

\* The API revokes or expires tokens, and issues none.
LEMMA RevocationKeepsTokens ==
  ASSUME TokensInv,
         DeleteAccount \/ (\E t \in Tokens : RefreshExpires(t))
                       \/ (\E c \in Calls : CallServed(c))
  PROVE  TokensInv'
<1>1. /\ tokens \in [Tokens -> TokenRow] /\ store \in Tokens \cup {0}
      /\ users \in Nat /\ owner \in Nat /\ submit \in [Logins -> SubmitRow]
      /\ refresh \in [Tabs -> InFlight]
      /\ \A b \in Tabs : refresh[b].pc \in {"sent", "loaded"} => refresh[b].token \in Tokens
  BY DEF TokensInv, TokensTyped
<1>2. CASE DeleteAccount
  <2>1. /\ tokens' \in [Tokens -> TokenRow]
        /\ \A t \in Tokens : /\ tokens'[t].user = tokens[t].user
                             /\ tokens'[t].login = tokens[t].login
                             /\ tokens[t].revoked => tokens'[t].revoked
    BY <1>1, <1>2 DEF DeleteAccount, TokenRow
  <2>2. owner' = 0 /\ UNCHANGED <<users, submit, store, refresh, raced>>
    BY <1>2 DEF DeleteAccount, browser, codes
  <2> QED BY <1>1, <2>1, <2>2, RevokingKeepsTokens
<1>3. ASSUME NEW r \in Tokens, RefreshExpires(r) PROVE TokensInv'
  <2>1. tokens' = [tokens EXCEPT ![r].expired = TRUE]
    BY <1>3 DEF RefreshExpires
  <2>2. /\ tokens' \in [Tokens -> TokenRow]
        /\ \A t \in Tokens : /\ tokens'[t].user = tokens[t].user
                             /\ tokens'[t].login = tokens[t].login
                             /\ tokens[t].revoked => tokens'[t].revoked
    BY <1>1, <2>1 DEF TokenRow
  <2>3. UNCHANGED <<users, owner, submit, store, refresh, raced>>
    BY <1>3 DEF RefreshExpires, browser, codes
  <2> QED BY <1>1, <2>2, <2>3, RevokingKeepsTokens
<1>4. ASSUME NEW c \in Calls, CallServed(c) PROVE TokensInv'
  <2> DEFINE gone == {t \in Revokes(c) : Answer(call[c].sent) = 200}
  <2>0. tokens' = [t \in Tokens |-> IF t \in gone THEN [tokens[t] EXCEPT !.revoked = TRUE]
                                                 ELSE tokens[t]]
    <3>1. \A t : t \in gone <=> Answer(call[c].sent) = 200 /\ t \in Revokes(c)
      OBVIOUS
    <3> HIDE DEF gone
    <3> QED BY <1>4, <3>1, Zenon DEF CallServed
  <2> HIDE DEF gone
  <2>1. /\ tokens' \in [Tokens -> TokenRow]
        /\ \A t \in Tokens : /\ tokens'[t].user = tokens[t].user
                             /\ tokens'[t].login = tokens[t].login
                             /\ tokens[t].revoked => tokens'[t].revoked
    BY <1>1, <2>0 DEF TokenRow
  <2>2. UNCHANGED <<users, owner, submit, store, refresh, raced>>
    BY <1>4 DEF CallServed, codes
  <2> QED BY <1>1, <2>1, <2>2, RevokingKeepsTokens
<1> QED BY <1>2, <1>3, <1>4

LEMMA ClientKeepsTokens ==
  ASSUME TokensInv,
         \/ \E b \in Tabs : RefreshLost(b) \/ RefreshSettles(b)
         \/ \E c \in Calls : CallWaits(c) \/ CallEnds(c)
  PROVE  TokensInv'
<1>1. UNCHANGED <<users, owner, submit, tokens, raced>>
  BY DEF RefreshLost, RefreshSettles, CallWaits, CallEnds, codes, rows
<1>2. /\ tokens \in [Tokens -> TokenRow] /\ refresh \in [Tabs -> InFlight]
      /\ users \in Nat /\ owner \in Nat /\ submit \in [Logins -> SubmitRow]
      /\ store \in Tokens \cup {0}
      /\ \A b \in Tabs : refresh[b].pc \in {"sent", "loaded"} => refresh[b].token \in Tokens
  BY DEF TokensInv, TokensTyped
<1>3. store' \in Tokens \cup {0}
  BY <1>2 DEF RefreshLost, RefreshSettles, CallWaits, CallEnds, InFlight
<1>4. /\ refresh' \in [Tabs -> InFlight]
      /\ \A o \in Tabs :
           \/ refresh'[o] = refresh[o]
           \/ refresh'[o].pc \in {"none", "answered"}
           \/ refresh'[o].pc = "sent" /\ refresh'[o].token \in Tokens
  <2>1. ASSUME NEW b \in Tabs, RefreshLost(b)
        PROVE  /\ refresh' \in [Tabs -> InFlight]
               /\ \A o \in Tabs : refresh'[o] = refresh[o] \/ refresh'[o].pc = "answered"
    BY <1>2, <2>1 DEF RefreshLost, InFlight
  <2>2. ASSUME NEW b \in Tabs, RefreshSettles(b)
        PROVE  /\ refresh' \in [Tabs -> InFlight]
               /\ \A o \in Tabs : refresh'[o] = refresh[o] \/ refresh'[o].pc = "none"
    BY <1>2, <2>2 DEF RefreshSettles, InFlight, NoRefresh
  <2>3. ASSUME NEW c \in Calls, CallWaits(c)
        PROVE  /\ refresh' \in [Tabs -> InFlight]
               /\ \A o \in Tabs :
                    \/ refresh'[o] = refresh[o]
                    \/ refresh'[o].pc = "sent" /\ refresh'[o].token \in Tokens
    <3>1. CASE refresh' = refresh
      BY <1>2, <3>1
    <3>2. CASE Starts(c)
      BY <1>2, <2>3, <3>2 DEF Starts, InFlight
    <3> QED BY <2>3, <3>1, <3>2 DEF CallWaits, Joins
  <2>4. ASSUME NEW c \in Calls, CallEnds(c) PROVE refresh' = refresh
    BY <2>4 DEF CallEnds
  <2> QED BY <1>2, <2>1, <2>2, <2>3, <2>4
<1>5. \A o \in Tabs : /\ refresh'[o].pc \in {"sent", "loaded"} => refresh'[o].token \in Tokens
                      /\ refresh'[o].pc = "loaded" => refresh'[o] = refresh[o]
  BY <1>2, <1>4
<1> QED BY <1>1, <1>2, <1>3, <1>4, <1>5, RevokingKeepsTokens

\* An account that staff add owns no token yet.
LEMMA OthersKeepTokens ==
  ASSUME TokensInv, users' \in Nat, owner' \in Nat, submit' \in [Logins -> SubmitRow],
         UNCHANGED <<tokens, store, refresh, raced>>
  PROVE  TokensInv'
<1>1. /\ tokens \in [Tokens -> TokenRow] /\ refresh \in [Tabs -> InFlight]
      /\ store \in Tokens \cup {0}
      /\ \A b \in Tabs : refresh[b].pc \in {"sent", "loaded"} => refresh[b].token \in Tokens
  BY DEF TokensInv, TokensTyped
<1> QED BY <1>1, RevokingKeepsTokens

-----------------------------------------------------------------------------
(***************************************************************************)
(* Every step keeps both.                                                  *)
(***************************************************************************)
AccountsInv == CodesInv /\ TokensInv

LEMMA StepKeepsAccounts ==
  ASSUME AccountsInv, [Next]_vars PROVE AccountsInv'
<1> USE DEF AccountsInv
<1>1. users \in Nat /\ owner \in Nat /\ submit \in [Logins -> SubmitRow]
  BY DEF TokensInv, TokensTyped
<1>2. CASE RequestOtp
  BY <1>1, <1>2, RequestKeepsCodes, OthersKeepTokens DEF RequestOtp, browser, rows
<1>3. CASE AccountIsAdded
  <2>1. /\ users' \in Nat /\ owner' \in Nat
        /\ UNCHANGED <<submit, tokens, store, refresh, raced>> /\ UNCHANGED codes
    BY <1>1, <1>3 DEF AccountIsAdded, browser, codes
  <2> QED BY <1>1, <2>1, OthersKeepCodes, OthersKeepTokens
<1>4. CASE DeleteAccount
  BY <1>4, OthersKeepCodes, RevocationKeepsTokens DEF DeleteAccount
<1>5. ASSUME NEW k \in Challenges, CodeExpires(k) PROVE AccountsInv'
  BY <1>1, <1>5, ExpiryKeepsCodes, OthersKeepTokens DEF CodeExpires, browser, rows
<1>6. ASSUME NEW v \in Logins, Verifying(v) PROVE AccountsInv'
  <2>1. CASE VerifyIssues(v)
    BY <2>1, IssueKeepsCodes, IssueKeepsTokens
  <2>2. CASE ~VerifyIssues(v)
    <3>1. CodesInv'
      BY <1>1, <1>6, <2>2, LoadKeepsCodes, CountKeepsCodes, CompareKeepsCodes,
         ConflictKeepsCodes
      DEF Verifying
    <3>2. UNCHANGED <<users, owner, tokens, store, refresh, raced>>
      BY <1>6, <2>2
      DEF Verifying, VerifyLoads, VerifyCounts, VerifyCompares, VerifyConflicts, browser, rows
    <3> QED BY <1>1, <3>1, <3>2, OthersKeepTokens DEF CodesInv, CodesTyped
  <2> QED BY <2>1, <2>2
<1>7. ASSUME NEW t \in Tokens, AccessExpires(t) PROVE AccountsInv'
  <2>1. UNCHANGED <<users, owner, submit, tokens, store, refresh, raced>> /\ UNCHANGED codes
    BY <1>7 DEF AccessExpires, browser, codes, rows
  <2> QED BY <1>1, <2>1, OthersKeepCodes, OthersKeepTokens
<1>8. ASSUME NEW t \in Tokens, RefreshExpires(t) PROVE AccountsInv'
  BY <1>8, OthersKeepCodes, RevocationKeepsTokens DEF RefreshExpires
<1>9. ASSUME NEW c \in Calls, \/ \E b \in Tabs, kind \in Kinds : CallSends(c, b, kind)
                              \/ CallLost(c)
      PROVE  AccountsInv'
  <2>1. UNCHANGED <<users, owner, submit, tokens, store, refresh, raced>> /\ UNCHANGED codes
    BY <1>9 DEF CallSends, CallLost, codes, rows
  <2> QED BY <1>1, <2>1, OthersKeepCodes, OthersKeepTokens
<1>10. ASSUME NEW c \in Calls, Calling(c) PROVE AccountsInv'
  <2>1. UNCHANGED codes
    BY <1>10 DEF Calling, CallServed, CallWaits, CallEnds
  <2> QED BY <1>10, <2>1, OthersKeepCodes, RevocationKeepsTokens, ClientKeepsTokens
        DEF Calling
<1>11. ASSUME NEW b \in Tabs, Refreshing(b) \/ RefreshLost(b) PROVE AccountsInv'
  <2>1. UNCHANGED codes
    BY <1>11 DEF Refreshing, RefreshLoads, RefreshCommits, RefreshSettles, RefreshLost
  <2> QED BY <1>11, <2>1, OthersKeepCodes, LoadKeepsTokens, CommitKeepsTokens,
             ClientKeepsTokens
        DEF Refreshing
<1>12. CASE UNCHANGED vars
  <2>1. UNCHANGED <<users, owner, submit, tokens, store, refresh, raced>> /\ UNCHANGED codes
    BY <1>12 DEF vars, codes
  <2> QED BY <1>1, <2>1, OthersKeepCodes, OthersKeepTokens
<1> QED
  BY <1>2, <1>3, <1>4, <1>5, <1>6, <1>7, <1>8, <1>9, <1>10, <1>11, <1>12 DEF Next

\* The attempts counted and the threads of tokens are as AccountsInv says in every
\* state that can be reached, however many requests verify a code or renew a token
\* at once, each with what it loaded before the others committed.
THEOREM AccountsInvariant == Spec => []AccountsInv
<1>1. Init => AccountsInv
  BY CodesInitially, TokensInitially DEF AccountsInv
<1>2. AccountsInv /\ [Next]_vars => AccountsInv'
  BY StepKeepsAccounts
<1> QED BY <1>1, <1>2, PTL DEF Spec

\* A code is compared otp_max_attempts times, and once for each attempt that
\* parallel requests wrote over in its row: nothing else loosens the limit.
THEOREM AttemptsBoundedAlways == Spec => []AttemptsBounded
<1>1. AccountsInv => AttemptsBounded
  <2> SUFFICES ASSUME AccountsInv, NEW k \in Challenges
               PROVE  checks[k] <= MaxAttempts + overwritten[k]
    BY DEF AttemptsBounded
  <2>1. /\ checks[k] + Cardinality(Pending(k)) <= challenge[k].attempts + overwritten[k]
        /\ challenge[k].attempts <= MaxAttempts
        /\ checks[k] \in Nat /\ overwritten[k] \in Int /\ challenge[k].attempts \in Nat
    BY DEF AccountsInv, CodesInv, CodesTyped, Counted
  <2> QED BY <2>1, PendingAreCounted, AccountsAssumption
<1> QED BY <1>1, AccountsInvariant, PTL

\* However refreshes, sign-outs and lost answers interleave, one sign-in has at
\* most one token that is not revoked, as long as no two rotations loaded one of
\* its tokens before either revoked it.
THEOREM RotationKeepsOneAlways == Spec => []RotationKeepsOne
<1>1. AccountsInv => RotationKeepsOne
  BY DEF AccountsInv, TokensInv
<1> QED BY <1>1, AccountsInvariant, PTL

-----------------------------------------------------------------------------
(***************************************************************************)
(* The session of the client: as long as its tabs renew it one at a time,  *)
(* it is only forgotten for a reason.                                      *)
(***************************************************************************)
CallRow == [pc : {"idle", "sent", "answered", "waiting"}, tab : Tabs \cup {0},
            kind : {"page", "me", "logout"}, sent : Tokens \cup {0},
            body : Tokens \cup {0}, retried : BOOLEAN, answer : {0, 200, 401, 404}]

\* A token the client has somewhere.
InHand(t) ==
  /\ t # 0
  /\ \/ t = store
     \/ \E b \in Tabs : t \in {refresh[b].token, refresh[b].new}
     \/ \E c \in Calls : t \in {call[c].sent, call[c].body}

\* The ends of a session that SessionSurvives admits, but overlaps.
Excused ==
  \/ lost > 0
  \/ \E c \in Calls : call[c].kind = "logout"
  \/ tokens[store].expired
  \/ ~Active(tokens[store].user)

SessionTyped ==
  /\ call \in [Calls -> CallRow]
  /\ \A c \in Calls : call[c].pc # "idle" => call[c].tab \in Tabs
  /\ lost \in Nat
  /\ stale \subseteq Issued
  /\ owner <= users
  /\ \A v \in Logins : submit[v].found <= users
  /\ \A t \in Issued : tokens[t].user <= users

\* Whatever the client holds is of one account: it signs in when nothing is left
\* of the session before.
OneSession ==
  /\ \A t \in Tokens : InHand(t) => t \in Issued
  /\ \A s, t \in Tokens : InHand(s) /\ InHand(t) => tokens[s].user = tokens[t].user
  /\ submit[Page] # NoSubmit => Quiet

\* What an answer means, and that a replay never meets an expired token.
AnswersMean ==
  \A c \in Calls :
    /\ call[c].pc = "idle" => call[c] = NoCall
    /\ call[c].pc # "idle" => call[c].sent # 0
    /\ call[c].body # 0 => call[c].kind = "logout"
    /\ call[c].answer = 404 =>
         call[c].sent # 0 /\ ~Active(tokens[call[c].sent].user)
    /\ call[c].pc = "answered" /\ call[c].answer = 0 => lost > 0
    /\ call[c].retried => call[c].sent \notin stale /\ call[c].answer # 401

\* A refresh in flight renews the pair of the session, or one that was signed out
\* of meanwhile; the pair it gets is unknown to everyone else.
RenewalOf(b) ==
  /\ refresh[b].pc = "none" => refresh[b].token = 0
  /\ refresh[b].pc # "none" => refresh[b].token # 0 /\ store \in {0, refresh[b].token}
  /\ refresh[b].pc # "answered" => refresh[b].new = 0
  /\ refresh[b].new # 0 =>
       /\ refresh[b].new # refresh[b].token
       /\ refresh[b].new \notin stale
       /\ \A c \in Calls : call[c].body # refresh[b].new
       /\ tokens[refresh[b].new].revoked => ~Active(tokens[refresh[b].new].user)

OneRenews ==
  \A b, o \in Tabs : refresh[b].pc # "none" /\ refresh[o].pc # "none" => b = o

Renewal == OneRenews /\ \A b \in Tabs : RenewalOf(b)

\* The pair of the session is only revoked, and its renewal only refused, for a
\* reason or because the next pair is on its way.
Refusals ==
  store # 0 =>
    /\ tokens[store].revoked => Excused \/ \E b \in Tabs : refresh[b].new # 0
    /\ \A b \in Tabs : refresh[b].pc = "answered" /\ refresh[b].new = 0 => Excused

SessionInv ==
  SessionTyped /\ OneSession /\ AnswersMean /\ Renewal /\ Refusals

LEMMA SessionInitially == Init => SessionInv
<1> SUFFICES ASSUME Init PROVE SessionInv
  OBVIOUS
<1> USE AccountsAssumption DEF Init
<1>1. /\ call = [c \in Calls |-> NoCall] /\ lost = 0 /\ stale = {}
      /\ owner = 0 /\ users = 0 /\ store = 0 /\ submit = [v \in Logins |-> NoSubmit]
      /\ refresh = [b \in Tabs |-> NoRefresh]
      /\ Issued = {}
  BY DEF Issued
<1>2. SessionTyped
  BY <1>1 DEF SessionTyped, CallRow, NoCall, NoSubmit
<1>3. OneSession
  BY <1>1 DEF OneSession, InHand, NoCall, NoRefresh
<1>4. AnswersMean
  BY <1>1 DEF AnswersMean, NoCall
<1>5. Renewal /\ Refusals
  BY <1>1 DEF Renewal, OneRenews, RenewalOf, Refusals, NoRefresh
<1> QED BY <1>2, <1>3, <1>4, <1>5 DEF SessionInv

\* What goes on at the API without an answer to the client: tokens are issued to
\* others, revoked with their account, run out, and accounts come and go.
LEMMA ServerKeepsSession ==
  ASSUME SessionInv, TokensTyped, TokensTyped',
         UNCHANGED <<store, call, refresh>>, lost' = lost,
         submit'[Page] # NoSubmit => submit[Page] # NoSubmit \/ Quiet,
         \A v \in Logins : submit'[v].found <= users',
         Issued \subseteq Issued', stale' \subseteq Issued',
         \A t \in stale' \ stale : ~BeingReplayed(t) /\ t \in Issued,
         \A t \in Issued :
           /\ tokens'[t].user = tokens[t].user
           /\ tokens[t].expired => tokens'[t].expired
           /\ tokens'[t].revoked => tokens[t].revoked \/ ~Active(tokens[t].user)',
         \A t \in Issued' : tokens'[t].user <= users',
         users <= users', owner' <= users',
         owner' \in {0, owner} \/ owner' > users
  PROVE  SessionInv'
<1> USE DEF SessionInv
<1>1. Issued \subseteq Tokens /\ Issued' \subseteq Tokens
  BY DEF Issued
<1>2. \A t \in Issued : ~Active(tokens[t].user) => ~Active(tokens[t].user)'
  BY <1>1 DEF Active, SessionTyped, TokensTyped, TokenRow
<1>3. SessionTyped'
  BY <1>1 DEF SessionTyped
<1>4. \A t \in Tokens : InHand(t)' <=> InHand(t)
  BY DEF InHand
<1>5. OneSession'
  <2>1. Quiet' <=> Quiet
    BY DEF Quiet
  <2> QED BY <1>1, <1>4, <2>1 DEF OneSession
<1>6. \A c \in Calls : call[c].sent \in Tokens \cup {0} /\ (call[c].sent # 0 => call[c].sent \in Issued)
  BY DEF SessionTyped, CallRow, OneSession, InHand
<1>7. AnswersMean'
  <2> SUFFICES ASSUME NEW c \in Calls PROVE
        /\ call[c].pc = "idle" => call[c] = NoCall
        /\ call[c].pc # "idle" => call[c].sent # 0
        /\ call[c].body # 0 => call[c].kind = "logout"
        /\ call[c].answer = 404 =>
             call[c].sent # 0 /\ ~Active(tokens[call[c].sent].user)'
        /\ call[c].pc = "answered" /\ call[c].answer = 0 => lost > 0
        /\ call[c].retried => call[c].sent \notin stale' /\ call[c].answer # 401
    BY DEF AnswersMean
  <2> QED BY <1>1, <1>2, <1>6 DEF AnswersMean, BeingReplayed
<1>8. Renewal'
  <2> SUFFICES ASSUME NEW b \in Tabs PROVE RenewalOf(b)'
    BY DEF Renewal, OneRenews
  <2>1. refresh[b].new # 0 => refresh[b].new \in Issued
    BY DEF OneSession, InHand, TokensTyped, InFlight
  <2>2. refresh[b].new # 0 => refresh[b].new \notin stale'
    BY <2>1 DEF Renewal, RenewalOf, BeingReplayed
  <2>3. refresh[b].new # 0 /\ tokens'[refresh[b].new].revoked =>
          ~Active(tokens[refresh[b].new].user)'
    BY <1>1, <1>2, <2>1 DEF Renewal, RenewalOf
  <2> QED BY <2>1, <2>2, <2>3 DEF Renewal, RenewalOf
<1>9. Refusals'
  <2> SUFFICES ASSUME store # 0 PROVE
        /\ tokens'[store].revoked => Excused' \/ \E b \in Tabs : refresh[b].new # 0
        /\ \A b \in Tabs : refresh[b].pc = "answered" /\ refresh[b].new = 0 => Excused'
    BY DEF Refusals
  <2>1. store \in Issued
    BY DEF OneSession, InHand, TokensTyped
  <2>2. Excused => Excused'
    BY <1>1, <1>2, <2>1 DEF Excused
  <2>3. tokens'[store].revoked => tokens[store].revoked \/ Excused'
    BY <1>1, <2>1 DEF Excused
  <2> QED BY <2>2, <2>3 DEF Refusals
<1> QED BY <1>3, <1>5, <1>7, <1>8, <1>9

\* A new sign-in of the client finds nothing in its hands; one from elsewhere is
\* none of its business.
LEMMA IssueKeepsSession ==
  ASSUME SessionInv, TokensTyped, TokensTyped', NEW v \in Logins, VerifyIssues(v)
  PROVE  SessionInv'
<1> USE DEF SessionInv
<1> DEFINE new == submit[v].found = 0
           u   == IF new THEN users + 1 ELSE submit[v].found
<1>1. PICK t \in Tokens :
        /\ t \notin Issued
        /\ users' = IF new THEN u ELSE users
        /\ owner' = IF new THEN u ELSE owner
        /\ tokens' = [tokens EXCEPT ![t] = Row(u, t)]
        /\ Arrives(v, t)
  BY DEF VerifyIssues, NextToken
<1>2. /\ submit[v].pc = "matched" /\ submit' = [submit EXCEPT ![v] = NoSubmit]
      /\ UNCHANGED <<stale, call, refresh>>
  BY DEF VerifyIssues
<1>3. u \in Nat /\ u # 0 /\ u <= users' /\ users <= users' /\ owner' <= users'
      /\ (owner' = owner \/ owner' > users)
  BY <1>1 DEF SessionTyped, TokensTyped, SubmitRow
<1>4. /\ tokens'[t] = [user |-> u, login |-> t, revoked |-> FALSE, expired |-> FALSE]
      /\ \A j \in Tokens \ {t} : tokens'[j] = tokens[j]
  BY <1>1 DEF TokensTyped, Row
<1>5. Issued' = Issued \cup {t} /\ Issued \subseteq Tokens
  BY <1>3, <1>4 DEF Issued
<1>6. /\ \A j \in Issued : tokens'[j] = tokens[j]
      /\ \A j \in Issued' : tokens'[j].user <= users'
  BY <1>1, <1>3, <1>4, <1>5 DEF SessionTyped, TokensTyped, TokenRow
<1>7. \A x \in Logins : submit'[x].found <= users'
  BY <1>2, <1>3 DEF SessionTyped, TokensTyped, SubmitRow, NoSubmit
<1>8. stale' \subseteq Issued'
  BY <1>2, <1>5 DEF SessionTyped
<1>9. CASE v # Page
  <2>1. store' = store /\ lost' = lost
    BY <1>1, <1>9 DEF Arrives
  <2>2. submit'[Page] = submit[Page]
    BY <1>2, <1>9, AccountsAssumption DEF TokensTyped
  <2> QED BY <1>2, <1>3, <1>5, <1>6, <1>7, <1>8, <2>1, <2>2, ServerKeepsSession
<1>10. CASE v = Page
  <2>1. /\ store = 0
        /\ \A b \in Tabs : /\ refresh[b].pc = "none" /\ refresh[b].token = 0
                           /\ refresh[b].new = 0
        /\ \A c \in Calls : call[c] = NoCall
    BY <1>2, <1>10 DEF OneSession, Quiet, NoSubmit, AnswersMean, Renewal, RenewalOf
  <2>2. store' \in {0, t} /\ lost' \in Nat
    BY <1>1, <1>10, <2>1 DEF Arrives, SessionTyped
  <2>3. SessionTyped'
    BY <1>2, <1>3, <1>6, <1>7, <1>8, <2>2 DEF SessionTyped
  <2>4. OneSession'
    <3>1. \A j \in Tokens : InHand(j)' => j = t
      BY <1>2, <2>1, <2>2 DEF InHand, NoCall
    <3>2. submit'[Page] = NoSubmit
      BY <1>2, <1>10 DEF TokensTyped
    <3> QED BY <1>5, <3>1, <3>2 DEF OneSession
  <2>5. AnswersMean'
    BY <1>2, <2>1 DEF AnswersMean, NoCall
  <2>6. Renewal' /\ Refusals'
    BY <1>2, <1>4, <2>1, <2>2 DEF Renewal, OneRenews, RenewalOf, Refusals
  <2> QED BY <2>3, <2>4, <2>5, <2>6
<1> QED BY <1>9, <1>10

-----------------------------------------------------------------------------
\* The steps of the client and the answers it gets.  None of them, but the
\* rotation, puts a token into its hands that it did not have.
LEMMA OneSessionKept ==
  ASSUME OneSession, TokensTyped, Issued \subseteq Issued', submit' = submit,
         \A t \in Issued : tokens'[t].user = tokens[t].user,
         \A t \in Tokens : InHand(t)' => InHand(t),
         Quiet => Quiet'
  PROVE  OneSession'
<1>1. \A t \in Tokens : InHand(t)' => t \in Issued /\ tokens'[t].user = tokens[t].user
  BY DEF OneSession
<1> QED BY <1>1 DEF OneSession

\* What a tab writes into a row of its calls.
SentRow(b, kind, s, body) ==
  [NoCall EXCEPT !.pc = "sent", !.tab = b, !.kind = kind, !.sent = s, !.body = body]

LEMMA CallRowSent ==
  ASSUME NEW b \in Tabs, NEW kind \in {"page", "me", "logout"},
         NEW s \in Tokens \cup {0}, NEW body \in Tokens \cup {0}
  PROVE  /\ SentRow(b, kind, s, body) \in CallRow
         /\ SentRow(b, kind, s, body).pc = "sent" /\ SentRow(b, kind, s, body).tab = b
         /\ SentRow(b, kind, s, body).kind = kind
         /\ SentRow(b, kind, s, body).sent = s /\ SentRow(b, kind, s, body).body = body
         /\ ~SentRow(b, kind, s, body).retried /\ SentRow(b, kind, s, body).answer = 0
<1>1. NoCall \in CallRow /\ NoCall.retried = FALSE /\ NoCall.answer = 0
  BY DEF NoCall, CallRow
<1>2. SentRow(b, kind, s, body) \in CallRow
  <2> DEFINE r1 == [NoCall EXCEPT !.pc = "sent"]
             r2 == [r1 EXCEPT !.tab = b]
             r3 == [r2 EXCEPT !.kind = kind]
             r4 == [r3 EXCEPT !.sent = s]
  <2>1. r1 \in CallRow
    BY <1>1 DEF CallRow
  <2> HIDE DEF r1
  <2>2. r2 \in CallRow
    BY <2>1 DEF CallRow
  <2> HIDE DEF r2
  <2>3. r3 \in CallRow
    BY <2>2 DEF CallRow
  <2> HIDE DEF r3
  <2>4. r4 \in CallRow
    BY <2>3 DEF CallRow
  <2> HIDE DEF r4
  <2>5. [r4 EXCEPT !.body = body] \in CallRow
    BY <2>4 DEF CallRow
  <2> QED BY <2>5 DEF r1, r2, r3, r4, SentRow
<1> DEFINE e == SentRow(b, kind, s, body)
<1>3. /\ e.pc = "sent" /\ e.tab = b /\ e.kind = kind /\ e.sent = s /\ e.body = body
      /\ e.retried = NoCall.retried /\ e.answer = NoCall.answer
  BY <1>1 DEF CallRow, SentRow
<1> QED BY <1>1, <1>2, <1>3

AnsweredRows(calls, c, a) == [calls EXCEPT ![c].pc = "answered", ![c].answer = a]

LEMMA CallRowAnswered ==
  ASSUME NEW calls \in [Calls -> CallRow], NEW c \in Calls,
         NEW a \in {0, 200, 401, 404}
  PROVE  AnsweredRows(calls, c, a) \in [Calls -> CallRow]
<1> DEFINE half == [calls EXCEPT ![c].pc = "answered"]
           hc   == half[c]
<1>1. half \in [Calls -> CallRow]
  BY DEF CallRow
<1> HIDE DEF half
<1>2. hc \in CallRow
  BY <1>1
<1> HIDE DEF hc
<1>3. [hc EXCEPT !.answer = a] \in CallRow
  BY <1>2 DEF CallRow
<1>4. [half EXCEPT ![c] = [hc EXCEPT !.answer = a]] \in [Calls -> CallRow]
  BY <1>1, <1>3
<1>5. [half EXCEPT ![c].answer = a] \in [Calls -> CallRow]
  BY <1>4 DEF hc
<1> QED BY <1>5 DEF half, AnsweredRows

LEMMA SendKeepsSession ==
  ASSUME SessionInv, TokensTyped, NEW c \in Calls, NEW b \in Tabs, NEW kind \in Kinds,
         CallSends(c, b, kind)
  PROVE  SessionInv'
<1> USE DEF SessionInv
<1> DEFINE body == IF kind = "logout" THEN store ELSE 0
           e    == SentRow(b, kind, store, body)
<1>1. /\ call[c] = NoCall /\ store # 0
      /\ call' = [call EXCEPT ![c] = e]
      /\ UNCHANGED <<submit, users, owner, tokens, stale, store, refresh>>
      /\ lost' = lost
  BY DEF CallSends, codes, rows, SentRow
<1>2. Issued' = Issued
  BY <1>1 DEF Issued
<1>3. /\ e \in CallRow
      /\ e.pc = "sent" /\ e.tab = b /\ e.kind = kind /\ e.sent = store /\ e.body = body
      /\ ~e.retried /\ e.answer = 0
  <2>1. kind \in {"page", "me", "logout"}
    BY AccountsAssumption
  <2>2. store \in Tokens \cup {0} /\ body \in Tokens \cup {0}
    BY DEF TokensTyped
  <2> HIDE DEF body
  <2> QED BY <2>1, <2>2, CallRowSent
<1>4. body \in {0, store} /\ (body # 0 => kind = "logout")
  OBVIOUS
<1> HIDE DEF e, body
<1>5. /\ call'[c].pc = "sent" /\ call'[c].tab = b /\ call'[c].kind = kind
      /\ call'[c].sent = store
      /\ call'[c].body \in {0, store} /\ ~call'[c].retried /\ call'[c].answer = 0
      /\ call'[c].body # 0 => kind = "logout"
      /\ \A d \in Calls \ {c} : call'[d] = call[d]
      /\ call' \in [Calls -> CallRow]
  BY <1>1, <1>3, <1>4 DEF SessionTyped
<1>6. SessionTyped'
  BY <1>1, <1>2, <1>5 DEF SessionTyped
<1>7. OneSession'
  <2>1. \A t \in Tokens : InHand(t)' => InHand(t)
    BY <1>1, <1>5 DEF InHand
  <2>2. ~Quiet
    BY <1>1 DEF Quiet
  <2> QED BY <1>1, <1>2, <2>1, <2>2, OneSessionKept
<1>8. AnswersMean'
  BY <1>1, <1>5 DEF AnswersMean, Active
<1>9. Renewal'
  <2> SUFFICES ASSUME NEW o \in Tabs PROVE RenewalOf(o)'
    BY <1>1 DEF Renewal, OneRenews
  <2>1. refresh[o].new # 0 => refresh[o].new # store
    BY <1>1 DEF Renewal, RenewalOf
  <2> QED BY <1>1, <1>5, <2>1 DEF Renewal, RenewalOf, Active
<1>10. Refusals'
  <2>1. Excused => Excused'
    BY <1>1, <1>5 DEF Excused, Active, NoCall
  <2> QED BY <1>1, <2>1 DEF Refusals
<1> QED BY <1>6, <1>7, <1>8, <1>9, <1>10

\* The calls that get an answer or none: their tokens stay, and only a sign-out
\* revokes anything.
LEMMA AnswerKeepsSession ==
  ASSUME SessionInv, TokensTyped, TokensTyped', NEW c \in Calls, NEW answer,
         call[c].pc # "idle",
         call' = AnsweredRows(call, c, answer),
         answer \in {0, 200, 401, 404},
         answer = 0 => lost' > 0,
         answer = 404 => ~Active(tokens[call[c].sent].user),
         answer = 401 => call[c].sent \in stale,
         \A t \in Tokens :
           /\ tokens'[t].user = tokens[t].user
           /\ tokens'[t].expired = tokens[t].expired
           /\ tokens'[t].revoked =>
                tokens[t].revoked \/ (call[c].kind = "logout" /\ t = call[c].body),
         lost <= lost', lost' \in Nat,
         UNCHANGED <<submit, users, owner, stale, store, refresh>>
  PROVE  SessionInv'
<1> USE DEF SessionInv
<1>1. Issued' = Issued /\ Issued \subseteq Tokens
  BY DEF Issued
<1>2. \A t \in Tokens : Active(tokens[t].user)' <=> Active(tokens[t].user)
  BY DEF Active
<1>3. /\ \A d \in Calls : /\ call'[d].kind = call[d].kind
                          /\ call'[d].tab = call[d].tab
                          /\ call'[d].sent = call[d].sent
                          /\ call'[d].body = call[d].body
                          /\ call'[d].retried = call[d].retried
      /\ \A d \in Calls \ {c} : call'[d] = call[d]
      /\ call'[c].pc = "answered" /\ call'[c].answer = answer
      /\ call' \in [Calls -> CallRow]
  <2> DEFINE half == [call EXCEPT ![c].pc = "answered"]
  <2>1. /\ half \in [Calls -> CallRow]
        /\ \A d \in Calls : /\ half[d].kind = call[d].kind
                            /\ half[d].tab = call[d].tab
                            /\ half[d].sent = call[d].sent
                            /\ half[d].body = call[d].body
                            /\ half[d].retried = call[d].retried
        /\ \A d \in Calls \ {c} : half[d] = call[d]
        /\ half[c].pc = "answered"
    BY DEF SessionTyped, CallRow
  <2>2. call' = [half EXCEPT ![c].answer = answer]
    BY DEF AnsweredRows
  <2> HIDE DEF half
  <2>3. call' \in [Calls -> CallRow]
    BY CallRowAnswered DEF SessionTyped
  <2>4. call'[c].pc = "answered" /\ call'[c].answer = answer
    BY <2>1, <2>2 DEF CallRow
  <2>5. \A d \in Calls \ {c} : call'[d] = call[d]
    BY <2>1, <2>2
  <2>6. /\ call'[c].kind = call[c].kind /\ call'[c].sent = call[c].sent
        /\ call'[c].tab = call[c].tab
        /\ call'[c].body = call[c].body /\ call'[c].retried = call[c].retried
    BY <2>1, <2>2 DEF CallRow
  <2> QED BY <2>3, <2>4, <2>5, <2>6
<1>4. SessionTyped'
  BY <1>1, <1>3 DEF SessionTyped
<1>5. OneSession'
  <2>1. \A t \in Tokens : InHand(t)' => InHand(t)
    BY <1>3 DEF InHand
  <2>2. ~Quiet
    BY DEF Quiet
  <2> QED BY <1>1, <2>1, <2>2, OneSessionKept
<1>6. AnswersMean'
  <2> SUFFICES ASSUME NEW d \in Calls PROVE
        /\ call'[d].pc = "idle" => call'[d] = NoCall
        /\ call'[d].pc # "idle" => call'[d].sent # 0
        /\ call'[d].body # 0 => call'[d].kind = "logout"
        /\ call'[d].answer = 404 =>
             call'[d].sent # 0 /\ ~Active(tokens[call[d].sent].user)'
        /\ call'[d].pc = "answered" /\ call'[d].answer = 0 => lost' > 0
        /\ call'[d].retried => call'[d].sent \notin stale' /\ call'[d].answer # 401
    BY <1>3 DEF AnswersMean
  <2>1. call[d].sent # 0 => call[d].sent \in Tokens
    BY DEF SessionTyped, CallRow
  <2>2. CASE d = c
    BY <1>2, <1>3, <2>1, <2>2 DEF AnswersMean
  <2>3. CASE d # c
    <3>1. call'[d] = call[d]
      BY <1>3, <2>3
    <3>2. call[d].pc = "answered" /\ call[d].answer = 0 => lost' > 0
      BY DEF AnswersMean, SessionTyped
    <3> QED BY <1>2, <2>1, <3>1, <3>2 DEF AnswersMean
  <2> QED BY <2>2, <2>3
<1>7. Renewal'
  <2> SUFFICES ASSUME NEW b \in Tabs PROVE RenewalOf(b)'
    BY DEF Renewal, OneRenews
  <2>1. refresh[b].new # 0 => refresh[b].new \in Tokens /\ refresh[b].new # call[c].body
    BY DEF TokensTyped, InFlight, Renewal, RenewalOf
  <2>2. refresh[b].new # 0 /\ tokens'[refresh[b].new].revoked =>
          ~Active(tokens[refresh[b].new].user)'
    BY <1>2, <2>1 DEF Renewal, RenewalOf
  <2> QED BY <1>3, <2>2 DEF Renewal, RenewalOf
<1>8. Refusals'
  <2> SUFFICES ASSUME store # 0 PROVE
        /\ tokens'[store].revoked => Excused' \/ \E b \in Tabs : refresh[b].new # 0
        /\ \A b \in Tabs : refresh[b].pc = "answered" /\ refresh[b].new = 0 => Excused'
    BY DEF Refusals
  <2>1. store \in Tokens
    BY DEF TokensTyped
  <2>2. Excused => Excused'
    BY <1>2, <1>3, <2>1 DEF Excused, SessionTyped
  <2>3. tokens'[store].revoked => tokens[store].revoked \/ Excused'
    BY <1>3, <2>1 DEF Excused
  <2> QED BY <2>2, <2>3 DEF Refusals
<1> QED BY <1>4, <1>5, <1>6, <1>7, <1>8

\* What the API does on its own leaves the client as it is.
LEMMA ServerStepsKeepSession ==
  ASSUME SessionInv, TokensTyped, TokensTyped',
         \/ RequestOtp \/ AccountIsAdded \/ DeleteAccount
         \/ \E k \in Challenges : CodeExpires(k)
         \/ \E v \in Logins : Verifying(v) /\ ~VerifyIssues(v)
         \/ \E t \in Tokens : AccessExpires(t) \/ RefreshExpires(t)
  PROVE  SessionInv'
<1>1. /\ users \in Nat /\ owner \in Nat /\ submit \in [Logins -> SubmitRow]
      /\ owner <= users /\ \A v \in Logins : submit[v].found <= users
      /\ stale \subseteq Issued
      /\ \A t \in Issued : tokens[t].user <= users /\ t \in Tokens
  BY DEF SessionInv, SessionTyped, TokensTyped, Issued
<1>2. CASE RequestOtp \/ \E k \in Challenges : CodeExpires(k)
  <2>1. /\ UNCHANGED <<submit, users, owner, tokens, stale, store, call, refresh>>
        /\ lost' = lost /\ Issued' = Issued
    BY <1>2 DEF RequestOtp, CodeExpires, browser, rows, Issued
  <2> QED BY <1>1, <2>1, ServerKeepsSession
<1>3. ASSUME NEW v \in Logins, Verifying(v), ~VerifyIssues(v) PROVE SessionInv'
  <2>1. /\ UNCHANGED <<users, owner, tokens, stale, store, call, refresh>>
        /\ lost' = lost /\ Issued' = Issued
    BY <1>3 DEF Verifying, VerifyLoads, VerifyCounts, VerifyConflicts, VerifyCompares, browser,
       rows, Issued
  <2>2. submit'[Page] # NoSubmit => submit[Page] # NoSubmit \/ Quiet
    <3>1. CASE v # Page
      <4>1. submit'[Page] = submit[Page]
        BY <1>1, <1>3, <3>1, AccountsAssumption
        DEF Verifying, VerifyLoads, VerifyCounts, VerifyConflicts, VerifyCompares
      <4> QED BY <4>1
    <3>2. CASE v = Page
      <4>1. VerifyLoads(v) => Quiet
        BY <3>2 DEF VerifyLoads
      <4>2. ~VerifyLoads(v) => submit[v].pc # "idle"
        BY <1>3 DEF Verifying, VerifyCounts, VerifyConflicts, VerifyCompares
      <4> QED BY <3>2, <4>1, <4>2 DEF NoSubmit
    <3> QED BY <3>1, <3>2
  <2>3. \A w \in Logins : submit'[w].found <= users'
    <3>1. CASE VerifyLoads(v)
      BY <1>1, <2>1, <3>1 DEF VerifyLoads
    <3>2. CASE VerifyCounts(v)
      BY <1>1, <2>1, <3>2 DEF VerifyCounts, SubmitRow
    <3>3. CASE VerifyConflicts(v)
      BY <1>1, <2>1, <3>3 DEF VerifyConflicts, NoSubmit
    <3>4. ASSUME NEW right \in BOOLEAN, VerifyCompares(v, right)
          PROVE  \A w \in Logins : submit'[w].found <= users'
      <4>1. CASE right
        BY <1>1, <2>1, <3>4, <4>1 DEF VerifyCompares, SubmitRow
      <4>2. CASE ~right
        BY <1>1, <2>1, <3>4, <4>2 DEF VerifyCompares, NoSubmit
      <4> QED BY <4>1, <4>2
    <3> QED BY <1>3, <3>1, <3>2, <3>3, <3>4 DEF Verifying
  <2> QED BY <1>1, <2>1, <2>2, <2>3, ServerKeepsSession
<1>4. CASE AccountIsAdded
  <2>1. /\ users' = users + 1 /\ owner' = users + 1
        /\ UNCHANGED <<submit, tokens, stale, store, call, refresh>>
        /\ lost' = lost /\ Issued' = Issued
    BY <1>4 DEF AccountIsAdded, browser, codes, Issued
  <2>2. \A t \in Issued : tokens'[t].user <= users'
    BY <1>1, <2>1 DEF TokensTyped, TokenRow
  <2>3. \A v \in Logins : submit'[v].found <= users'
    BY <1>1, <2>1 DEF SubmitRow
  <2> QED BY <1>1, <2>1, <2>2, <2>3, ServerKeepsSession
<1>5. CASE DeleteAccount
  <2>1. /\ owner' = 0 /\ owner # 0
        /\ UNCHANGED <<submit, users, stale, store, call, refresh>> /\ lost' = lost
    BY <1>5 DEF DeleteAccount, browser, codes
  <2>2. \A t \in Tokens :
          /\ tokens'[t].user = tokens[t].user
          /\ tokens'[t].expired = tokens[t].expired
          /\ tokens'[t].revoked => tokens[t].revoked \/ tokens[t].user = owner
    BY <1>5 DEF DeleteAccount, TokensTyped, TokenRow
  <2>3. Issued' = Issued
    BY <2>2 DEF Issued
  <2>4. \A t \in Tokens : ~Active(tokens[t].user)'
    BY <2>1 DEF Active
  <2> QED BY <1>1, <2>1, <2>2, <2>3, <2>4, ServerKeepsSession
<1>6. ASSUME NEW t \in Tokens, AccessExpires(t) PROVE SessionInv'
  <2>1. /\ t \in Issued /\ ~BeingReplayed(t) /\ stale' = stale \cup {t}
        /\ UNCHANGED <<submit, users, owner, tokens, store, call, refresh>>
        /\ lost' = lost /\ Issued' = Issued
    BY <1>6 DEF AccessExpires, Fresh, browser, codes, rows, Issued
  <2> QED BY <1>1, <2>1, ServerKeepsSession
<1>7. ASSUME NEW t \in Tokens, RefreshExpires(t) PROVE SessionInv'
  <2>1. /\ tokens' = [tokens EXCEPT ![t].expired = TRUE]
        /\ UNCHANGED <<submit, users, owner, stale, store, call, refresh>> /\ lost' = lost
    BY <1>7 DEF RefreshExpires, browser, codes
  <2>2. \A j \in Tokens :
          /\ tokens'[j].user = tokens[j].user
          /\ tokens[j].expired => tokens'[j].expired
          /\ tokens'[j].revoked = tokens[j].revoked
    BY <2>1 DEF TokensTyped, TokenRow
  <2>3. Issued' = Issued
    BY <2>2 DEF Issued
  <2> QED BY <1>1, <2>1, <2>2, <2>3, ServerKeepsSession
<1> QED BY <1>2, <1>3, <1>4, <1>5, <1>6, <1>7

LEMMA AnsweringKeepsSession ==
  ASSUME SessionInv, TokensTyped, TokensTyped', NEW c \in Calls,
         CallServed(c) \/ CallLost(c)
  PROVE  SessionInv'
<1>1. call[c].pc # "idle" /\ UNCHANGED <<submit, users, owner, stale, store, refresh>>
  BY DEF CallServed, CallLost, codes, rows
<1>2. lost \in Nat
  BY DEF SessionInv, SessionTyped
<1>3. CASE CallServed(c)
  <2> DEFINE answer == Answer(call[c].sent)
             gone   == {t \in Revokes(c) : answer = 200}
  <2>1. call' = AnsweredRows(call, c, answer) /\ lost' = lost
    BY <1>3 DEF CallServed, AnsweredRows
  <2>2. call[c].sent \in Issued /\ call[c].sent # 0
    BY <1>1 DEF SessionInv, AnswersMean, SessionTyped, CallRow, OneSession, InHand
  <2>3. /\ answer \in {200, 401, 404}
        /\ answer = 401 => call[c].sent \in stale
        /\ answer = 404 => ~Active(tokens[call[c].sent].user)
    BY <2>2 DEF Answer
  <2> HIDE DEF answer
  <2>4. tokens' = [t \in Tokens |-> IF t \in gone THEN [tokens[t] EXCEPT !.revoked = TRUE]
                                                 ELSE tokens[t]]
    <3>1. \A t : t \in gone <=> answer = 200 /\ t \in Revokes(c)
      OBVIOUS
    <3> HIDE DEF gone
    <3> QED BY <1>3, <3>1, Zenon DEF CallServed, answer
  <2>5. \A t \in gone : t = call[c].body /\ t # 0
    BY DEF Revokes
  <2>6. call[c].body # 0 => call[c].kind = "logout"
    BY DEF SessionInv, AnswersMean
  <2> HIDE DEF gone
  <2>7. \A t \in Tokens :
          /\ tokens'[t].user = tokens[t].user
          /\ tokens'[t].expired = tokens[t].expired
          /\ tokens'[t].revoked =>
               tokens[t].revoked \/ (call[c].kind = "logout" /\ t = call[c].body)
    <3>1. ASSUME NEW t \in Tokens, t \in gone
          PROVE  /\ tokens'[t].user = tokens[t].user
                 /\ tokens'[t].expired = tokens[t].expired
                 /\ call[c].kind = "logout" /\ t = call[c].body
      BY <2>4, <2>5, <2>6, <3>1 DEF TokensTyped, TokenRow
    <3>2. ASSUME NEW t \in Tokens, t \notin gone PROVE tokens'[t] = tokens[t]
      BY <2>4, <3>2
    <3> QED BY <3>1, <3>2
  <2> QED BY <1>1, <1>2, <2>1, <2>3, <2>7, AnswerKeepsSession
<1>4. CASE CallLost(c)
  <2>1. call' = AnsweredRows(call, c, 0) /\ lost' = lost + 1 /\ tokens' = tokens
    <3>1. call' = AnsweredRows(call, c, 0)
      BY <1>4, Zenon DEF CallLost, AnsweredRows
    <3> QED BY <1>4, <3>1 DEF CallLost, rows
  <2>2. lost' > 0 /\ lost <= lost' /\ lost' \in Nat
    BY <1>2, <2>1
  <2>3. \A t \in Tokens :
          /\ tokens'[t].user = tokens[t].user
          /\ tokens'[t].expired = tokens[t].expired
          /\ tokens'[t].revoked =>
               tokens[t].revoked \/ (call[c].kind = "logout" /\ t = call[c].body)
    BY <2>1
  <2> DEFINE answer == 0
  <2>4. /\ answer \in {0, 200, 401, 404} /\ answer # 401 /\ answer # 404
        /\ call' = AnsweredRows(call, c, answer)
    BY <2>1
  <2> HIDE DEF answer
  <2> QED BY <1>1, <2>2, <2>3, <2>4, AnswerKeepsSession
<1> QED BY <1>3, <1>4

\* A refresh that starts beside none is the only one in flight.
LEMMA WaitKeepsSession ==
  ASSUME SessionInv, TokensTyped, TokensTyped', NEW c \in Calls, CallWaits(c), ~overlap'
  PROVE  SessionInv'
<1> USE DEF SessionInv
<1> DEFINE b == call[c].tab
<1>1. /\ call[c].pc = "answered"
      /\ call' = [call EXCEPT ![c].pc = "waiting"]
      /\ UNCHANGED <<submit, users, owner, tokens, stale, store>> /\ lost' = lost
      /\ Joins(c) \/ Starts(c)
  BY DEF CallWaits, Refused, codes, rows
<1>2. /\ call' \in [Calls -> CallRow]
      /\ call'[c].pc = "waiting"
      /\ \A d \in Calls : /\ call'[d].kind = call[d].kind
                          /\ call'[d].tab = call[d].tab
                          /\ call'[d].sent = call[d].sent
                          /\ call'[d].body = call[d].body
                          /\ call'[d].answer = call[d].answer
                          /\ call'[d].retried = call[d].retried
      /\ \A d \in Calls \ {c} : call'[d] = call[d]
  BY <1>1 DEF SessionTyped, CallRow
<1>3. b \in Tabs
  BY <1>1 DEF SessionTyped
<1>4. \/ refresh' = refresh /\ refresh[b].pc # "none"
      \/ /\ store # 0 /\ store \in Tokens
         /\ \A o \in Tabs : refresh[o].pc = "none"
         /\ refresh'[b] = [pc |-> "sent", token |-> store, new |-> 0]
         /\ \A o \in Tabs \ {b} : refresh'[o] = refresh[o]
  <2>1. CASE Joins(c)
    BY <2>1 DEF Joins, SingleFlight
  <2>2. CASE Starts(c)
    <3>1. /\ refresh[b].pc = "none" /\ store # 0
          /\ refresh' = [refresh EXCEPT ![b] = [pc |-> "sent", token |-> store, new |-> 0]]
          /\ ~\E o \in Tabs \ {b} : refresh[o].pc # "none"
      BY <2>2 DEF Starts, SingleFlight
    <3> QED BY <1>3, <3>1 DEF TokensTyped
  <2> QED BY <1>1, <2>1, <2>2
<1> HIDE DEF b
<1>5. Issued' = Issued
  BY <1>1 DEF Issued
<1>6. SessionTyped'
  BY <1>1, <1>2, <1>5 DEF SessionTyped
<1>7. OneSession'
  <2>1. \A t \in Tokens : InHand(t)' => InHand(t)
    <3>1. \A o \in Tabs : \/ refresh'[o] = refresh[o]
                          \/ refresh'[o].token = store /\ refresh'[o].new = 0
      BY <1>4
    <3> QED BY <1>1, <1>2, <3>1 DEF InHand
  <2>2. ~Quiet
    BY <1>1 DEF Quiet
  <2> QED BY <1>1, <1>5, <2>1, <2>2, OneSessionKept
<1>8. AnswersMean'
  <2> SUFFICES ASSUME NEW d \in Calls PROVE
        /\ call'[d].pc = "idle" => call'[d] = NoCall
        /\ call'[d].pc # "idle" => call'[d].sent # 0
        /\ call'[d].body # 0 => call'[d].kind = "logout"
        /\ call'[d].answer = 404 => call'[d].sent # 0 /\ ~Active(tokens[call[d].sent].user)
        /\ call'[d].pc = "answered" /\ call'[d].answer = 0 => lost > 0
        /\ call'[d].retried => call'[d].sent \notin stale /\ call'[d].answer # 401
    BY <1>1, <1>2 DEF AnswersMean, Active
  <2>1. CASE d = c
    BY <1>1, <1>2, <2>1 DEF AnswersMean
  <2>2. CASE d # c
    BY <1>1, <1>2, <2>2 DEF AnswersMean
  <2> QED BY <2>1, <2>2
<1>9. Renewal'
  <2>1. OneRenews'
    BY <1>4 DEF Renewal, OneRenews
  <2>2. ASSUME NEW o \in Tabs PROVE RenewalOf(o)'
    <3>1. CASE refresh'[o] = refresh[o]
      BY <1>1, <1>2, <3>1 DEF Renewal, RenewalOf, Active
    <3>2. CASE refresh'[o] # refresh[o]
      <4>1. refresh'[o] = [pc |-> "sent", token |-> store, new |-> 0] /\ store # 0
        BY <1>4, <3>2
      <4> QED BY <1>1, <4>1 DEF RenewalOf
    <3> QED BY <3>1, <3>2
  <2> QED BY <2>1, <2>2 DEF Renewal
<1>10. Refusals'
  <2>1. Excused => Excused'
    BY <1>1, <1>2 DEF Excused, Active
  <2>2. \A o \in Tabs : refresh[o].pc = "none" => refresh[o].new = 0
    BY DEF Renewal, RenewalOf
  <2>3. \/ refresh' = refresh
        \/ /\ \A o \in Tabs : refresh[o].new = 0
           /\ \A o \in Tabs : refresh'[o].pc # "answered"
    BY <1>4, <2>2
  <2> QED BY <1>1, <2>1, <2>3 DEF Refusals
<1> QED BY <1>6, <1>7, <1>8, <1>9, <1>10

LEMMA EndKeepsSession ==
  ASSUME SessionInv, TokensTyped, NEW c \in Calls, CallEnds(c)
  PROVE  SessionInv'
<1> USE DEF SessionInv
<1>1. /\ call[c].pc = "answered"
      /\ call' = [call EXCEPT ![c] = NoCall]
      /\ store' = IF Clears(c) THEN 0 ELSE store
      /\ UNCHANGED <<submit, users, owner, tokens, stale, refresh>> /\ lost' = lost
  BY DEF CallEnds, codes, rows
<1>2. /\ call' \in [Calls -> CallRow]
      /\ call'[c] = NoCall
      /\ \A d \in Calls \ {c} : call'[d] = call[d]
  <2>1. NoCall \in CallRow
    BY DEF NoCall, CallRow
  <2> QED BY <1>1, <2>1 DEF SessionTyped
<1>3. Issued' = Issued
  BY <1>1 DEF Issued
<1>4. SessionTyped'
  BY <1>1, <1>2, <1>3 DEF SessionTyped, NoCall
<1>5. OneSession'
  <2>1. NoCall.sent = 0 /\ NoCall.body = 0
    BY DEF NoCall
  <2>2. \A t \in Tokens : InHand(t)' => InHand(t)
    BY <1>1, <1>2, <2>1 DEF InHand
  <2>3. ~Quiet
    BY <1>1 DEF Quiet
  <2> QED BY <1>1, <1>3, <2>2, <2>3, OneSessionKept
<1>6. AnswersMean'
  BY <1>1, <1>2 DEF AnswersMean, NoCall, Active
<1>7. Renewal'
  <2> SUFFICES ASSUME NEW o \in Tabs PROVE RenewalOf(o)'
    BY <1>1 DEF Renewal, OneRenews
  <2> QED BY <1>1, <1>2 DEF Renewal, RenewalOf, NoCall, Active
<1>8. Refusals'
  <2> SUFFICES ASSUME store' # 0 PROVE
        /\ tokens[store].revoked => Excused' \/ \E b \in Tabs : refresh[b].new # 0
        /\ \A b \in Tabs : refresh[b].pc = "answered" /\ refresh[b].new = 0 => Excused'
    BY <1>1 DEF Refusals
  <2>1. store' = store /\ store # 0 /\ call[c].kind # "logout"
    BY <1>1 DEF Clears
  <2>2. Excused => Excused'
    BY <1>1, <1>2, <2>1 DEF Excused, Active
  <2> QED BY <2>1, <2>2 DEF Refusals
<1> QED BY <1>4, <1>5, <1>6, <1>7, <1>8

\* What a refresh in flight may change without a word to the client.
LEMMA LoadKeepsSession ==
  ASSUME SessionInv, TokensTyped, NEW b \in Tabs, RefreshLoads(b)
  PROVE  SessionInv'
<1> USE DEF SessionInv
<1> DEFINE r == refresh[b].token
<1>1. /\ refresh[b].pc = "sent"
      /\ refresh' = [refresh EXCEPT ![b].pc = IF Rotates(r) THEN "loaded" ELSE "answered"]
      /\ UNCHANGED <<submit, users, owner, tokens, stale, store, call>> /\ lost' = lost
  BY DEF RefreshLoads, codes
<1>2. /\ refresh'[b].token = r /\ refresh'[b].new = refresh[b].new
      /\ refresh'[b].pc = IF Rotates(r) THEN "loaded" ELSE "answered"
      /\ \A o \in Tabs \ {b} : refresh'[o] = refresh[o]
  BY <1>1 DEF TokensTyped, InFlight
<1>3. Issued' = Issued
  BY <1>1 DEF Issued
<1>4. SessionTyped'
  BY <1>1, <1>3 DEF SessionTyped
<1>5. \A o \in Tabs : /\ refresh'[o].token = refresh[o].token
                      /\ refresh'[o].new = refresh[o].new
                      /\ refresh'[o].pc # "none" <=> refresh[o].pc # "none"
  BY <1>1, <1>2
<1>6. OneSession'
  <2>1. \A t \in Tokens : InHand(t)' => InHand(t)
    BY <1>1, <1>5 DEF InHand
  <2>2. ~Quiet
    BY <1>1 DEF Quiet
  <2> QED BY <1>1, <1>3, <2>1, <2>2, OneSessionKept
<1>7. AnswersMean'
  BY <1>1 DEF AnswersMean, Active
<1>8. Renewal'
  <2>1. OneRenews'
    BY <1>5 DEF Renewal, OneRenews
  <2>2. ASSUME NEW o \in Tabs PROVE RenewalOf(o)'
    <3>1. refresh'[o].pc # "answered" => refresh'[o].new = 0
      BY <1>1, <1>2 DEF Renewal, RenewalOf
    <3> QED BY <1>1, <1>5, <3>1 DEF Renewal, RenewalOf, Active
  <2> QED BY <2>1, <2>2 DEF Renewal
<1>9. Refusals'
  <2> SUFFICES ASSUME store # 0 PROVE
        /\ tokens[store].revoked => Excused' \/ \E o \in Tabs : refresh'[o].new # 0
        /\ \A o \in Tabs : refresh'[o].pc = "answered" /\ refresh'[o].new = 0 => Excused'
    BY <1>1 DEF Refusals
  <2>1. Excused => Excused'
    BY <1>1 DEF Excused, Active
  <2>2. store = r /\ \A o \in Tabs : refresh[o].new = 0
    BY <1>1 DEF Renewal, OneRenews, RenewalOf
  <2>3. ~Rotates(r) => Excused
    BY <2>2 DEF Rotates, Refusals, Excused
  <2>4. \A o \in Tabs : refresh'[o].pc = "answered" /\ refresh'[o].new = 0 => Excused
    BY <1>2, <2>3 DEF Refusals
  <2> QED BY <1>5, <2>1, <2>4 DEF Refusals
<1> QED BY <1>4, <1>6, <1>7, <1>8, <1>9

LEMMA LossKeepsSession ==
  ASSUME SessionInv, TokensTyped, NEW b \in Tabs, RefreshLost(b)
  PROVE  SessionInv'
<1> USE DEF SessionInv
<1>1. /\ refresh[b].pc \in {"sent", "answered"}
      /\ refresh' = [refresh EXCEPT ![b].pc = "answered", ![b].new = 0]
      /\ lost' = lost + 1
      /\ UNCHANGED <<submit, users, owner, tokens, stale, store, call>>
  BY DEF RefreshLost, codes, rows
<1>2. /\ refresh'[b].token = refresh[b].token /\ refresh'[b].new = 0
      /\ refresh'[b].pc = "answered"
      /\ \A o \in Tabs \ {b} : refresh'[o] = refresh[o]
  BY <1>1 DEF TokensTyped, InFlight
<1>3. Issued' = Issued
  BY <1>1 DEF Issued
<1>4. lost' \in Nat /\ lost' > 0
  BY <1>1 DEF SessionTyped
<1>5. SessionTyped'
  BY <1>1, <1>3, <1>4 DEF SessionTyped
<1>6. OneSession'
  <2>1. \A t \in Tokens : InHand(t)' => InHand(t)
    <3>1. \A o \in Tabs : /\ refresh'[o].token = refresh[o].token
                          /\ refresh'[o].new \in {0, refresh[o].new}
      BY <1>2
    <3> QED BY <1>1, <3>1 DEF InHand
  <2>2. ~Quiet
    BY <1>1 DEF Quiet
  <2> QED BY <1>1, <1>3, <2>1, <2>2, OneSessionKept
<1>7. AnswersMean'
  BY <1>1, <1>4 DEF AnswersMean, Active
<1>8. Renewal' /\ Refusals'
  <2>1. OneRenews'
    BY <1>1, <1>2 DEF Renewal, OneRenews
  <2>2. RenewalOf(b)'
    BY <1>1, <1>2 DEF Renewal, RenewalOf
  <2>3. ASSUME NEW o \in Tabs \ {b} PROVE RenewalOf(o)'
    <3>1. refresh'[o] = refresh[o] /\ refresh[o].pc = "none" /\ refresh[o].new = 0
      BY <1>1, <1>2, <2>3 DEF Renewal, OneRenews, RenewalOf
    <3> QED BY <3>1 DEF Renewal, RenewalOf
  <2> QED BY <1>4, <2>1, <2>2, <2>3 DEF Renewal, Refusals, Excused
<1> QED BY <1>5, <1>6, <1>7, <1>8

\* The pair a rotation issues is new to the client.
LEMMA CommitKeepsSession ==
  ASSUME SessionInv, TokensInv, NEW b \in Tabs, RefreshCommits(b)
  PROVE  SessionInv'
<1> USE DEF SessionInv
<1>0. refresh[b].pc = "loaded"
  BY DEF RefreshCommits
<1>1. PICK r \in Issued : r = refresh[b].token
  BY <1>0 DEF TokensInv, RotatesTheLast
<1>2. PICK new \in Tokens :
        /\ new \notin Issued
        /\ tokens' = Rotated(r, new)
        /\ refresh' = [refresh EXCEPT ![b].pc = "answered", ![b].new = new]
  BY <1>1 DEF RefreshCommits, NextToken
<1>3. UNCHANGED <<submit, users, owner, stale, store, call>> /\ lost' = lost
  BY DEF RefreshCommits, codes
<1>4. r \in Tokens /\ r # new /\ r # 0 /\ new # 0
  BY <1>2 DEF Issued, Tokens
<1>5. /\ tokens'[new].user = tokens[r].user /\ ~tokens'[new].revoked
      /\ tokens'[r].user = tokens[r].user /\ tokens'[r].expired = tokens[r].expired
      /\ \A t \in Tokens \ {r, new} : tokens'[t] = tokens[t]
  BY <1>2, <1>4 DEF TokensInv, TokensTyped, TokenRow, Rotated, Row
<1>6. /\ Issued' = Issued \cup {new} /\ Issued \subseteq Tokens
      /\ \A t \in Issued : tokens'[t].user = tokens[t].user
                           /\ tokens'[t].expired = tokens[t].expired
  BY <1>2, <1>4, <1>5 DEF Issued
<1>7. /\ refresh'[b].token = r /\ refresh'[b].new = new /\ refresh'[b].pc = "answered"
      /\ \A o \in Tabs \ {b} : refresh'[o] = refresh[o] /\ refresh[o].pc = "none"
  BY <1>0, <1>1, <1>2 DEF TokensInv, TokensTyped, InFlight, Renewal, OneRenews
<1>8. SessionTyped'
  BY <1>3, <1>4, <1>5, <1>6 DEF SessionTyped
<1>9. OneSession'
  <2>1. \A t \in Tokens : InHand(t)' => InHand(t) \/ t = new
    <3>1. \A o \in Tabs : /\ refresh'[o].token = refresh[o].token
                          /\ refresh'[o].new \in {new, refresh[o].new}
      BY <1>1, <1>7
    <3> QED BY <1>3, <3>1 DEF InHand
  <2>2. InHand(r)
    BY <1>1, <1>4 DEF InHand
  <2>3. \A t \in Tokens : InHand(t)' => tokens'[t].user = tokens[r].user /\ t \in Issued'
    BY <1>4, <1>5, <1>6, <2>1, <2>2 DEF OneSession
  <2>4. submit[Page] = NoSubmit
    BY <1>0 DEF OneSession, Quiet
  <2> QED BY <1>3, <2>3, <2>4 DEF OneSession
<1>10. \A c \in Calls : /\ call[c].sent # 0 => call[c].sent \in Issued
                        /\ call[c].body # 0 => call[c].body \in Issued
  BY <1>6 DEF OneSession, InHand, SessionTyped, CallRow
<1>11. AnswersMean'
  BY <1>3, <1>6, <1>10 DEF AnswersMean, Active
<1>12. Renewal'
  <2>1. new \notin stale /\ \A c \in Calls : call[c].body # new
    BY <1>2, <1>4, <1>10 DEF SessionTyped
  <2>2. OneRenews'
    BY <1>7 DEF OneRenews
  <2>3. RenewalOf(b)'
    BY <1>0, <1>1, <1>3, <1>4, <1>5, <1>7, <2>1 DEF Renewal, RenewalOf
  <2>4. ASSUME NEW o \in Tabs \ {b} PROVE RenewalOf(o)'
    BY <1>3, <1>7, <2>4 DEF Renewal, RenewalOf
  <2> QED BY <2>2, <2>3, <2>4 DEF Renewal
<1>13. Refusals'
  BY <1>4, <1>7 DEF Refusals
<1> QED BY <1>8, <1>9, <1>11, <1>12, <1>13

ReplayRow(r, t) == [r EXCEPT !.pc = "sent", !.sent = t, !.retried = TRUE, !.answer = 0]

LEMMA CallRowReplayed ==
  ASSUME NEW r \in CallRow, NEW t \in Tokens \cup {0}
  PROVE  /\ ReplayRow(r, t) \in CallRow
         /\ ReplayRow(r, t).pc = "sent" /\ ReplayRow(r, t).sent = t
         /\ ReplayRow(r, t).retried /\ ReplayRow(r, t).answer = 0
         /\ ReplayRow(r, t).kind = r.kind /\ ReplayRow(r, t).body = r.body
         /\ ReplayRow(r, t).tab = r.tab
<1> DEFINE e == ReplayRow(r, t)
           yes == TRUE
<1>1. e \in CallRow
  <2> DEFINE r1 == [r EXCEPT !.pc = "sent"]
             r2 == [r1 EXCEPT !.sent = t]
             r3 == [r2 EXCEPT !.retried = yes]
  <2>0. yes \in BOOLEAN
    OBVIOUS
  <2> HIDE DEF yes
  <2>1. r1 \in CallRow
    BY DEF CallRow
  <2> HIDE DEF r1
  <2>2. r2 \in CallRow
    BY <2>1 DEF CallRow
  <2> HIDE DEF r2
  <2>3. r3 \in CallRow
    BY <2>0, <2>2 DEF CallRow
  <2> HIDE DEF r3
  <2>4. [r3 EXCEPT !.answer = 0] \in CallRow
    BY <2>3 DEF CallRow
  <2> QED BY <2>4 DEF r1, r2, r3, yes, ReplayRow
<1>2. /\ e.pc = "sent" /\ e.sent = t /\ e.retried /\ e.answer = 0
      /\ e.kind = r.kind /\ e.body = r.body /\ e.tab = r.tab
  BY DEF CallRow, ReplayRow
<1> QED BY <1>1, <1>2

LEMMA SettleKeepsSession ==
  ASSUME SessionInv, TokensTyped, NEW b \in Tabs, RefreshSettles(b)
  PROVE  SessionInv'
<1> USE DEF SessionInv
<1>0. PICK new \in Tokens \cup {0} : new = refresh[b].new
  BY DEF TokensTyped, InFlight
<1>1. /\ refresh[b].pc = "answered"
      /\ refresh' = [refresh EXCEPT ![b] = NoRefresh]
      /\ UNCHANGED <<submit, users, owner, tokens, stale>> /\ lost' = lost
  BY DEF RefreshSettles, codes, rows
<1>2. /\ store' = new
      /\ \A c \in Calls \ Waiting(b) : call'[c] = call[c]
      /\ \A c \in Waiting(b) : call'[c] = IF new # 0 THEN ReplayRow(call[c], new) ELSE NoCall
      /\ call' = [c \in Calls |-> call'[c]]
      /\ Waiting(b) \subseteq Calls
  BY <1>0 DEF RefreshSettles, Replayed, ReplayRow, Waiting
<1>3. \A c \in Calls : call[c] \in CallRow
  BY DEF SessionTyped
<1>4. /\ NoCall \in CallRow /\ NoCall.sent = 0 /\ NoCall.body = 0 /\ NoCall.pc = "idle"
      /\ NoCall.answer = 0 /\ ~NoCall.retried
  BY DEF NoCall, CallRow
<1>5. \A c \in Waiting(b) :
        /\ call'[c] \in CallRow
        /\ new # 0 => /\ call'[c].pc = "sent" /\ call'[c].sent = new
                      /\ call'[c].retried /\ call'[c].answer = 0
                      /\ call'[c].kind = call[c].kind /\ call'[c].body = call[c].body
                      /\ call'[c].tab = call[c].tab
        /\ new = 0 => call'[c] = NoCall
  BY <1>2, <1>3, <1>4, CallRowReplayed
<1>6. Issued' = Issued
  BY <1>1 DEF Issued
<1>7. SessionTyped'
  <2>1. \A c \in Calls : call'[c] \in CallRow
    BY <1>2, <1>3, <1>5
  <2>2. call' \in [Calls -> CallRow]
    BY <1>2, <2>1
  <2>3. \A c \in Calls : call'[c].pc # "idle" => call'[c].tab \in Tabs
    BY <1>2, <1>4, <1>5 DEF SessionTyped, Waiting
  <2> QED BY <1>1, <1>6, <2>2, <2>3 DEF SessionTyped
<1>8. /\ refresh'[b] = NoRefresh
      /\ \A o \in Tabs \ {b} : /\ refresh'[o] = refresh[o] /\ refresh[o].pc = "none"
                               /\ refresh[o].token = 0 /\ refresh[o].new = 0
  BY <1>1 DEF TokensTyped, Renewal, OneRenews, RenewalOf
<1>9. OneSession'
  <2>1. \A t \in Tokens : InHand(t)' => InHand(t)
    <3> SUFFICES ASSUME NEW t \in Tokens, InHand(t)', t # new PROVE InHand(t)
      BY <1>0 DEF InHand
    <3>1. t # 0 /\ t # store'
      BY <1>2 DEF InHand
    <3>2. \A o \in Tabs : refresh'[o].token = 0 /\ refresh'[o].new = 0
      BY <1>8 DEF NoRefresh
    <3>3. PICK c \in Calls : t \in {call'[c].sent, call'[c].body}
      BY <3>1, <3>2 DEF InHand
    <3>4. t \in {call[c].sent, call[c].body}
      BY <1>2, <1>4, <1>5, <3>1, <3>3
    <3> QED BY <3>1, <3>4 DEF InHand
  <2>2. ~Quiet
    BY <1>1 DEF Quiet
  <2> QED BY <1>1, <1>6, <2>1, <2>2, OneSessionKept
<1>10. AnswersMean'
  <2> SUFFICES ASSUME NEW c \in Calls PROVE
        /\ call'[c].pc = "idle" => call'[c] = NoCall
        /\ call'[c].pc # "idle" => call'[c].sent # 0
        /\ call'[c].body # 0 => call'[c].kind = "logout"
        /\ call'[c].answer = 404 =>
             call'[c].sent # 0 /\ ~Active(tokens[call'[c].sent].user)
        /\ call'[c].pc = "answered" /\ call'[c].answer = 0 => lost > 0
        /\ call'[c].retried => call'[c].sent \notin stale /\ call'[c].answer # 401
    BY <1>1 DEF AnswersMean, Active
  <2>1. CASE c \notin Waiting(b)
    BY <1>2, <2>1 DEF AnswersMean
  <2>2. CASE c \in Waiting(b) /\ new # 0
    <3>1. new \notin stale
      BY <1>0, <2>2 DEF Renewal, RenewalOf
    <3> QED BY <1>5, <2>2, <3>1 DEF AnswersMean
  <2>3. CASE c \in Waiting(b) /\ new = 0
    BY <1>4, <1>5, <2>3
  <2> QED BY <2>1, <2>2, <2>3
<1>11. Renewal'
  BY <1>8 DEF Renewal, OneRenews, RenewalOf, NoRefresh
<1>12. Refusals'
  <2> SUFFICES ASSUME new # 0, tokens[new].revoked PROVE Excused'
    BY <1>1, <1>2, <1>8 DEF Refusals, NoRefresh
  <2>1. ~Active(tokens[new].user)
    BY <1>0 DEF Renewal, RenewalOf
  <2> QED BY <1>1, <1>2, <2>1 DEF Excused, Active
<1> QED BY <1>7, <1>9, <1>10, <1>11, <1>12

LEMMA StepKeepsSession ==
  ASSUME AccountsInv, AccountsInv', SessionInv, [Next]_vars, ~overlap' PROVE SessionInv'
<1>1. TokensInv /\ TokensTyped /\ TokensTyped'
  BY DEF AccountsInv, TokensInv
<1>2. CASE \/ RequestOtp \/ AccountIsAdded \/ DeleteAccount
           \/ \E k \in Challenges : CodeExpires(k)
           \/ \E t \in Tokens : AccessExpires(t) \/ RefreshExpires(t)
  BY <1>1, <1>2, ServerStepsKeepSession
<1>3. ASSUME NEW v \in Logins, Verifying(v) PROVE SessionInv'
  BY <1>1, <1>3, ServerStepsKeepSession, IssueKeepsSession
<1>4. ASSUME NEW c \in Calls, NEW b \in Tabs, NEW kind \in Kinds, CallSends(c, b, kind)
      PROVE  SessionInv'
  BY <1>1, <1>4, SendKeepsSession
<1>5. ASSUME NEW c \in Calls, Calling(c) \/ CallLost(c) PROVE SessionInv'
  BY <1>1, <1>5, AnsweringKeepsSession, WaitKeepsSession, EndKeepsSession DEF Calling
<1>6. ASSUME NEW b \in Tabs, Refreshing(b) \/ RefreshLost(b) PROVE SessionInv'
  BY <1>1, <1>6, LoadKeepsSession, CommitKeepsSession, SettleKeepsSession,
     LossKeepsSession DEF Refreshing
<1>7. CASE UNCHANGED vars
  BY <1>7 DEF vars, SessionInv, SessionTyped, OneSession, AnswersMean, Renewal, OneRenews,
     RenewalOf, Refusals, Excused, InHand, Quiet, Issued, Active
<1> QED BY <1>2, <1>3, <1>4, <1>5, <1>6, <1>7 DEF Next

\* Refreshes that overlapped once have overlapped.
LEMMA OverlapStays == ASSUME overlap, [Next]_vars PROVE overlap'
<1>1. \/ overlap' = overlap
      \/ \E c \in Calls :
           overlap' = (overlap \/ \E o \in Tabs \ {call[c].tab} : refresh[o].pc # "none")
  <2>1. CASE UNCHANGED vars
    BY <2>1 DEF vars
  <2>2. CASE RequestOtp \/ AccountIsAdded \/ DeleteAccount
    BY <2>2 DEF RequestOtp, AccountIsAdded, DeleteAccount, browser
  <2>3. CASE \E k \in Challenges : CodeExpires(k)
    BY <2>3 DEF CodeExpires, browser
  <2>4. CASE \E v \in Logins : Verifying(v)
    BY <2>4 DEF Verifying, VerifyLoads, VerifyCounts, VerifyCompares, VerifyIssues,
       VerifyConflicts, browser
  <2>5. CASE \E t \in Tokens : AccessExpires(t) \/ RefreshExpires(t)
    BY <2>5 DEF AccessExpires, RefreshExpires, browser
  <2>6. ASSUME NEW c \in Calls, NEW b \in Tabs, NEW kind \in Kinds, CallSends(c, b, kind)
        PROVE  overlap' = overlap
    BY <2>6 DEF CallSends
  <2>7. ASSUME NEW c \in Calls, CallServed(c) \/ CallLost(c) \/ CallEnds(c)
        PROVE  overlap' = overlap
    BY <2>7 DEF CallServed, CallLost, CallEnds
  <2>8. ASSUME NEW c \in Calls, CallWaits(c)
        PROVE  \/ overlap' = overlap
               \/ overlap' = (overlap \/ \E o \in Tabs \ {call[c].tab} : refresh[o].pc # "none")
    BY <2>8, Zenon DEF CallWaits, Joins, Starts
  <2>9. ASSUME NEW b \in Tabs, Refreshing(b) \/ RefreshLost(b) PROVE overlap' = overlap
    BY <2>9 DEF Refreshing, RefreshLoads, RefreshCommits, RefreshSettles, RefreshLost
  <2> QED BY <2>1, <2>2, <2>3, <2>4, <2>5, <2>6, <2>7, <2>8, <2>9 DEF Next, Calling
<1> QED BY <1>1

\* A request that ends the session has a reason for it: an answer of 401 is not the
\* last word on a token that can be renewed.
LEMMA EndIsExcused ==
  ASSUME SessionInv, TokensTyped, NEW c \in Calls, CallEnds(c), store # 0, store' = 0
  PROVE  Excused
<1> USE DEF SessionInv
<1>1. /\ call[c].pc = "answered" /\ Clears(c) /\ ~Refused(c)
  BY DEF CallEnds
<1>2. CASE call[c].kind = "logout"
  BY <1>2 DEF Excused
<1>3. CASE call[c].kind = "me" /\ call[c].answer # 200
  <2>1. call[c].answer \in {0, 401, 404}
    BY <1>3 DEF SessionTyped, CallRow
  <2>2. CASE call[c].answer = 0
    BY <1>1, <2>2 DEF AnswersMean, Excused
  <2>3. CASE call[c].answer = 401
    BY <1>1, <2>3 DEF Refused, AnswersMean
  <2>4. CASE call[c].answer = 404
    <3>1. call[c].sent # 0 /\ ~Active(tokens[call[c].sent].user)
      BY <2>4 DEF AnswersMean
    <3>2. InHand(call[c].sent) /\ call[c].sent \in Tokens /\ InHand(store) /\ store \in Tokens
      BY <3>1 DEF InHand, SessionTyped, CallRow, TokensTyped
    <3>3. tokens[call[c].sent].user = tokens[store].user
      BY <3>2 DEF OneSession
    <3> QED BY <3>1, <3>3 DEF Excused
  <2> QED BY <2>1, <2>2, <2>3, <2>4
<1> QED BY <1>1, <1>2, <1>3 DEF Clears

LEMMA StepSparesSession ==
  ASSUME SessionInv, TokensTyped, [Next]_vars, store # 0, store' = 0
  PROVE  Excused
<1>1. ASSUME NEW b \in Tabs, RefreshSettles(b) PROVE Excused
  <2>1. refresh[b].pc = "answered" /\ refresh[b].new = 0
    BY <1>1 DEF RefreshSettles
  <2> QED BY <2>1 DEF SessionInv, Refusals
<1>2. ASSUME NEW c \in Calls, CallEnds(c) PROVE Excused
  BY <1>2, EndIsExcused
<1>3. ~UNCHANGED store
  OBVIOUS
<1>4. ~\E v \in Logins : VerifyIssues(v)
  <2>1. \A t \in Tokens : t # 0
    BY DEF Tokens
  <2>2. ASSUME NEW v \in Logins, VerifyIssues(v) PROVE store' \in Tokens \cup {store}
    BY <2>2 DEF VerifyIssues, Arrives
  <2> QED BY <2>1, <2>2
<1>5. \/ \E b \in Tabs : RefreshSettles(b)
      \/ \E v \in Logins : VerifyIssues(v)
      \/ \E c \in Calls : CallEnds(c)
      \/ UNCHANGED store
  <2>1. CASE UNCHANGED vars
    BY <2>1 DEF vars
  <2>2. CASE RequestOtp \/ AccountIsAdded \/ DeleteAccount
    BY <2>2 DEF RequestOtp, AccountIsAdded, DeleteAccount, browser
  <2>3. CASE \/ \E k \in Challenges : CodeExpires(k)
             \/ \E t \in Tokens : AccessExpires(t) \/ RefreshExpires(t)
    BY <2>3 DEF CodeExpires, AccessExpires, RefreshExpires, browser
  <2>4. ASSUME NEW v \in Logins, Verifying(v), ~VerifyIssues(v) PROVE UNCHANGED store
    BY <2>4 DEF Verifying, VerifyLoads, VerifyCounts, VerifyCompares, VerifyConflicts, browser
  <2>5. ASSUME NEW c \in Calls, NEW b \in Tabs, NEW kind \in Kinds, CallSends(c, b, kind)
        PROVE  UNCHANGED store
    BY <2>5 DEF CallSends
  <2>6. ASSUME NEW c \in Calls, CallServed(c) \/ CallWaits(c) \/ CallLost(c)
        PROVE  UNCHANGED store
    BY <2>6 DEF CallServed, CallWaits, CallLost
  <2>7. ASSUME NEW b \in Tabs, RefreshLoads(b) \/ RefreshCommits(b) \/ RefreshLost(b)
        PROVE  UNCHANGED store
    BY <2>7 DEF RefreshLoads, RefreshCommits, RefreshLost
  <2> QED BY <2>1, <2>2, <2>3, <2>4, <2>5, <2>6, <2>7 DEF Next, Refreshing, Calling
<1> QED BY <1>1, <1>2, <1>3, <1>4, <1>5

\* The client forgets its session only for a reason, whatever its requests meet:
\* that the requests of a tab share one refresh, that a replay is not refused, and
\* that a rotation revokes no pair without delivering the next, hold for any number
\* of calls, tokens and tabs, while no two tabs refresh at once (tryRefresh, request
\* and SessionProvider against refresh_tokens).
THEOREM SessionSurvivesAlways == Spec => SessionSurvives
<1>1. Init => overlap \/ SessionInv
  BY SessionInitially
<1>2. AccountsInv /\ AccountsInv' /\ (overlap \/ SessionInv) /\ [Next]_vars
        => (overlap \/ SessionInv)'
  BY StepKeepsSession, OverlapStays
<1>3. AccountsInv /\ (overlap \/ SessionInv) /\ [Next]_vars =>
        [store # 0 /\ store' = 0 =>
           \/ lost > 0
           \/ overlap
           \/ \E c \in Calls : call[c].kind = "logout"
           \/ tokens[store].expired
           \/ ~Active(tokens[store].user)]_vars
  BY StepSparesSession DEF AccountsInv, TokensInv, Excused
<1> QED BY <1>1, <1>2, <1>3, AccountsInvariant, PTL DEF Spec, SessionSurvives
=============================================================================
