----------------------------- MODULE MCAccounts -----------------------------
(***************************************************************************)
(* Instances of Accounts for TLC.  A behaviour is either about the codes,  *)
(* with sign-ins that overlap and no calls of the client, or about one     *)
(* session and the tabs that keep it, so that their states add and do not  *)
(* multiply.                                                               *)
(***************************************************************************)
EXTENDS Accounts, TLC

CONSTANTS c1, c2, page, elsewhere, tab1, tab2

TwoCalls == {c1, c2}
TwoLogins == {page, elsewhere}
TwoTabs == {tab1, tab2}

VARIABLE part

\* In "codes" the client sends nothing; in "tabs" it signs in with its only code,
\* at the first attempt, and the session takes its course.  Tabs and calls can be
\* exchanged, so that c1 may stay in the first tab.
InPart ==
  CASE part = "codes" -> call' = call /\ stale' = stale
    [] part = "tabs"  -> /\ \A v \in Logins \ {Page} : submit'[v] = submit[v]
                         /\ \A k \in Challenges \ {1} : challenge'[k] = challenge[k]
                         /\ challenge'[1].state # "expired" /\ challenge'[1].attempts <= 1
                         /\ call'[c1].tab # tab2

PartInit == Init /\ part \in {"codes", "tabs"}

PartNext == Next /\ InPart /\ UNCHANGED part

PartSpec == PartInit /\ [][PartNext]_<<vars, part>> /\ Fairness
=============================================================================
