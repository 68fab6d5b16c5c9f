--------------------------- MODULE SessionProofs ---------------------------
(* The two copies of the token, localStorage and React state, kept in step *)
(* by each tab for its own logins: TokenlessPagesAreForeign, proved.       *)
(* And the redirects of checkAuth, which share the first copy, run down.   *)
EXTENDS Session, TLAPS

(* A tab holds in React state the login of its own that is in storage.     *)
OwnLoginHeld == stored \in Token => (owner[stored] \in Tab => token[owner[stored]] = stored)

(* Why a device page may be without a token.                               *)
PageExplained(b) ==
  path[b] = "app" =>
    /\ admitted[b] \in Token
    /\ token[b] = None => (goal[b] = "login" \/ leaving[b] \/ owner[admitted[b]] # b)
PagesExplained == \A b \in Tab : PageExplained(b)

SessionInv == TypeOK /\ OwnLoginHeld /\ PagesExplained

-----------------------------------------------------------------------------
LEMMA InitSession == Init => SessionInv
BY SessionAssumption DEF Init, SessionInv, TypeOK, OwnLoginHeld, PagesExplained, PageExplained, Issued

(* Who was issued what changes at a login only.                            *)
LEMMA IssuedKept == owner' = owner => Issued' = Issued
BY DEF Issued

LEMMA LoadKeeps ==
  ASSUME SessionInv, NEW b \in Tab, NEW p \in {"login", "app"}, Load(b, p)
  PROVE  SessionInv'
<1>1. owner' = owner /\ stored' = stored /\ Issued' = Issued
  BY IssuedKept DEF Load
<1>2. TypeOK'
  <2>1. token' \in [Tab -> Issued' \cup {None}] /\ admitted' \in [Tab -> Issued' \cup {None}]
    BY <1>1 DEF Load, SessionInv, TypeOK
  <2>2. /\ path' \in [Tab -> {"blank", "login", "app"}]
        /\ goal' \in [Tab -> {"none", "login", "app"}]
    BY DEF Load, Go, SessionInv, TypeOK
  <2>3. leaving' \in [Tab -> BOOLEAN] /\ pending' \in [Tab -> BOOLEAN]
    BY DEF Load, SessionInv, TypeOK
  <2>4. calls' \in [Tab -> SUBSET (Issued' \cup {None})]
    BY <1>1 DEF Load, SessionInv, TypeOK
  <2>5. QED
    BY <1>1, <2>1, <2>2, <2>3, <2>4 DEF Load, SessionInv, TypeOK, clocks
<1>3. OwnLoginHeld'
  BY <1>1 DEF Load, SessionInv, TypeOK, OwnLoginHeld
<1>4. PagesExplained'
  BY <1>1 DEF Load, Go, SessionInv, TypeOK, PagesExplained, PageExplained
<1>5. QED
  BY <1>2, <1>3, <1>4 DEF SessionInv

LEMMA NavigateKeeps ==
  ASSUME SessionInv, NEW b \in Tab, NEW p \in {"login", "app"}, Navigate(b, p)
  PROVE  SessionInv'
<1>1. owner' = owner /\ stored' = stored /\ Issued' = Issued
  BY IssuedKept DEF Navigate
<1>2. TypeOK'
  BY <1>1 DEF Navigate, Go, SessionInv, TypeOK, clocks
<1>3. OwnLoginHeld'
  BY <1>1 DEF Navigate, SessionInv, OwnLoginHeld
<1>4. PagesExplained'
  BY <1>1 DEF Navigate, Settled, Go, SessionInv, TypeOK, PagesExplained, PageExplained
<1>5. QED
  BY <1>2, <1>3, <1>4 DEF SessionInv

(* A device page is let in with the token in storage; if the tab has none, *)
(* then the one in storage is not its own.                                 *)
LEMMA CheckAuthKeeps ==
  ASSUME SessionInv, NEW b \in Tab, CheckAuth(b)
  PROVE  SessionInv'
<1>1. owner' = owner /\ token' = token /\ leaving' = leaving /\ Issued' = Issued
  BY IssuedKept DEF CheckAuth
<1>2. stored' \in {stored, None}
  BY DEF CheckAuth
<1>3. TypeOK'
  BY <1>1, <1>2 DEF CheckAuth, Go, SessionInv, TypeOK, clocks
<1>4. OwnLoginHeld'
  BY <1>1, <1>2, SessionAssumption DEF SessionInv, OwnLoginHeld
<1>5. PageExplained(b)'
  <2>1. CASE goal' = [goal EXCEPT ![b] = "login"] /\ UNCHANGED <<path, admitted>>
    BY <1>1, <2>1 DEF SessionInv, TypeOK, PagesExplained, PageExplained
  <2>2. CASE goal[b] = "login" /\ path' = [path EXCEPT ![b] = goal[b]]
    BY <1>1, <2>2 DEF SessionInv, TypeOK, PageExplained
  <2>3. CASE /\ goal[b] = "app" /\ stored # None
             /\ admitted' = [admitted EXCEPT ![b] = stored]
    <3>1. admitted'[b] = stored /\ stored \in Token
      BY <2>3 DEF SessionInv, TypeOK, Issued
    <3>2. token[b] = None => owner[stored] # b
      BY <3>1, SessionAssumption DEF SessionInv, OwnLoginHeld
    <3>3. QED
      BY <1>1, <3>1, <3>2 DEF PageExplained
  <2>4. QED
    BY <2>1, <2>2, <2>3 DEF CheckAuth, Go, SessionInv, TypeOK
<1>6. ASSUME NEW c \in Tab, c # b
      PROVE  PageExplained(c)'
  BY <1>1, <1>6 DEF CheckAuth, Go, SessionInv, TypeOK, PagesExplained, PageExplained
<1>7. QED
  BY <1>3, <1>4, <1>5, <1>6 DEF SessionInv, PagesExplained

(* The new token is nobody's yet, so no page was let in with it.           *)
LEMMA LoggedInKeeps ==
  ASSUME SessionInv, NEW b \in Tab, NEW t \in Token, LoggedIn(b, t)
  PROVE  SessionInv'
<1>1. t \notin Issued /\ t # None
  BY SessionAssumption DEF LoggedIn, Unissued
<1>2. owner' = [owner EXCEPT ![t] = b] /\ Issued' = Issued \cup {t}
  <2>1. owner' = [owner EXCEPT ![t] = b]
    BY DEF LoggedIn
  <2>2. \A u \in Token : owner'[u] # None <=> (owner[u] # None \/ u = t)
    BY <2>1, SessionAssumption DEF SessionInv, TypeOK
  <2>3. QED
    BY <2>1, <2>2 DEF Issued
<1>3. TypeOK'
  <2>1. stored' \in Issued' /\ token' \in [Tab -> Issued' \cup {None}]
    BY <1>2 DEF LoggedIn, SessionInv, TypeOK
  <2>2. goal' \in [Tab -> {"none", "login", "app"}]
    BY DEF LoggedIn, Go, SessionInv, TypeOK
  <2>3. owner' \in [Token -> Tab \cup {None}] /\ pending' \in [Tab -> BOOLEAN]
    BY <1>2 DEF LoggedIn, SessionInv, TypeOK
  <2>4. QED
    BY <1>2, <2>1, <2>2, <2>3 DEF LoggedIn, SessionInv, TypeOK, clocks
<1>4. OwnLoginHeld'
  BY <1>2 DEF LoggedIn, SessionInv, TypeOK, OwnLoginHeld
<1>5. ASSUME NEW c \in Tab
      PROVE  PageExplained(c)'
  <2>1. path' = path /\ admitted' = admitted /\ leaving' = leaving
    BY DEF LoggedIn
  <2>2. path[c] = "app" => goal'[c] = goal[c]
    BY DEF LoggedIn, Go, SessionInv, TypeOK
  <2>3. owner'[admitted[c]] = owner[admitted[c]] \/ admitted[c] = None
    BY <1>1, <1>2 DEF SessionInv, TypeOK, Issued
  <2>4. token'[c] = token[c] \/ token'[c] # None
    BY <1>1 DEF LoggedIn, SessionInv, TypeOK
  <2>5. QED
    BY <2>1, <2>2, <2>3, <2>4, SessionAssumption DEF SessionInv, PagesExplained, PageExplained
<1>6. QED
  BY <1>3, <1>4, <1>5 DEF SessionInv, PagesExplained

(* Logging out and being refused clear both copies.                        *)
LEMMA EndKeeps ==
  ASSUME SessionInv, NEW b \in Tab,
         Logout(b) \/ \E k \in Token \cup {None} : Refused(b, k)
  PROVE  SessionInv'
<1>1. owner' = owner /\ Issued' = Issued /\ stored' = None
  BY IssuedKept DEF Logout, Refused
<1>2. TypeOK'
  <2>1. token' = [token EXCEPT ![b] = None]
    BY DEF Logout, Refused
  <2>2. /\ goal' \in [Tab -> {"none", "login", "app"}]
        /\ leaving' \in [Tab -> BOOLEAN]
    BY DEF Logout, Refused, Go, SessionInv, TypeOK
  <2>3. calls' \in [Tab -> SUBSET (Issued \cup {None})]
    BY DEF Logout, Refused, Forget, SessionInv, TypeOK
  <2>4. UNCHANGED <<path, admitted, pending, lapsed, past>>
    BY DEF Logout, Refused, clocks
  <2>5. QED
    BY <1>1, <2>1, <2>2, <2>3, <2>4 DEF SessionInv, TypeOK
<1>3. OwnLoginHeld'
  BY <1>1, SessionAssumption DEF OwnLoginHeld
<1>4. PagesExplained'
  BY <1>1 DEF Logout, Refused, Go, SessionInv, TypeOK, PagesExplained, PageExplained
<1>5. QED
  BY <1>2, <1>3, <1>4 DEF SessionInv

(* Steps that touch neither copy nor page.                                 *)
LEMMA OthersKeep ==
  ASSUME SessionInv,
         \/ \E b \in Tab : Submit(b) \/ LoginFails(b) \/ Send(b)
         \/ \E b \in Tab, k \in Token \cup {None} : Answered(b, k)
         \/ \E t \in Token : Lapse(t) \/ Age(t)
         \/ UNCHANGED vars
  PROVE  SessionInv'
<1>1. /\ owner' = owner /\ stored' = stored /\ token' = token /\ Issued' = Issued
      /\ UNCHANGED page
  BY IssuedKept DEF Submit, LoginFails, Send, Answered, Lapse, Age, vars, page
<1>2. calls' \in [Tab -> SUBSET (Issued \cup {None})]
  BY DEF Submit, LoginFails, Send, Answered, Forget, Lapse, Age, vars, SessionInv, TypeOK
<1>3. pending' \in [Tab -> BOOLEAN] /\ lapsed' \subseteq Issued /\ past' \subseteq Issued
  BY DEF Submit, LoginFails, Send, Answered, Lapse, Age, vars, clocks, SessionInv, TypeOK
<1>4. TypeOK'
  BY <1>1, <1>2, <1>3 DEF SessionInv, TypeOK, page
<1>5. OwnLoginHeld' /\ PagesExplained'
  BY <1>1 DEF SessionInv, OwnLoginHeld, PagesExplained, PageExplained, page
<1>6. QED
  BY <1>4, <1>5 DEF SessionInv

LEMMA SessionInvariant == Spec => []SessionInv
<1>1. SessionInv /\ [Next]_vars => SessionInv'
  <2> SUFFICES ASSUME SessionInv, [Next]_vars PROVE SessionInv'
    OBVIOUS
  <2>1. ASSUME NEW b \in Tab, InTab(b)
        PROVE  SessionInv'
    BY <2>1, LoadKeeps, NavigateKeeps, CheckAuthKeeps, LoggedInKeeps, EndKeeps, OthersKeep DEF InTab
  <2>2. CASE (\E t \in Token : Lapse(t) \/ Age(t)) \/ UNCHANGED vars
    BY <2>2, OthersKeep
  <2>3. QED
    BY <2>1, <2>2 DEF Next
<1>2. QED
  BY InitSession, <1>1, PTL DEF Spec

(* Every reachable state of the browser session is well typed: in          *)
(* particular a tab and the storage hold issued tokens only.               *)
THEOREM SessionTypesCorrect == Spec => []TypeOK
<1>1. SessionInv => TypeOK
  BY DEF SessionInv
<1>2. QED
  BY <1>1, SessionInvariant, PTL

(* For any number of tabs and logins, a device page without a token was    *)
(* let in with another tab's login.                                        *)
THEOREM TokenlessPagesExplained == Spec => []TokenlessPagesAreForeign
<1>1. SessionInv => TokenlessPagesAreForeign
  BY DEF SessionInv, PagesExplained, PageExplained, TokenlessPagesAreForeign, Settled
<1>2. QED
  BY <1>1, SessionInvariant, PTL

-----------------------------------------------------------------------------
(* Redirects.                                                              *)

(* Only an issued token is past, so an empty storage is not.               *)
LEMMA NothingIsNotPast == TypeOK => None \notin past
BY SessionAssumption DEF TypeOK, Issued

(* The outcomes of checkAuth: a redirect that leaves no token an expired   *)
(* one could be found in, or the arrival.                                  *)
LEMMA CheckAuthCases ==
  ASSUME TypeOK, NEW b \in Tab, CheckAuth(b)
  PROVE  /\ goal[b] # "none" /\ past' = past
         /\ \A c \in Tab \ {b} : goal'[c] = goal[c]
         /\ \/ Redirected(goal[b]) /\ goal'[b] = "login" /\ stored' = None
            \/ ~Redirected(goal[b]) /\ goal'[b] = "none" /\ stored' = stored
BY NothingIsNotPast DEF CheckAuth, Go, TypeOK, Redirected, clocks

LEMMA ChecksRunDown ==
  ASSUME TypeOK, NEW b \in Tab, CheckAuth(b)
  PROVE  /\ ChecksLeft(b)' < ChecksLeft(b)
         /\ \A c \in Tab : ChecksLeft(c)' <= ChecksLeft(c)
<1>1. /\ goal[b] # "none" /\ past' = past
      /\ \A c \in Tab \ {b} : goal'[c] = goal[c]
      /\ \/ Redirected(goal[b]) /\ goal'[b] = "login" /\ stored' = None
         \/ ~Redirected(goal[b]) /\ goal'[b] = "none" /\ stored' = stored
  BY CheckAuthCases
<1>2. None \notin past
  BY NothingIsNotPast
<1>3. CASE Redirected(goal[b]) /\ goal'[b] = "login" /\ stored' = None
  <2>1. ChecksLeft(b) = 2 /\ ChecksLeft(b)' = 1
    BY <1>1, <1>2, <1>3 DEF ChecksLeft, Redirected
  <2>2. \A c \in Tab \ {b} : ChecksLeft(c)' <= ChecksLeft(c)
    BY <1>1, <1>2, <1>3 DEF ChecksLeft, Redirected
  <2>3. QED
    BY <2>1, <2>2
<1>4. CASE ~Redirected(goal[b]) /\ goal'[b] = "none" /\ stored' = stored
  <2>1. ChecksLeft(b) = 1 /\ ChecksLeft(b)' = 0
    BY <1>1, <1>4 DEF ChecksLeft
  <2>2. \A c \in Tab \ {b} : ChecksLeft(c)' = ChecksLeft(c) /\ ChecksLeft(c) \in Nat
    BY <1>1, <1>4 DEF ChecksLeft, Redirected
  <2>3. QED
    BY <2>1, <2>2
<1>5. QED
  BY <1>1, <1>3, <1>4

(* No redirect leads back to itself, and no tab's redirect keeps another   *)
(* going, for any number of tabs that share the storage.                   *)
THEOREM RedirectsAreBounded == Spec => RedirectsRunDown
<1>1. SessionInv /\ [Next]_vars =>
        [\A b \in Tab : CheckAuth(b) =>
           /\ ChecksLeft(b)' < ChecksLeft(b)
           /\ \A c \in Tab : ChecksLeft(c)' <= ChecksLeft(c)]_vars
  BY ChecksRunDown DEF SessionInv
<1>2. QED
  BY <1>1, SessionInvariant, PTL DEF Spec, RedirectsRunDown

=============================================================================
