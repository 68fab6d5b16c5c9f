------------------------------ MODULE Session ------------------------------
(* The browser session of the web UI: one token in localStorage, shared by *)
(* the tabs, and a copy of it in each tab's React state, which is what its *)
(* requests carry.  checkAuth reads the first, the hooks use the second.   *)
(* The Go service refuses a token that has expired by its clock; the tabs  *)
(* look at the expiry with the browser's.  The Node service never looks.   *)
EXTENDS Naturals, FiniteSets

CONSTANTS Tab, Token, None,
          MaxCalls,   \* bound: the requests a tab has under way
          MaxExpiries \* bound: how often either clock passes an expiry

ASSUME SessionAssumption == None \notin Token /\ None \notin Tab

VARIABLES owner,     \* the tab whose login got a token; None: not issued yet
          stored,    \* localStorage's auth_token
          token,     \* a tab's AuthContext state
          path,      \* the page a tab shows: blank while it loads, login, app
          goal,      \* where a navigation is going; none if the page is settled
          admitted,  \* the stored token checkAuth let a device page in with
          leaving,   \* window.location.href is set and the page not yet gone
          pending,   \* whether a tab's login request is under way
          calls,     \* the tokens of a tab's requests under way
          lapsed,    \* expired by the service's clock
          past       \* expired by the browser's clock

clocks == <<lapsed, past>>
page == <<path, goal, admitted, leaving>>
vars == <<owner, stored, token, path, goal, admitted, leaving, pending, calls, lapsed, past>>

Issued == {t \in Token : owner[t] # None}
Unissued == Token \ Issued
Settled(b) == path[b] # "blank" /\ goal[b] = "none" /\ ~leaving[b]

Init ==
  /\ owner = [t \in Token |-> None] /\ stored = None
  /\ token = [b \in Tab |-> None]
  /\ path = [b \in Tab |-> "blank"]
  /\ goal = [b \in Tab |-> "app"]
  /\ admitted = [b \in Tab |-> None]
  /\ leaving = [b \in Tab |-> FALSE]
  /\ pending = [b \in Tab |-> FALSE]
  /\ calls = [b \in Tab |-> {}]
  /\ lapsed = {} /\ past = {}

-----------------------------------------------------------------------------
(* Pages.                                                                  *)

Go(b, p) == goal' = [goal EXCEPT ![b] = p]

(* The document is loaded: handleLogout's /login, or an address the user   *)
(* types.  Requests of the old document are gone.                          *)
Load(b, p) ==
  /\ IF leaving[b] THEN p = "login" ELSE Settled(b)
  /\ token' = [token EXCEPT ![b] = stored]
  /\ path' = [path EXCEPT ![b] = "blank"]
  /\ Go(b, p)
  /\ admitted' = [admitted EXCEPT ![b] = None]
  /\ leaving' = [leaving EXCEPT ![b] = FALSE]
  /\ pending' = [pending EXCEPT ![b] = FALSE]
  /\ calls' = [calls EXCEPT ![b] = {}]
  /\ UNCHANGED <<owner, stored, clocks>>

(* A link, the back button.                                                *)
Navigate(b, p) ==
  /\ Settled(b) /\ path[b] # p
  /\ Go(b, p)
  /\ UNCHANGED <<owner, stored, token, path, admitted, leaving, pending, calls, clocks>>

(* The expired token left where it is.                                     *)
CheckAuthOnly(b) ==
  /\ goal[b] # "none"
  /\ IF stored \in past \/ (stored = None /\ goal[b] # "login")
     THEN Go(b, "login") /\ UNCHANGED <<stored, path, admitted>>
     ELSE /\ path' = [path EXCEPT ![b] = goal[b]]
          /\ admitted' = [admitted EXCEPT ![b] = IF goal[b] = "app" THEN stored ELSE None]
          /\ Go(b, "none")
          /\ UNCHANGED stored
  /\ UNCHANGED <<owner, token, leaving, pending, calls, clocks>>

CheckAuth(b) ==
  /\ goal[b] # "none"
  /\ \/ /\ stored \in past
        /\ stored' = None
        /\ Go(b, "login")
        /\ UNCHANGED <<path, admitted>>
     \/ /\ stored = None /\ goal[b] # "login"
        /\ Go(b, "login")
        /\ UNCHANGED <<stored, path, admitted>>
     \/ /\ stored \notin past /\ (stored = None => goal[b] = "login")
        /\ path' = [path EXCEPT ![b] = goal[b]]
        /\ admitted' = [admitted EXCEPT ![b] = IF goal[b] = "app" THEN stored ELSE None]
        /\ Go(b, "none")
        /\ UNCHANGED stored
  /\ UNCHANGED <<owner, token, leaving, pending, calls, clocks>>

-----------------------------------------------------------------------------
(* Login and logout.                                                       *)

Submit(b) ==
  /\ path[b] = "login" /\ ~pending[b]
  /\ pending' = [pending EXCEPT ![b] = TRUE]
  /\ UNCHANGED <<owner, stored, token, page, calls, clocks>>

LoginFails(b) ==
  /\ pending[b]
  /\ pending' = [pending EXCEPT ![b] = FALSE]
  /\ UNCHANGED <<owner, stored, token, page, calls, clocks>>

(* HandleLogin issues the next token t and the answer is stored; a login   *)
(* form that is still there goes on to the devices.                        *)
LoggedIn(b, t) ==
  /\ pending[b] /\ Unissued # {} /\ t = CHOOSE u \in Unissued : TRUE
  /\ owner' = [owner EXCEPT ![t] = b]
  /\ token' = [token EXCEPT ![b] = t]
  /\ stored' = t
  /\ pending' = [pending EXCEPT ![b] = FALSE]
  /\ IF path[b] = "login" THEN Go(b, "app") ELSE UNCHANGED goal
  /\ UNCHANGED <<path, admitted, leaving, calls, clocks>>

(* A logout that only forgets the React state.                             *)
LogoutOfReact(b) ==
  /\ Settled(b) /\ path[b] = "app"
  /\ token' = [token EXCEPT ![b] = None]
  /\ Go(b, "login")
  /\ UNCHANGED <<owner, stored, path, admitted, leaving, pending, calls, clocks>>

Logout(b) ==
  /\ Settled(b) /\ path[b] = "app"
  /\ token' = [token EXCEPT ![b] = None]
  /\ stored' = None
  /\ Go(b, "login")
  /\ UNCHANGED <<owner, path, admitted, leaving, pending, calls, clocks>>

-----------------------------------------------------------------------------
(* Requests to the Go service.  A query is sent only with a token; create, *)
(* update and delete are sent with whatever the state holds.               *)

Send(b) ==
  /\ path[b] = "app" /\ ~leaving[b] /\ Cardinality(calls[b]) < MaxCalls
  /\ calls' = [calls EXCEPT ![b] = @ \cup {token[b]}]
  /\ UNCHANGED <<owner, stored, token, page, pending, clocks>>

Forget(b, k) == calls' = [calls EXCEPT ![b] = @ \ {k}]

(* The answer to a valid token, or none: nothing to do with the session.   *)
Answered(b, k) ==
  /\ k \in calls[b]
  /\ Forget(b, k)
  /\ UNCHANGED <<owner, stored, token, page, pending, clocks>>

(* A 401, which may be late: the token it refuses need not be the one of   *)
(* now.  handleLogout.                                                     *)
Refused(b, k) ==
  /\ k \in calls[b] /\ (k = None \/ k \in lapsed)
  /\ Forget(b, k)
  /\ token' = [token EXCEPT ![b] = None]
  /\ stored' = None
  /\ leaving' = [leaving EXCEPT ![b] = TRUE]
  /\ UNCHANGED <<owner, path, goal, admitted, pending, clocks>>

-----------------------------------------------------------------------------
(* The two clocks pass a token's expiry, in either order.                  *)
MayExpire == Cardinality(lapsed) + Cardinality(past) < MaxExpiries

Lapse(t) ==
  /\ t \in Issued \ lapsed /\ MayExpire
  /\ lapsed' = lapsed \cup {t}
  /\ UNCHANGED <<owner, stored, token, page, pending, calls, past>>

Age(t) ==
  /\ t \in Issued \ past /\ MayExpire
  /\ past' = past \cup {t}
  /\ UNCHANGED <<owner, stored, token, page, pending, calls, lapsed>>

InTab(b) ==
  \/ \E p \in {"login", "app"} : Load(b, p) \/ Navigate(b, p)
  \/ CheckAuth(b) \/ Submit(b) \/ LoginFails(b) \/ Logout(b) \/ Send(b)
  \/ \E t \in Token : LoggedIn(b, t)
  \/ \E k \in Token \cup {None} : Answered(b, k) \/ Refused(b, k)

Next ==
  \/ \E b \in Tab : InTab(b)
  \/ \E t \in Token : Lapse(t) \/ Age(t)

Spec == Init /\ [][Next]_vars

(* The router resolves its navigations, and the browser the one to /login. *)
FairSpec ==
  /\ Spec
  /\ \A b \in Tab : WF_vars(CheckAuth(b)) /\ WF_vars(leaving[b] /\ Load(b, "login"))

-----------------------------------------------------------------------------
(* Every variable has its type.                                            *)
TypeOK ==
  /\ owner \in [Token -> Tab \cup {None}]
  /\ stored \in Issued \cup {None}
  /\ token \in [Tab -> Issued \cup {None}]
  /\ path \in [Tab -> {"blank", "login", "app"}]
  /\ goal \in [Tab -> {"none", "login", "app"}]
  /\ admitted \in [Tab -> Issued \cup {None}]
  /\ leaving \in [Tab -> BOOLEAN] /\ pending \in [Tab -> BOOLEAN]
  /\ calls \in [Tab -> SUBSET (Issued \cup {None})]
  /\ lapsed \subseteq Issued /\ past \subseteq Issued

(* A protected page without a token (its queries never run, and a create   *)
(* sends "Bearer null") is there only because checkAuth let it in with the *)
(* login of another tab: one tab, through any logins, logouts, expiries    *)
(* and late refusals, keeps its two copies in step.                        *)
TokenlessPagesAreForeign ==
  \A b \in Tab :
    (Settled(b) /\ path[b] = "app" /\ token[b] = None) =>
      (admitted[b] \in Token /\ owner[admitted[b]] # b)

(* The runs of checkAuth a navigation still takes: a redirect and the      *)
(* arrival at /login, or the arrival only.                                 *)
Redirected(p) == stored \in past \/ (stored = None /\ p # "login")
ChecksLeft(b) ==
  CASE goal[b] = "none" -> 0
    [] goal[b] # "none" /\ Redirected(goal[b]) -> 2
    [] OTHER -> 1

(* Redirects run down: each checkAuth brings its tab's navigation nearer   *)
(* to its end, and what it removes from the storage sends no other tab,    *)
(* under way itself, round once more.                                      *)
RedirectsRunDown ==
  [][\A b \in Tab : CheckAuth(b) =>
       /\ ChecksLeft(b)' < ChecksLeft(b)
       /\ \A c \in Tab : ChecksLeft(c)' <= ChecksLeft(c)
    ]_vars

(* Every navigation settles: no redirect leads back to itself, and a page  *)
(* that was left for /login arrives there.                                 *)
NavigationsSettle ==
  \A b \in Tab : []<>Settled(b)

=============================================================================
