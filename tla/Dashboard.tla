----------------------------- MODULE Dashboard -----------------------------
(***************************************************************************)
(* The operators' dashboard: one browser tab with its session and the page *)
(* it has mounted, the tokens in the storage it shares with other tabs,    *)
(* and the API behind it.                                                  *)
(*                                                                         *)
(* Every page asks for its rows with useAsyncData when it is mounted and   *)
(* after it has changed something.  The event stream it opens as well is   *)
(* refused, for its guard wants a header an EventSource cannot send, so    *)
(* nothing else refreshes a page.  The API reads the rows at some moment,  *)
(* and answers arrive in any order.                                        *)
(*                                                                         *)
(* Of a token the model keeps whose it is.  It may have expired whenever   *)
(* it is used.                                                             *)
(***************************************************************************)
EXTENDS Naturals, FiniteSets

CONSTANTS
  User, Tenant,
  TenantOf,    \* the tenant of each user, None for a SYSTEM_ADMIN
  Operator,    \* users whose role may resolve approvals and failures
  Row,         \* records page, tenant, id: what the pages list
  MaxAsked,    \* bound: answers a mounted page asks for
  MaxPosts,    \* bound: calls that act on rows at the same time
  None

ASSUME UserAssumption ==
  TenantOf \in [User -> Tenant \cup {None}] /\ Operator \subseteq User
ASSUME RowAssumption == \A row \in Row :
  row.tenant \in Tenant /\ row.page \in {"requests", "approvals", "failures"}
ASSUME BoundAssumption == MaxAsked \in Nat /\ MaxPosts \in Nat
ASSUME NoneAssumption == None \notin Tenant \cup
  {"requests", "approvals", "failures", "health", "me", "refresh", "me again",
   "ok", "refused"}

VARIABLES
  stored,        \* localStorage: whose access and whose refresh token
  user, token,   \* AuthProvider: the profile and the access token
  boot,          \* its bootstrap: the call it waits for, and the tokens it has read
  page, filter,  \* what is mounted, and the status the requests page filters by
  fetches,       \* calls for rows that have not been answered
  asked,         \* how many the page has made
  data, error,   \* useAsyncData: the rows of the last answer; whether an error shows
  dialog,        \* the row the confirmation dialog is about
  acting,        \* the page's own call: "none", "post", or "refresh" after it
  posts,         \* calls that act on a row; mine while their page is mounted
  told,          \* history: rows this page was told are handled
  open           \* rows that are PENDING or OPEN

session == <<user, token, boot>>
view    == <<page, filter, fetches, asked, data, error, dialog, acting, told>>
vars == <<stored, session, view, posts, open>>

Page == {"requests", "approvals", "failures", "health"}
Filter == {"all", "open"}
NoTokens == [access |-> None, refresh |-> None]
NoBoot == [call |-> None, access |-> None, refresh |-> None]

IsLoading == boot # NoBoot
IsAuthenticated == user # None /\ token # None

Init ==
  /\ stored = NoTokens
  /\ user = None /\ token = None /\ boot = NoBoot
  /\ page = None /\ filter = "all" /\ fetches = {} /\ asked = 0
  /\ data = None /\ error = FALSE /\ dialog = None /\ acting = "none" /\ told = {}
  /\ posts = {} /\ open = Row
-----------------------------------------------------------------------------
(***************************************************************************)
(* Pages come and go.  A page that is left takes its state along; what it  *)
(* has asked for is answered to nobody, what it has told the API to do is  *)
(* done all the same.                                                      *)
(***************************************************************************)
\* Faulty: the answers a page waits for go to the next page.
UnmountKeepsFetches ==
  /\ posts' = {[post EXCEPT !.mine = FALSE] : post \in posts}
  /\ data' = None /\ error' = FALSE /\ dialog' = None /\ acting' = "none" /\ told' = {}
  /\ UNCHANGED <<fetches, asked>>

Unmount ==
  /\ posts' = {[post EXCEPT !.mine = FALSE] : post \in posts}
  /\ data' = None /\ error' = FALSE /\ dialog' = None /\ acting' = "none" /\ told' = {}
  /\ fetches' = {} /\ asked' = 0

Leave == Unmount /\ page' = None /\ filter' = "all"

\* The operator goes to a page that lists nothing.
LeavePage ==
  /\ page # None
  /\ Leave
  /\ UNCHANGED <<stored, session, open>>

\* refresh: the error is taken away, the rows stay until there are others.
Refresh(f) ==
  /\ asked < MaxAsked
  /\ fetches' = fetches \cup {[n |-> asked + 1, filter |-> f, token |-> token, got |-> None]}
  /\ asked' = asked + 1
  /\ error' = FALSE

\* AuthGuard lets in who is signed in; the page asks for its rows at once.
OpenPage ==
  /\ IsAuthenticated /\ ~IsLoading
  /\ page = None
  /\ page' \in Page
  /\ Refresh("all")
  /\ UNCHANGED <<stored, session, filter, data, dialog, acting, told, posts, open>>
-----------------------------------------------------------------------------
(***************************************************************************)
(* The session: AuthProvider, the login page and the API's AuthService.    *)
(***************************************************************************)
\* The tab is opened or reloaded: bootstrap reads the storage.
Load ==
  /\ Leave
  /\ user' = None /\ token' = stored.access
  /\ boot' = IF stored.access = None THEN NoBoot
             ELSE [call |-> "me", access |-> stored.access, refresh |-> stored.refresh]
  /\ UNCHANGED <<stored, open>>

\* api.me answers with the profile of the token it was asked with.
MeAnswers ==
  /\ boot.call \in {"me", "me again"}
  /\ user' = boot.access
  /\ boot' = NoBoot
  /\ UNCHANGED <<stored, token, view, posts, open>>

\* 401 with a refresh token at hand.
MeExpired ==
  /\ boot.call = "me"
  /\ boot.refresh # None
  /\ boot' = [boot EXCEPT !.call = "refresh"]
  /\ UNCHANGED <<stored, user, token, view, posts, open>>

\* The refresh token that comes along is not kept.
RefreshAnswers ==
  /\ boot.call = "refresh"
  /\ token' = boot.refresh
  /\ stored' = [stored EXCEPT !.access = boot.refresh]
  /\ boot' = [boot EXCEPT !.call = "me again", !.access = boot.refresh]
  /\ UNCHANGED <<user, view, posts, open>>

ClearSession ==
  /\ user' = None /\ token' = None /\ stored' = NoTokens

\* Anything else: another status, no connection, a refresh token that has expired.
BootFails ==
  /\ IsLoading
  /\ ClearSession
  /\ boot' = NoBoot
  /\ UNCHANGED <<view, posts, open>>

\* Faulty: the login page does not wait for the bootstrap.
LoginEarly(u) ==
  /\ ~IsAuthenticated
  /\ user' = u /\ token' = u /\ stored' = [access |-> u, refresh |-> u]
  /\ UNCHANGED <<boot, view, posts, open>>

Login(u) ==
  /\ ~IsLoading /\ ~IsAuthenticated
  /\ user' = u /\ token' = u /\ stored' = [access |-> u, refresh |-> u]
  /\ UNCHANGED <<boot, view, posts, open>>

\* logout, on any page.
SignOut ==
  /\ IsAuthenticated /\ ~IsLoading
  /\ ClearSession
  /\ Leave
  /\ UNCHANGED <<boot, open>>

\* Another tab signs in or out, or its bootstrap refreshes what it had read.  The
\* storage is read when the tab is loaded and only then, so it is enough to let this
\* happen while no page is mounted.
OtherTab ==
  /\ page = None
  /\ \/ \E u \in User : stored' \in {[access |-> u, refresh |-> u], [stored EXCEPT !.access = u]}
     \/ stored' = NoTokens
  /\ UNCHANGED <<session, view, posts, open>>
-----------------------------------------------------------------------------
(***************************************************************************)
(* The rows of a page.                                                     *)
(***************************************************************************)
\* TenantGuard: a caller's tenant is the one in his token.  A SYSTEM_ADMIN has none
\* and the dashboard names none for him: the services then look at every tenant.
OwnRows(u) == {row \in Row : TenantOf[u] \in {None, row.tenant}}

ListRequests(u, f) ==
  {row \in OwnRows(u) : row.page = "requests" /\ (f = "open" => row \in open)}

\* The approvals page asks for what is PENDING, the failures page for what is OPEN.
ListApprovals(u) == {row \in OwnRows(u) : row.page = "approvals" /\ row \in open}
ListFailures(u)  == {row \in OwnRows(u) : row.page = "failures" /\ row \in open}

Listed(u, p, f) ==
  CASE p = "requests"  -> ListRequests(u, f)
    [] p = "approvals" -> ListApprovals(u)
    [] p = "failures"  -> ListFailures(u)
    [] OTHER           -> {}

\* The API reads the rows.
ListRows(fetch) ==
  /\ fetch.got = None
  /\ fetches' = (fetches \ {fetch}) \cup
       {[fetch EXCEPT !.got = Listed(fetch.token, page, fetch.filter)]}
  /\ UNCHANGED <<stored, session, page, filter, asked, data, error, dialog, acting,
                 told, posts, open>>

Settles(fetch) ==
  /\ fetches' = fetches \ {fetch}
  /\ acting' = IF acting = "refresh" THEN "none" ELSE acting
  /\ UNCHANGED <<stored, session, page, filter, asked, dialog, told, posts, open>>

\* Whichever answer arrives last is shown.
Arrives(fetch) ==
  /\ fetch.got # None
  /\ data' = fetch.got
  /\ Settles(fetch)
  /\ UNCHANGED error

\* An expired token, or no connection.
FetchFails(fetch) ==
  /\ error' = TRUE
  /\ Settles(fetch)
  /\ UNCHANGED data

\* The status buttons of the requests page.
SetStatusFilter ==
  /\ page = "requests"
  /\ \E f \in Filter \ {filter} : filter' = f /\ Refresh(f)
  /\ UNCHANGED <<stored, session, page, data, dialog, acting, told, posts, open>>

\* The button of the health page.
RefreshHealth ==
  /\ page = "health"
  /\ Refresh("all")
  /\ UNCHANGED <<stored, session, page, filter, data, dialog, acting, told, posts, open>>
-----------------------------------------------------------------------------
(***************************************************************************)
(* Resolving an approval, requeueing or resolving a failure.               *)
(***************************************************************************)
IsShown(row) == data # None /\ ~error /\ row \in data

\* A button of a row, where its page has them.
Choose(row) ==
  /\ page \in {"approvals", "failures"} /\ dialog = None
  /\ IsShown(row)
  /\ dialog' = row
  /\ UNCHANGED <<stored, session, page, filter, fetches, asked, data, error,
                 acting, told, posts, open>>

\* Also by Escape, while the call is under way.
CancelDialog ==
  /\ dialog # None
  /\ dialog' = None
  /\ UNCHANGED <<stored, session, page, filter, fetches, asked, data, error,
                 acting, told, posts, open>>

Post(row) ==
  /\ dialog # None /\ row = dialog
  /\ acting' = "post"
  /\ posts' = posts \cup {[row |-> row, token |-> token, mine |-> TRUE, answer |-> None]}
  /\ UNCHANGED <<stored, session, page, filter, fetches, asked, data, error,
                 dialog, told, open>>

\* Bound: calls that have not been answered, those of pages left included.
Room == Cardinality(posts) < MaxPosts

\* Faulty: the button does not wait for the rows to be there again.
ConfirmAgain(row) == acting # "post" /\ Room /\ Post(row)

\* The button is disabled from its click until the rows are there again.
Confirm(row) == acting = "none" /\ Room /\ Post(row)

Answer(post, answer) ==
  posts' = (posts \ {post}) \cup {[post EXCEPT !.answer = answer]}

\* FailureService: any item the caller may see, whatever its status.
HandleFailure(post) ==
  /\ post.answer = None /\ post.row.page = "failures"
  /\ post.token \in Operator
  /\ post.row \in OwnRows(post.token)
  /\ open' = open \ {post.row}
  /\ Answer(post, "ok")
  /\ UNCHANGED <<stored, session, view>>

\* ApprovalService signals the workflow, which resolves the row when it gets to it.
HandleApproval(post) ==
  /\ post.answer = None /\ post.row.page = "approvals"
  /\ post.token \in Operator
  /\ post.row \in OwnRows(post.token)
  /\ post.row \in open
  /\ Answer(post, "ok")
  /\ UNCHANGED <<stored, session, view, open>>

\* An expired token, a role that may not, a row that is not pending any more.
Refuse(post) ==
  /\ post.answer = None
  /\ Answer(post, "refused")
  /\ UNCHANGED <<stored, session, view, open>>

\* The page hears of it: the dialog closes, whatever row it is about by now, and
\* the rows are asked for again.
Handled(post) ==
  /\ post.answer = "ok" /\ post.mine
  /\ posts' = posts \ {post}
  /\ told' = told \cup {post.row} /\ dialog' = None
  /\ acting' = "refresh"
  /\ Refresh("all")
  /\ UNCHANGED <<stored, session, page, filter, data, open>>

\* An alert, and the dialog stays; the same when a good answer is lost.
NotHandled(post) ==
  /\ post.answer # None /\ post.mine
  /\ posts' = posts \ {post}
  /\ acting' = "none"
  /\ UNCHANGED <<stored, session, page, filter, fetches, asked, data, error,
                 dialog, told, open>>

\* Its page has gone.
Unheard(post) ==
  /\ post.answer # None /\ ~post.mine
  /\ posts' = posts \ {post}
  /\ UNCHANGED <<stored, session, view, open>>

\* A workflow goes on, or another operator acts.
RowCloses ==
  /\ \E row \in open : open' = open \ {row}
  /\ UNCHANGED <<stored, session, view, posts>>
-----------------------------------------------------------------------------
Session ==
  \/ Load \/ MeAnswers \/ MeExpired \/ RefreshAnswers \/ BootFails
  \/ SignOut \/ OtherTab
  \/ \E u \in User : Login(u)

View ==
  \/ OpenPage \/ LeavePage \/ SetStatusFilter \/ RefreshHealth
  \/ \E fetch \in fetches : ListRows(fetch) \/ Arrives(fetch) \/ FetchFails(fetch)

Actions ==
  \/ CancelDialog \/ RowCloses
  \/ \E row \in Row : Choose(row) \/ Confirm(row)
  \/ \E post \in posts : HandleFailure(post) \/ HandleApproval(post) \/ Refuse(post)
                         \/ Handled(post) \/ NotHandled(post) \/ Unheard(post)

Next == Session \/ View \/ Actions

Spec == Init /\ [][Next]_vars
-----------------------------------------------------------------------------
\* The profile a tab shows and the token it acts with are the same person's, though
\* a reload, an expired token and other tabs that sign in and out come together.
SessionIsOnePerson ==
  user # None /\ token # None => token = user

\* Who belongs to a tenant is shown no row of another: no answer that was asked for in
\* the session of the user before him, who may have been a SYSTEM_ADMIN, reaches his
\* page.  Of a SYSTEM_ADMIN himself it says nothing, for the API lists him the rows of
\* every tenant, although docs/architecture.md:62 has all queries scoped by tenant.
ShownIsOwn ==
  user # None /\ data # None => \A row \in data : TenantOf[user] \in {None, row.tenant}

\* Once the failures page has come to rest, none of the failures is left on it that
\* the page was told are handled: no older list has arrived after a newer one.  (Not
\* so on the approvals page, which asks before the workflow has resolved the row.)
HandledIsGone ==
  page = "failures" /\ fetches = {} /\ acting = "none" /\ ~error /\ data # None =>
    data \cap told = {}
=============================================================================
