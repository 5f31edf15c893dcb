-------------------------- MODULE DashboardProofs --------------------------
(***************************************************************************)
(* SessionIsOnePerson and ShownIsOwn, for any users, hotels and rows, and  *)
(* for any number of answers asked for.  Both rest on OneSession: a        *)
(* bootstrap works with one person's tokens, and nobody is signed in and   *)
(* no page is mounted meanwhile.                                           *)
(*                                                                         *)
(* HandledIsGone rests on HandledInv: the failures page waits for one      *)
(* answer at a time, and what it was told is handled is not open any more, *)
(* so neither that answer nor the rows it shows without waiting list it.   *)
(***************************************************************************)
EXTENDS Dashboard, TLAPS

Holder == User \cup {None}
Fetch  == [n : Nat, filter : Filter, token : Holder, got : (SUBSET Row) \cup {None}]
Call   == [row : Row, token : Holder, mine : BOOLEAN, answer : {"ok", "refused", None}]

TypeInv ==
  /\ stored \in [access : Holder, refresh : Holder]
  /\ user \in Holder /\ token \in Holder
  /\ boot \in [call : {"me", "refresh", "me again", None}, access : Holder, refresh : Holder]
  /\ filter \in Filter
  /\ asked \in Nat
  /\ fetches \subseteq Fetch
  /\ posts \subseteq Call

\* While a bootstrap is under way nobody is signed in and no page is mounted, and the
\* token that is stored is the one it asks with.
OneSession ==
  /\ boot.call # None => user = None /\ boot.access = token /\ boot.access # None
  /\ boot.call = None => boot = NoBoot
  /\ boot.call = "refresh" => boot.refresh # None
  /\ user # None => token = user
  /\ page # None => user # None

\* A page that has gone has taken its rows, its dialog and its interest along.
Mounted ==
  page = None =>
    fetches = {} /\ data = None /\ dialog = None /\ \A post \in posts : ~post.mine

\* What a page waits for it has asked for with its session's token, and the API has
\* read that tenant's rows.
OwnFetches ==
  /\ \A fetch \in fetches :
       fetch.token = user /\ (fetch.got # None => fetch.got \subseteq OwnRows(user))
  /\ data # None => data \subseteq OwnRows(user)

IInv == TypeInv /\ OneSession /\ Mounted /\ OwnFetches

\* What the storage and the bootstrap hold when they hold nothing.
LEMMA NoTokensType == NoTokens \in [access : Holder, refresh : Holder]
  BY DEF NoTokens, Holder

\* The same for a bootstrap that is over.
LEMMA NoBootType ==
  /\ NoBoot \in [call : {"me", "refresh", "me again", None}, access : Holder, refresh : Holder]
  /\ NoBoot.call = None
  BY DEF NoBoot, Holder

\* The initial state satisfies the invariant.
LEMMA InitIInv == Init => IInv
  <1> SUFFICES ASSUME Init PROVE IInv
    OBVIOUS
  <1>1. TypeInv
    BY NoTokensType, NoBootType DEF Init, TypeInv, Holder, Filter
  <1>2. OneSession
    BY NoneAssumption, NoBootType DEF Init, OneSession
  <1>3. Mounted /\ OwnFetches
    BY DEF Init, Mounted, OwnFetches
  <1> QED BY <1>1, <1>2, <1>3 DEF IInv

\* A page that is left keeps nothing, whoever is signed in afterwards.
LEMMA LeaveKeeps ==
  ASSUME TypeInv, Leave
  PROVE  /\ Mounted' /\ OwnFetches' /\ page' = None
         /\ filter' \in Filter /\ asked' \in Nat /\ fetches' \subseteq Fetch
         /\ posts' \subseteq Call
  <1>1. \A post \in posts : [post EXCEPT !.mine = FALSE] \in Call
                            /\ ~[post EXCEPT !.mine = FALSE].mine
    BY DEF TypeInv, Call
  <1>2. posts' \subseteq Call /\ \A post \in posts' : ~post.mine
    BY <1>1 DEF Leave, Unmount
  <1> QED BY <1>2 DEF Leave, Unmount, Mounted, OwnFetches, Filter

\* A page without rows to wait for or to show may belong to anybody.
LEMMA NobodysPage ==
  ASSUME Mounted, page = None, UNCHANGED <<view, posts>>
  PROVE  Mounted' /\ OwnFetches'
  BY DEF Mounted, OwnFetches, view

\* The API lists rows of the caller's tenant only.
LEMMA ListedIsOwn ==
  ASSUME NEW u, NEW p, NEW f
  PROVE  Listed(u, p, f) \subseteq OwnRows(u)
  BY DEF Listed, ListRequests, ListApprovals, ListFailures

\* Whoever is signed in and stays so asks with his own token.
LEMMA RefreshKeeps ==
  ASSUME TypeInv, OneSession, OwnFetches, user # None, user' = user,
         NEW f \in Filter, Refresh(f), data' = data
  PROVE  OwnFetches' /\ fetches' \subseteq Fetch /\ asked' \in Nat
  <1> DEFINE new == [n |-> asked + 1, filter |-> f, token |-> token, got |-> None]
  <1>0. asked \in Nat
    BY DEF TypeInv
  <1>1. new.token = user /\ new.got = None
    BY DEF OneSession
  <1>3. new \in Fetch
    <2>1. asked + 1 \in Nat
      BY <1>0
    <2>2. token \in Holder
      BY DEF TypeInv
    <2>3. None \in (SUBSET Row) \cup {None}
      OBVIOUS
    <2> QED BY <2>1, <2>2, <2>3 DEF Fetch
  <1>2. fetches' = fetches \cup {new} /\ asked' = asked + 1
    BY DEF Refresh
  <1> HIDE DEF new
  <1>4. OwnFetches'
    BY <1>1, <1>2 DEF OwnFetches, OwnRows
  <1>5. fetches' \subseteq Fetch
    BY <1>2, <1>3 DEF TypeInv
  <1>6. asked' \in Nat
    BY <1>0, <1>2
  <1> QED BY <1>4, <1>5, <1>6

\* The steps of the session.
LEMMA SessionKeeps == IInv /\ Session => IInv'
  <1> SUFFICES ASSUME IInv, Session PROVE IInv'
    OBVIOUS
  <1>0. TypeInv /\ OneSession /\ Mounted /\ OwnFetches
    BY DEF IInv
  <1>1. CASE Load
    <2>1. Mounted' /\ OwnFetches' /\ page' = None /\ filter' \in Filter /\ asked' \in Nat
          /\ fetches' \subseteq Fetch /\ posts' \subseteq Call
      BY <1>0, <1>1, LeaveKeeps DEF Load
    <2>2. TypeInv'
      BY <1>0, <1>1, <2>1 DEF Load, TypeInv, Holder, NoBoot
    <2>3. OneSession'
      BY <1>0, <1>1, <2>1, NoneAssumption DEF Load, OneSession, TypeInv, NoBoot
    <2> QED BY <2>1, <2>2, <2>3 DEF IInv
  <1>2. CASE MeAnswers \/ MeExpired \/ RefreshAnswers \/ BootFails
    <2>1. boot.call # None
      BY <1>0, <1>2, NoneAssumption DEF MeAnswers, MeExpired, RefreshAnswers, BootFails,
         IsLoading, OneSession
    <2>2. page = None /\ UNCHANGED <<view, posts>>
      BY <1>0, <1>2, <2>1 DEF MeAnswers, MeExpired, RefreshAnswers, BootFails, OneSession
    <2>3. Mounted' /\ OwnFetches' /\ page' = None
      BY <1>0, <2>2, NobodysPage DEF view
    <2>4. CASE MeAnswers
      <3>1. user' = boot.access /\ boot' = NoBoot /\ UNCHANGED <<stored, token>>
        BY <2>4 DEF MeAnswers
      <3>2. TypeInv'
        BY <1>0, <2>2, <3>1, NoBootType DEF TypeInv, view
      <3>3. OneSession'
        BY <1>0, <2>1, <2>3, <3>1, NoBootType, NoneAssumption DEF OneSession
      <3> QED BY <2>3, <3>2, <3>3 DEF IInv
    <2>5. CASE MeExpired
      <3>1. boot' = [boot EXCEPT !.call = "refresh"] /\ boot.refresh # None
            /\ UNCHANGED <<stored, user, token>>
        BY <2>5 DEF MeExpired
      <3>2. boot' \in [call : {"me", "refresh", "me again", None},
                       access : Holder, refresh : Holder]
            /\ boot'.call = "refresh" /\ boot'.access = boot.access
            /\ boot'.refresh = boot.refresh
        BY <1>0, <3>1 DEF TypeInv
      <3>3. TypeInv'
        BY <1>0, <2>2, <3>1, <3>2 DEF TypeInv, view
      <3>4. OneSession'
        BY <1>0, <2>1, <2>3, <3>1, <3>2, NoneAssumption DEF OneSession
      <3> QED BY <2>3, <3>3, <3>4 DEF IInv
    <2>6. CASE RefreshAnswers
      <3>1. boot' = [boot EXCEPT !.call = "me again", !.access = boot.refresh]
            /\ boot.refresh # None /\ token' = boot.refresh /\ user' = user
            /\ stored' = [stored EXCEPT !.access = boot.refresh]
        BY <1>0, <2>6 DEF RefreshAnswers, OneSession
      <3>2. boot' \in [call : {"me", "refresh", "me again", None},
                       access : Holder, refresh : Holder]
            /\ boot'.call = "me again" /\ boot'.access = boot.refresh
        BY <1>0, <3>1 DEF TypeInv
      <3>3. TypeInv'
        BY <1>0, <2>2, <3>1, <3>2 DEF TypeInv, view
      <3>4. OneSession'
        BY <1>0, <2>1, <2>3, <3>1, <3>2, NoneAssumption DEF OneSession
      <3> QED BY <2>3, <3>3, <3>4 DEF IInv
    <2>7. CASE BootFails
      <3>1. user' = None /\ token' = None /\ stored' = NoTokens /\ boot' = NoBoot
        BY <2>7 DEF BootFails, ClearSession
      <3>2. TypeInv'
        BY <1>0, <2>2, <3>1, NoBootType, NoTokensType DEF TypeInv, Holder, view
      <3>3. OneSession'
        BY <2>3, <3>1, NoBootType, NoneAssumption DEF OneSession
      <3> QED BY <2>3, <3>2, <3>3 DEF IInv
    <2> QED BY <1>2, <2>4, <2>5, <2>6, <2>7
  <1>3. CASE SignOut
    <2>1. Mounted' /\ OwnFetches' /\ page' = None /\ filter' \in Filter /\ asked' \in Nat
          /\ fetches' \subseteq Fetch /\ posts' \subseteq Call
      BY <1>0, <1>3, LeaveKeeps DEF SignOut
    <2>2. TypeInv'
      BY <1>0, <1>3, <2>1 DEF SignOut, ClearSession, NoTokens, TypeInv, Holder
    <2>3. OneSession'
      BY <1>3, <2>1, NoBootType, NoneAssumption DEF SignOut, ClearSession, IsLoading,
         OneSession
    <2> QED BY <2>1, <2>2, <2>3 DEF IInv
  <1>4. CASE OtherTab
    <2>1. stored' \in [access : Holder, refresh : Holder]
      <3>1. CASE stored' = NoTokens
        BY <3>1, NoTokensType
      <3>2. CASE \E u \in User : stored' = [access |-> u, refresh |-> u]
        BY <3>2 DEF Holder
      <3>3. CASE \E u \in User : stored' = [stored EXCEPT !.access = u]
        BY <1>0, <3>3 DEF TypeInv, Holder
      <3> QED BY <1>4, <3>1, <3>2, <3>3 DEF OtherTab
    <2> QED BY <1>0, <1>4, <2>1 DEF OtherTab, IInv, TypeInv, OneSession, Mounted, OwnFetches,
               OwnRows, session, view
  <1>5. ASSUME NEW u \in User, Login(u) PROVE IInv'
    <2>1. user = None /\ page = None
      BY <1>0, <1>5 DEF Login, IsAuthenticated, OneSession
    <2>2. Mounted' /\ OwnFetches'
      BY <1>0, <1>5, <2>1, NobodysPage DEF Login
    <2>3. TypeInv'
      BY <1>0, <1>5 DEF Login, TypeInv, Holder, view
    <2>4. OneSession'
      BY <1>0, <1>5, <2>1, NoBootType, NoneAssumption DEF Login, IsLoading, OneSession, view
    <2> QED BY <2>2, <2>3, <2>4 DEF IInv
  <1> QED BY <1>1, <1>2, <1>3, <1>4, <1>5 DEF Session

\* The steps of a page that is opened, left, or waits for rows.
LEMMA ViewKeeps == IInv /\ View => IInv'
  <1> SUFFICES ASSUME IInv, View PROVE IInv'
    OBVIOUS
  <1>0. TypeInv /\ OneSession /\ Mounted /\ OwnFetches
    BY DEF IInv
  <1>1. CASE OpenPage
    <2>1. user # None /\ page' # None /\ "all" \in Filter
      BY <1>1, NoneAssumption DEF OpenPage, IsAuthenticated, Page, Filter
    <2>2. OwnFetches' /\ fetches' \subseteq Fetch /\ asked' \in Nat
      BY <1>0, <1>1, <2>1, RefreshKeeps DEF OpenPage, session
    <2>3. TypeInv' /\ OneSession' /\ Mounted'
      BY <1>0, <1>1, <2>1, <2>2 DEF OpenPage, session, TypeInv, OneSession, Mounted
    <2> QED BY <2>2, <2>3 DEF IInv
  <1>2. CASE LeavePage
    <2>1. Mounted' /\ OwnFetches' /\ page' = None /\ filter' \in Filter /\ asked' \in Nat
          /\ fetches' \subseteq Fetch /\ posts' \subseteq Call
      BY <1>0, <1>2, LeaveKeeps DEF LeavePage
    <2> QED BY <1>0, <1>2, <2>1 DEF LeavePage, session, IInv, TypeInv, OneSession
  <1>3. CASE SetStatusFilter \/ RefreshHealth
    <2>1. PICK f \in Filter : Refresh(f) /\ filter' \in {filter, f}
      BY <1>3 DEF SetStatusFilter, RefreshHealth, Filter
    <2>2. page # None /\ user # None
      BY <1>0, <1>3, NoneAssumption DEF SetStatusFilter, RefreshHealth, OneSession
    <2>3. UNCHANGED <<stored, session, page, data, posts>>
      BY <1>3 DEF SetStatusFilter, RefreshHealth
    <2>4. OwnFetches' /\ fetches' \subseteq Fetch /\ asked' \in Nat
      BY <1>0, <2>1, <2>2, <2>3, RefreshKeeps DEF session
    <2> QED BY <1>0, <2>1, <2>2, <2>3, <2>4
            DEF IInv, session, TypeInv, OneSession, Mounted
  <1>4. ASSUME NEW fetch \in fetches, ListRows(fetch) PROVE IInv'
    <2> DEFINE new == [fetch EXCEPT !.got = Listed(fetch.token, page, fetch.filter)]
    <2>1. fetch \in Fetch /\ fetch.token = user
      BY <1>0 DEF TypeInv, OwnFetches
    <2>2. Listed(fetch.token, page, fetch.filter) \subseteq OwnRows(user)
      BY <2>1, ListedIsOwn
    <2>3. new \in Fetch /\ new.token = user /\ new.got \subseteq OwnRows(user)
      BY <2>1, <2>2 DEF Fetch, OwnRows
    <2>4. fetches' = (fetches \ {fetch}) \cup {new} /\ page # None
          /\ UNCHANGED <<stored, session, page, filter, asked, data, posts>>
      BY <1>0, <1>4 DEF ListRows, Mounted
    <2> HIDE DEF new
    <2> QED BY <1>0, <2>3, <2>4
            DEF IInv, session, TypeInv, OneSession, Mounted, OwnFetches, OwnRows
  <1>5. ASSUME NEW fetch \in fetches, Arrives(fetch) \/ FetchFails(fetch) PROVE IInv'
    <2>1. fetches' \subseteq fetches /\ data' \in {data, fetch.got}
          /\ (data' # data => fetch.got # None) /\ page # None
          /\ UNCHANGED <<stored, session, page, filter, asked, posts>>
      BY <1>0, <1>5 DEF Arrives, FetchFails, Settles, Mounted
    <2>2. OwnFetches'
      BY <1>0, <2>1 DEF OwnFetches, OwnRows, session
    <2> QED BY <1>0, <2>1, <2>2 DEF IInv, session, TypeInv, OneSession, Mounted
  <1> QED BY <1>1, <1>2, <1>3, <1>4, <1>5 DEF View

\* The steps of what a page does to a row.
LEMMA ActionsKeep == IInv /\ Actions => IInv'
  <1> SUFFICES ASSUME IInv, Actions PROVE IInv'
    OBVIOUS
  <1>0. TypeInv /\ OneSession /\ Mounted /\ OwnFetches
    BY DEF IInv
  <1> DEFINE Rest == UNCHANGED <<stored, session, page, filter, fetches, asked, data>>
  <1>1. CASE CancelDialog \/ RowCloses
    <2>1. Rest /\ posts' = posts /\ dialog' \in {dialog, None}
      BY <1>1 DEF CancelDialog, RowCloses, view
    <2> QED BY <1>0, <2>1
            DEF IInv, session, TypeInv, OneSession, Mounted, OwnFetches, OwnRows
  <1>2. ASSUME NEW row \in Row, Choose(row) PROVE IInv'
    <2>1. Rest /\ posts' = posts /\ page # None
      BY <1>2, NoneAssumption DEF Choose
    <2> QED BY <1>0, <2>1
            DEF IInv, session, TypeInv, OneSession, Mounted, OwnFetches, OwnRows
  <1>3. ASSUME NEW row \in Row, Confirm(row) PROVE IInv'
    <2> DEFINE new == [row |-> row, token |-> token, mine |-> TRUE, answer |-> None]
    <2>1. Rest /\ posts' = posts \cup {new} /\ page # None
      BY <1>0, <1>3 DEF Confirm, Post, Mounted
    <2>2. new \in Call
      BY <1>0 DEF Call, TypeInv
    <2> HIDE DEF new
    <2> QED BY <1>0, <2>1, <2>2
            DEF IInv, session, TypeInv, OneSession, Mounted, OwnFetches, OwnRows
  <1>4. ASSUME NEW post \in posts,
               HandleFailure(post) \/ HandleApproval(post) \/ Refuse(post)
        PROVE  IInv'
    <2>1. PICK answer \in {"ok", "refused"} : Answer(post, answer)
      BY <1>4 DEF HandleFailure, HandleApproval, Refuse
    <2> DEFINE new == [post EXCEPT !.answer = answer]
    <2>2. Rest /\ dialog' = dialog /\ posts' = (posts \ {post}) \cup {new}
      BY <1>4, <2>1 DEF HandleFailure, HandleApproval, Refuse, view, Answer
    <2>3. new \in Call /\ new.mine = post.mine
      BY <1>0 DEF Call, TypeInv
    <2> HIDE DEF new
    <2> QED BY <1>0, <2>2, <2>3
            DEF IInv, session, TypeInv, OneSession, Mounted, OwnFetches, OwnRows
  <1>5. ASSUME NEW post \in posts, Handled(post) PROVE IInv'
    <2>1. page # None /\ user # None /\ "all" \in Filter
      BY <1>0, <1>5 DEF Handled, Mounted, OneSession, Filter
    <2>2. UNCHANGED <<stored, session, page, filter, data>> /\ posts' \subseteq posts
          /\ Refresh("all")
      BY <1>5 DEF Handled
    <2>3. OwnFetches' /\ fetches' \subseteq Fetch /\ asked' \in Nat
      BY <1>0, <2>1, <2>2, RefreshKeeps DEF session
    <2> QED BY <1>0, <2>1, <2>2, <2>3 DEF IInv, session, TypeInv, OneSession, Mounted
  <1>6. ASSUME NEW post \in posts, NotHandled(post) \/ Unheard(post) PROVE IInv'
    <2>1. Rest /\ dialog' = dialog /\ posts' \subseteq posts
      BY <1>6 DEF NotHandled, Unheard, view
    <2> QED BY <1>0, <2>1
            DEF IInv, session, TypeInv, OneSession, Mounted, OwnFetches, OwnRows
  <1> QED BY <1>1, <1>2, <1>3, <1>4, <1>5, <1>6 DEF Actions

\* Every step keeps the invariant.
LEMMA NextIInv == IInv /\ [Next]_vars => IInv'
  <1>1. IInv /\ UNCHANGED vars => IInv'
    BY DEF IInv, TypeInv, OneSession, Mounted, OwnFetches, OwnRows, vars, session, view
  <1> QED BY <1>1, SessionKeeps, ViewKeeps, ActionsKeep DEF Next
-----------------------------------------------------------------------------
\* The profile a tab shows and the token it acts with are one person's, for any
\* users and any order of reloads, refreshes, sign-ins and sign-outs.
THEOREM SessionTheorem == Spec => []SessionIsOnePerson
  <1>1. IInv => SessionIsOnePerson
    BY DEF IInv, OneSession, SessionIsOnePerson
  <1> QED BY <1>1, InitIInv, NextIInv, PTL DEF Spec

\* No row of another tenant is shown to an operator, for any rows and hotels and any
\* number of answers that are late.
THEOREM ShownIsOwnHolds == Spec => []ShownIsOwn
  <1>1. IInv => ShownIsOwn
    BY DEF IInv, OwnFetches, OwnRows, ShownIsOwn
  <1> QED BY <1>1, InitIInv, NextIInv, PTL DEF Spec

-----------------------------------------------------------------------------
\* A page that has gone takes its history along as well.
Fresh == page = None => told = {} /\ acting = "none"

\* The failures page waits for one answer at a time: the one it was opened with, which
\* comes before there is anything to act on, or the one after its only call.
OneWait ==
  /\ \A f, g \in fetches : f = g
  /\ fetches # {} =>
       acting = "refresh" \/ (acting = "none" /\ dialog = None /\ data = None)
  /\ \A p, q \in posts : p.mine /\ q.mine => p = q
  /\ \A p \in posts : p.mine => acting = "post"

\* It deals with failures only.
FailuresOnly ==
  /\ dialog # None => dialog.page = "failures"
  /\ data # None => \A row \in data : row.page = "failures"
  /\ \A f \in fetches : f.got # None => \A row \in f.got : row.page = "failures"
  /\ \A p \in posts : p.mine => p.row.page = "failures"

\* What it was told is handled is not open any more, so no answer it still waits for
\* lists it, and neither do the rows it shows when it waits for none.
ToldIsClosed ==
  /\ told \cap open = {}
  /\ \A p \in posts : p.mine /\ p.answer = "ok" => p.row \notin open
  /\ \A f \in fetches : f.got # None => f.got \cap told = {}
  /\ fetches = {} /\ ~error /\ data # None => data \cap told = {}

HandledInv == Fresh /\ (page = "failures" => OneWait /\ FailuresOnly /\ ToldIsClosed)

\* The page a tab opens has nothing of an earlier page, and a page that is no failures
\* page is of no concern.
LEMMA HandledLeave == Leave => HandledInv'
  BY NoneAssumption DEF Leave, Unmount, HandledInv, Fresh

\* A step that leaves the page and its calls alone, and opens no row, keeps the invariant.
LEMMA HandledQuiet ==
  ASSUME HandledInv, UNCHANGED <<view, posts>>, open' \subseteq open
  PROVE  HandledInv'
  BY DEF HandledInv, Fresh, OneWait, FailuresOnly, ToldIsClosed, view

\* The steps of the session.
LEMMA SessionHandled == IInv /\ HandledInv /\ Session => HandledInv'
  <1> SUFFICES ASSUME IInv, HandledInv, Session PROVE HandledInv'
    OBVIOUS
  <1>1. CASE Load \/ SignOut
    BY <1>1, HandledLeave DEF Load, SignOut
  <1>2. CASE MeAnswers \/ MeExpired \/ RefreshAnswers \/ BootFails \/ OtherTab
             \/ \E u \in User : Login(u)
    <2>1. UNCHANGED <<view, posts, open>>
      BY <1>2 DEF MeAnswers, MeExpired, RefreshAnswers, BootFails, OtherTab, Login
    <2> QED BY <2>1, HandledQuiet
  <1> QED BY <1>1, <1>2 DEF Session

\* The steps of a page that is opened, left, or waits for rows.
LEMMA ViewHandled == IInv /\ HandledInv /\ View => HandledInv'
  <1> SUFFICES ASSUME IInv, HandledInv, View PROVE HandledInv'
    OBVIOUS
  <1>1. CASE OpenPage
    <2> DEFINE new == [n |-> asked + 1, filter |-> "all", token |-> token, got |-> None]
    <2>1. /\ page = None /\ page' \in Page /\ data' = data /\ dialog' = dialog
          /\ acting' = acting /\ told' = told /\ posts' = posts /\ open' = open
          /\ fetches' = fetches \cup {new}
      BY <1>1 DEF OpenPage, Refresh
    <2>2. /\ fetches = {} /\ data = None /\ dialog = None /\ told = {} /\ acting = "none"
          /\ \A post \in posts : ~post.mine
      BY <2>1 DEF IInv, Mounted, HandledInv, Fresh
    <2>3. new.got = None
      OBVIOUS
    <2> HIDE DEF new
    <2>4. Fresh'
      BY <2>1, NoneAssumption DEF Fresh, Page
    <2>5. OneWait' /\ FailuresOnly' /\ ToldIsClosed'
      BY <2>1, <2>2, <2>3 DEF OneWait, FailuresOnly, ToldIsClosed
    <2> QED BY <2>4, <2>5 DEF HandledInv
  <1>2. CASE LeavePage
    BY <1>2, HandledLeave DEF LeavePage
  <1>3. CASE SetStatusFilter \/ RefreshHealth
    <2>1. page' = page /\ page \in {"requests", "health"}
      BY <1>3 DEF SetStatusFilter, RefreshHealth
    <2> QED BY <2>1, NoneAssumption DEF HandledInv, Fresh
  <1>4. ASSUME NEW fetch \in fetches, ListRows(fetch) PROVE HandledInv'
    <2> DEFINE new == [fetch EXCEPT !.got = Listed(fetch.token, page, fetch.filter)]
    <2>1. /\ fetches' = (fetches \ {fetch}) \cup {new} /\ page # None
          /\ UNCHANGED <<page, data, error, dialog, acting, told, posts, open>>
      BY <1>4 DEF ListRows, IInv, Mounted
    <2>2. Fresh'
      BY <2>1 DEF Fresh
    <2>3. ASSUME page = "failures" PROVE OneWait' /\ FailuresOnly' /\ ToldIsClosed'
      <3>1. OneWait /\ FailuresOnly /\ ToldIsClosed
        BY <2>3 DEF HandledInv
      <3>2. Listed(fetch.token, page, fetch.filter) = ListFailures(fetch.token)
        BY <2>3 DEF Listed
      <3>3. new.got = ListFailures(fetch.token)
        <4>1. fetch \in Fetch
          BY DEF IInv, TypeInv
        <4> QED BY <3>2, <4>1 DEF Fetch
      <3>4. new.got \subseteq open /\ \A row \in new.got : row.page = "failures"
        BY <3>3 DEF ListFailures
      <3> HIDE DEF new
      <3>5. fetches' = {new} /\ fetches # {}
        BY <2>1, <3>1 DEF OneWait
      <3>6. OneWait'
        BY <2>1, <3>1, <3>5 DEF OneWait
      <3>7. FailuresOnly'
        BY <2>1, <3>1, <3>4, <3>5 DEF FailuresOnly
      <3>8. ToldIsClosed'
        BY <2>1, <3>1, <3>4, <3>5 DEF ToldIsClosed
      <3> QED BY <3>6, <3>7, <3>8
    <2> QED BY <2>1, <2>2, <2>3 DEF HandledInv
  <1>5. ASSUME NEW fetch \in fetches, Arrives(fetch) \/ FetchFails(fetch) PROVE HandledInv'
    <2>1. /\ \/ fetch.got # None /\ data' = fetch.got /\ error' = error
             \/ data' = data /\ error' = TRUE
          /\ fetches' = fetches \ {fetch} /\ page # None
          /\ acting' = IF acting = "refresh" THEN "none" ELSE acting
          /\ UNCHANGED <<page, dialog, told, posts, open>>
      BY <1>5 DEF Arrives, FetchFails, Settles, IInv, Mounted
    <2>2. Fresh'
      BY <2>1 DEF Fresh
    <2>3. ASSUME page = "failures" PROVE OneWait' /\ FailuresOnly' /\ ToldIsClosed'
      <3>1. OneWait /\ FailuresOnly /\ ToldIsClosed
        BY <2>3 DEF HandledInv
      <3>2. fetches' = {}
        BY <2>1, <3>1 DEF OneWait
      <3>3. OneWait'
        BY <2>1, <3>1, <3>2 DEF OneWait
      <3>4. FailuresOnly'
        BY <2>1, <3>1, <3>2 DEF FailuresOnly
      <3>5. ToldIsClosed'
        BY <2>1, <3>1, <3>2 DEF ToldIsClosed
      <3> QED BY <3>3, <3>4, <3>5
    <2> QED BY <2>1, <2>2, <2>3 DEF HandledInv
  <1> QED BY <1>1, <1>2, <1>3, <1>4, <1>5 DEF View

\* The steps of what a page does to a row.
LEMMA ActionsHandled == IInv /\ HandledInv /\ Actions => HandledInv'
  <1> SUFFICES ASSUME IInv, HandledInv, Actions PROVE HandledInv'
    OBVIOUS
  <1>0. page = "failures" => OneWait /\ FailuresOnly /\ ToldIsClosed
    BY DEF HandledInv
  <1>1. CASE CancelDialog
    BY <1>1 DEF CancelDialog, HandledInv, Fresh, OneWait, FailuresOnly, ToldIsClosed
  <1>2. CASE RowCloses
    BY <1>2, HandledQuiet DEF RowCloses
  <1>3. ASSUME NEW row \in Row, Choose(row) PROVE HandledInv'
    <2>1. /\ data # None /\ row \in data /\ dialog' = row /\ page # None
          /\ UNCHANGED <<page, fetches, data, error, acting, told, posts, open>>
      BY <1>3, NoneAssumption DEF Choose, IsShown
    <2> QED BY <1>0, <2>1 DEF HandledInv, Fresh, OneWait, FailuresOnly, ToldIsClosed
  <1>4. ASSUME NEW row \in Row, Confirm(row) PROVE HandledInv'
    <2> DEFINE new == [row |-> row, token |-> token, mine |-> TRUE, answer |-> None]
    <2>1. /\ acting = "none" /\ dialog # None /\ row = dialog /\ page # None
          /\ acting' = "post" /\ posts' = posts \cup {new}
          /\ UNCHANGED <<page, fetches, data, error, dialog, told, open>>
      BY <1>4 DEF Confirm, Post, IInv, Mounted
    <2>2. new.row = row /\ new.mine /\ new.answer # "ok"
      BY NoneAssumption
    <2> HIDE DEF new
    <2>3. ASSUME page = "failures" PROVE OneWait' /\ FailuresOnly' /\ ToldIsClosed'
      <3>1. OneWait'
        BY <1>0, <2>1, <2>2, <2>3 DEF OneWait
      <3>2. FailuresOnly'
        BY <1>0, <2>1, <2>2, <2>3 DEF FailuresOnly
      <3>3. ToldIsClosed'
        BY <1>0, <2>1, <2>2, <2>3 DEF ToldIsClosed
      <3> QED BY <3>1, <3>2, <3>3
    <2> QED BY <2>1, <2>3 DEF HandledInv, Fresh
  <1>5. ASSUME NEW post \in posts,
               HandleFailure(post) \/ HandleApproval(post) \/ Refuse(post)
        PROVE  HandledInv'
    <2>1. PICK answer \in {"ok", "refused"} :
            /\ Answer(post, answer)
            /\ open' \subseteq open /\ UNCHANGED view
            /\ answer = "ok" => post.row.page = "approvals" \/ post.row \notin open'
      <3>1. CASE HandleFailure(post)
        BY <3>1 DEF HandleFailure
      <3>2. CASE HandleApproval(post)
        BY <3>2 DEF HandleApproval
      <3>3. CASE Refuse(post)
        BY <3>3 DEF Refuse
      <3> QED BY <1>5, <3>1, <3>2, <3>3
    <2> DEFINE new == [post EXCEPT !.answer = answer]
    <2>2. new.mine = post.mine /\ new.row = post.row /\ new.answer = answer
      <3>1. post \in Call
        BY DEF IInv, TypeInv
      <3> QED BY <3>1 DEF Call
    <2>3. posts' = (posts \ {post}) \cup {new}
      BY <2>1 DEF Answer
    <2> HIDE DEF new
    <2>4. ASSUME page = "failures" PROVE OneWait' /\ FailuresOnly' /\ ToldIsClosed'
      <3>1. OneWait'
        BY <1>0, <2>1, <2>2, <2>3, <2>4 DEF OneWait, view
      <3>2. FailuresOnly'
        BY <1>0, <2>1, <2>2, <2>3, <2>4 DEF FailuresOnly, view
      <3>3. new.mine /\ new.answer = "ok" => new.row \notin open'
        BY <1>0, <2>1, <2>2, <2>4 DEF FailuresOnly
      <3>4. ToldIsClosed'
        BY <1>0, <2>1, <2>3, <2>4, <3>3 DEF ToldIsClosed, view
      <3> QED BY <3>1, <3>2, <3>4
    <2> QED BY <2>1, <2>4 DEF HandledInv, Fresh, view
  <1>6. ASSUME NEW post \in posts, Handled(post) PROVE HandledInv'
    <2> DEFINE new == [n |-> asked + 1, filter |-> "all", token |-> token, got |-> None]
    <2>1. /\ post.answer = "ok" /\ post.mine /\ posts' = posts \ {post} /\ page # None
          /\ told' = told \cup {post.row} /\ dialog' = None /\ acting' = "refresh"
          /\ fetches' = fetches \cup {new}
          /\ UNCHANGED <<page, data, open>>
      BY <1>6 DEF Handled, Refresh, IInv, Mounted
    <2>2. new.got = None
      OBVIOUS
    <2> HIDE DEF new
    <2>3. ASSUME page = "failures" PROVE OneWait' /\ FailuresOnly' /\ ToldIsClosed'
      <3>1. acting = "post" /\ fetches = {}
        BY <1>0, <2>1, <2>3 DEF OneWait
      <3>2. OneWait'
        BY <1>0, <2>1, <2>3, <3>1 DEF OneWait
      <3>3. FailuresOnly'
        BY <1>0, <2>1, <2>2, <2>3, <3>1 DEF FailuresOnly
      <3>4. ToldIsClosed'
        BY <1>0, <2>1, <2>2, <2>3, <3>1 DEF ToldIsClosed
      <3> QED BY <3>2, <3>3, <3>4
    <2> QED BY <2>1, <2>3 DEF HandledInv, Fresh
  <1>7. ASSUME NEW post \in posts, NotHandled(post) PROVE HandledInv'
    <2>1. /\ post.mine /\ posts' = posts \ {post} /\ acting' = "none" /\ page # None
          /\ UNCHANGED <<page, fetches, data, error, dialog, told, open>>
      BY <1>7 DEF NotHandled, IInv, Mounted
    <2>2. ASSUME page = "failures" PROVE OneWait' /\ FailuresOnly' /\ ToldIsClosed'
      <3>1. acting = "post" /\ fetches = {}
        BY <1>0, <2>1, <2>2 DEF OneWait
      <3> QED BY <1>0, <2>1, <2>2, <3>1 DEF OneWait, FailuresOnly, ToldIsClosed
    <2> QED BY <2>1, <2>2 DEF HandledInv, Fresh
  <1>8. ASSUME NEW post \in posts, Unheard(post) PROVE HandledInv'
    BY <1>8 DEF Unheard, HandledInv, Fresh, OneWait, FailuresOnly, ToldIsClosed, view
  <1> QED BY <1>1, <1>2, <1>3, <1>4, <1>5, <1>6, <1>7, <1>8 DEF Actions

\* Of several answers the failures page shows the last, and that one knows what the page
\* was told: for any rows, any number of operators, and answers that fail or are late.
THEOREM HandledIsGoneHolds == Spec => []HandledIsGone
  <1>1. Init => HandledInv
    BY NoneAssumption DEF Init, HandledInv, Fresh
  <1>2. IInv /\ HandledInv /\ [Next]_vars => HandledInv'
    <2>1. HandledInv /\ UNCHANGED vars => HandledInv'
      BY HandledQuiet DEF vars
    <2> QED BY <2>1, SessionHandled, ViewHandled, ActionsHandled DEF Next
  <1>3. HandledInv => HandledIsGone
    BY DEF HandledInv, ToldIsClosed, HandledIsGone
  <1> QED BY <1>1, <1>2, <1>3, InitIInv, NextIInv, PTL DEF Spec
=============================================================================
