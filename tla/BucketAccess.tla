---------------------------- MODULE BucketAccess ----------------------------
(***************************************************************************)
(* One browser that opens buckets: the page that asks for a token          *)
(* (/bucketAccess) and the one that shows a bucket (/admin/bucket), in     *)
(* several tabs that share a cookie; the session behind the cookie, which  *)
(* is all that says which bucket is open; and the buckets.                 *)
(*                                                                         *)
(* Each page has a provider of its own: it knows nothing when it comes up, *)
(* asks whether a bucket is open, and goes to the other page when it is    *)
(* the wrong one.  A request loads the session when it comes in, and       *)
(* writes it when it ends if it has changed it (express-session).          *)
(*                                                                         *)
(* What the page of the bucket does with its files is in BucketPage.       *)
(***************************************************************************)
EXTENDS Integers, FiniteSets

CONSTANTS
  Tabs, Buckets,
  Nothing,       \* no bucket, no session
  Lost,          \* a session that is not in the store
  SendsCookies,  \* whether fetch sends cookies unasked: pages and API are of one origin
  MaxActs,       \* bound: what the user begins
  MaxMishaps,    \* bound: faults
  MaxForeign     \* bound: deletions by other clients

ASSUME AccessAssumption ==
  /\ Nothing \notin Buckets \cup Tabs /\ Lost \notin Buckets \cup {Nothing}
  /\ SendsCookies \in BOOLEAN
  /\ MaxActs \in Nat /\ MaxMishaps \in Nat /\ MaxForeign \in Nat

VARIABLES
  bucket,    \* the table: not made yet, there, gone
  mine,      \* the bucket with the IP of this browser
  store,     \* the sessions in Redis, by the tab that made them
  cookie,    \* the session of this browser
  path, auth, shown,   \* of each tab: its page, isAuthenticated, bucketData
  own,       \* of each tab: the request the page makes by itself
  act,       \* of each tab: the handler the user has begun
  acts, mishaps, foreign,
  crossed    \* history: handlers of two tabs have overlapped

stored == <<bucket, mine, store>>
pages  == <<path, auth, shown, own>>
bounds == <<acts, mishaps, foreign>>
accessVars == <<stored, cookie, pages, act, bounds, crossed>>

Sids  == Tabs
NoOwn == [op |-> "none", pc |-> "idle", got |-> Nothing]
NoAct == [op |-> "none", pc |-> "idle", b |-> Nothing, sid |-> Nothing, had |-> Nothing]

AccessTypeOK ==
  /\ bucket \in [Buckets -> {"unmade", "there", "gone"}]
  /\ mine \in Buckets \cup {Nothing} /\ (mine # Nothing => bucket[mine] = "there")
  /\ store \in [Sids -> Buckets \cup {Nothing, Lost}] /\ cookie \in Sids \cup {Nothing}
  /\ path \in [Tabs -> {"away", "access", "bucket"}]
  /\ auth \in [Tabs -> {"unknown", "yes", "no"}]
  /\ shown \in [Tabs -> Buckets \cup {Nothing}]
  /\ own \in [Tabs -> [op : {"none", "check", "fetch"}, pc : {"idle", "sent", "answered"},
                       got : Buckets \cup {Nothing}]]
  /\ act \in [Tabs -> [op : {"none", "submit", "create", "delete", "close"},
                       pc : {"idle", "sent", "found", "ok", "refused"},
                       b : Buckets \cup {Nothing}, sid : Sids \cup {Nothing},
                       had : Buckets \cup {Nothing}]]
  /\ acts \in 0..MaxActs /\ mishaps \in 0..MaxMishaps /\ foreign \in 0..MaxForeign
  /\ crossed \in BOOLEAN
  \* a page shows a bucket only when it is the page for it, and knows that one is open
  /\ \A t \in Tabs : shown[t] # Nothing => path[t] = "bucket" /\ auth[t] = "yes"
  /\ \A t \in Tabs : path[t] = "bucket" /\ auth[t] = "unknown" => own[t].op = "check"

There == {b \in Buckets : bucket[b] = "there"}
Made  == {b \in Buckets : bucket[b] # "unmade"}

\* getSessionToken, of what is in the store for the cookie now
SessionToken == IF cookie = Nothing \/ store[cookie] = Lost THEN Nothing ELSE store[cookie]

AccessInit ==
  /\ bucket \in [Buckets -> {"unmade", "there"}]
  /\ mine \in There \cup {Nothing}
  /\ store = [s \in Sids |-> Lost] /\ cookie = Nothing
  /\ path = [t \in Tabs |-> "away"] /\ auth = [t \in Tabs |-> "unknown"]
  /\ shown = [t \in Tabs |-> Nothing]
  /\ own = [t \in Tabs |-> NoOwn] /\ act = [t \in Tabs |-> NoAct]
  /\ acts = 0 /\ mishaps = 0 /\ foreign = 0 /\ crossed = FALSE

-----------------------------------------------------------------------------
(* The pages.                                                               *)

Check == [op |-> "check", pc |-> "sent", got |-> Nothing]
FetchBucket == [op |-> "fetch", pc |-> "sent", got |-> Nothing]

\* Another page comes up in a tab, with a provider of its own, and asks at once;
\* what the one before waits for changes nothing any more.
Arrive_Keeps(t, p) ==
  /\ path' = [path EXCEPT ![t] = p]
  /\ auth' = [auth EXCEPT ![t] = "unknown"]
  /\ own' = [own EXCEPT ![t] = IF p = "away" THEN NoOwn ELSE Check]
  /\ UNCHANGED shown
Arrive(t, p) ==
  /\ path' = [path EXCEPT ![t] = p]
  /\ auth' = [auth EXCEPT ![t] = "unknown"]
  /\ shown' = [shown EXCEPT ![t] = Nothing]
  /\ own' = [own EXCEPT ![t] = IF p = "away" THEN NoOwn ELSE Check]

BeginAct(t, a) ==
  /\ act[t].pc = "idle" /\ acts < MaxActs /\ acts' = acts + 1
  /\ act' = [act EXCEPT ![t] = a]
  /\ crossed' = (crossed \/ \E u \in Tabs \ {t} : act[u].pc # "idle")
  /\ UNCHANGED <<stored, cookie, mishaps, foreign>>

Visit(t, p) ==
  /\ p \in {"access", "bucket"} /\ BeginAct(t, NoAct) /\ Arrive(t, p)

\* handleSubmit, of any token the user has at hand
Submit(t, b) ==
  /\ path[t] = "access" /\ b \in Made
  /\ BeginAct(t, [NoAct EXCEPT !.op = "submit", !.pc = "sent", !.b = b])
  /\ UNCHANGED pages

Create(t) ==
  /\ path[t] = "access"
  /\ BeginAct(t, [NoAct EXCEPT !.op = "create", !.pc = "sent"])
  /\ UNCHANGED pages

\* The dialog that deletes the bucket; logout; another handler that fetches again.
Confirm(t) ==
  /\ shown[t] # Nothing
  /\ BeginAct(t, [NoAct EXCEPT !.op = "delete", !.pc = "sent"])
  /\ UNCHANGED pages

Logout(t) ==
  /\ shown[t] # Nothing
  /\ BeginAct(t, [NoAct EXCEPT !.op = "close", !.pc = "sent"])
  /\ UNCHANGED pages

Refresh(t) ==
  /\ shown[t] # Nothing /\ own[t] = NoOwn /\ BeginAct(t, NoAct)
  /\ own' = [own EXCEPT ![t] = FetchBucket]
  /\ UNCHANGED <<path, auth, shown>>

\* bucket_status asks for the session only; getAdminBucket for its bucket as well.
Found_Strict(t) == IF path[t] = "bucket" /\ SessionToken \notin There THEN Nothing ELSE SessionToken
Found(t) == IF own[t].op = "fetch" /\ SessionToken \notin There THEN Nothing ELSE SessionToken

Answer(t) ==
  /\ own[t].pc = "sent"
  /\ own' = [own EXCEPT ![t].pc = "answered", ![t].got = Found(t)]
  /\ UNCHANGED <<stored, cookie, path, auth, shown, act, bounds, crossed>>

AfterYes_Nothing == NoOwn
AfterYes == FetchBucket

\* checkAuth, and the effects that follow what it has found.
Learn(t, yes) ==
  LET other == IF path[t] = "access" THEN "bucket" ELSE "access"
      wrong == (path[t] = "access") = yes
  IN  IF wrong
      THEN Arrive(t, other)
      ELSE /\ auth' = [auth EXCEPT ![t] = IF yes THEN "yes" ELSE "no"]
           /\ own' = [own EXCEPT ![t] = IF yes THEN AfterYes ELSE NoOwn]
           /\ UNCHANGED <<path, shown>>

Checked(t) ==
  /\ own[t].op = "check" /\ own[t].pc = "answered"
  /\ Learn(t, own[t].got # Nothing)
  /\ UNCHANGED <<stored, cookie, act, bounds, crossed>>

\* fetchBucketData: a refusal, or no bucket, leaves what is shown.
Show(t, b) ==
  /\ shown' = [shown EXCEPT ![t] = IF b = Nothing THEN @ ELSE b]
  /\ own' = [own EXCEPT ![t] = NoOwn]
  /\ UNCHANGED <<path, auth>>

Fetched(t) ==
  /\ own[t].op = "fetch" /\ own[t].pc = "answered"
  /\ Show(t, own[t].got)
  /\ UNCHANGED <<stored, cookie, act, bounds, crossed>>

-----------------------------------------------------------------------------
(* The server.                                                              *)

\* The session a request works on: that of the cookie if it is in the store,
\* or a new one.
Sid(t) == IF cookie # Nothing /\ store[cookie] # Lost THEN cookie ELSE t

\* It is written when the request ends, if it is another than it was.
Saved(t, b) ==
  IF b = act[t].had THEN UNCHANGED store ELSE store' = [store EXCEPT ![act[t].sid] = b]

To(t, pc) == act' = [act EXCEPT ![t].pc = pc]

\* AuthenticateBucket: the bucket is looked up ...
GetBucket(t) ==
  /\ act[t].op = "submit" /\ act[t].pc = "sent"
  /\ act' = [act EXCEPT ![t].pc = IF act[t].b \in There THEN "found" ELSE "refused",
                        ![t].sid = Sid(t), ![t].had = SessionToken]
  /\ UNCHANGED <<stored, cookie, pages, bounds, crossed>>

\* ... and then becomes that of the session.
CreateSession(t) ==
  /\ act[t].op = "submit" /\ act[t].pc = "found"
  /\ Saved(t, act[t].b) /\ To(t, "ok")
  /\ UNCHANGED <<bucket, mine, cookie, pages, bounds, crossed>>

\* createBucket: the bucket of the IP, or a new one, which the index on the IP
\* refuses if there is one by now.
GetBucketByIp(t) ==
  /\ act[t].op = "create" /\ act[t].pc = "sent"
  /\ To(t, IF mine = Nothing THEN "found" ELSE "ok")
  /\ UNCHANGED <<stored, cookie, pages, bounds, crossed>>

Insert(t) ==
  /\ act[t].op = "create" /\ act[t].pc = "found"
  /\ IF mine # Nothing
     THEN To(t, "refused") /\ UNCHANGED <<bucket, mine>>
     ELSE \E b \in Buckets \ Made :
            /\ bucket' = [bucket EXCEPT ![b] = "there"] /\ mine' = b
            /\ To(t, "ok")
  /\ UNCHANGED <<store, cookie, pages, bounds, crossed>>

\* handleDeleteBucketConfirm asks which bucket is open ...
WhichBucket(t) == SessionToken

ReadBucket(t) ==
  /\ act[t].op = "delete" /\ act[t].pc = "sent"
  /\ act' = [act EXCEPT ![t].b = WhichBucket(t),
                        ![t].pc = IF WhichBucket(t) \in There THEN "found" ELSE "refused"]
  /\ UNCHANGED <<stored, cookie, pages, bounds, crossed>>

RemoveBucket(b) ==
  /\ bucket' = [bucket EXCEPT ![b] = "gone"]
  /\ mine' = IF mine = b THEN Nothing ELSE mine

\* ... and deletes that one; with a cookie the session is closed as well.
DeleteBucket(t) ==
  /\ act[t].op = "delete" /\ act[t].pc = "found"
  /\ IF act[t].b \in There
     THEN /\ RemoveBucket(act[t].b) /\ To(t, "ok")
          /\ IF SendsCookies /\ SessionToken # Nothing
             THEN store' = [store EXCEPT ![cookie] = Nothing] ELSE UNCHANGED store
     ELSE To(t, "refused") /\ UNCHANGED stored
  /\ UNCHANGED <<cookie, pages, bounds, crossed>>

\* closeBucket
CloseBucket(t) ==
  /\ act[t].op = "close" /\ act[t].pc = "sent"
  /\ act' = [act EXCEPT ![t].pc = "found", ![t].sid = Sid(t), ![t].had = SessionToken]
  /\ UNCHANGED <<stored, cookie, pages, bounds, crossed>>

DestroySession(t) == Saved(t, Nothing)

CloseEnds(t) ==
  /\ act[t].op = "close" /\ act[t].pc = "found"
  /\ DestroySession(t) /\ To(t, "ok")
  /\ UNCHANGED <<bucket, mine, cookie, pages, bounds, crossed>>

-----------------------------------------------------------------------------
(* The answers.                                                             *)

\* A session that was not there is sent as a cookie with the answer.
SetsCookie_Never(t) == UNCHANGED cookie
SetsCookie(t) == cookie' = act[t].sid

\* On to the page of the bucket, where the tab may be by now.
Opened(t) ==
  /\ act[t].op = "submit" /\ act[t].pc = "ok"
  /\ SetsCookie(t)
  /\ act' = [act EXCEPT ![t] = NoAct]
  /\ IF path[t] = "bucket" THEN UNCHANGED pages ELSE Arrive(t, "bucket")
  /\ UNCHANGED <<stored, bounds, crossed>>

\* deleteBucket is followed by logout.
Deleted_Ends(t) ==
  /\ act[t].op = "delete" /\ act[t].pc = "ok"
  /\ act' = [act EXCEPT ![t] = NoAct]
  /\ UNCHANGED <<stored, cookie, pages, bounds, crossed>>
Deleted(t) ==
  /\ act[t].op = "delete" /\ act[t].pc = "ok"
  /\ act' = [act EXCEPT ![t] = [NoAct EXCEPT !.op = "close", !.pc = "sent"]]
  /\ UNCHANGED <<stored, cookie, pages, bounds, crossed>>

\* The redirect to the front end.
Closed(t) ==
  /\ act[t].op = "close" /\ act[t].pc = "ok"
  /\ Arrive(t, "away")
  /\ act' = [act EXCEPT ![t] = NoAct]
  /\ UNCHANGED <<stored, cookie, bounds, crossed>>

\* A message, or the new token in the box.
Told(t) ==
  /\ act[t].pc = "refused" \/ (act[t].op = "create" /\ act[t].pc = "ok")
  /\ act' = [act EXCEPT ![t] = NoAct]
  /\ UNCHANGED <<stored, cookie, pages, bounds, crossed>>

-----------------------------------------------------------------------------
(* Faults, and what others do.                                              *)

Faulty == mishaps < MaxMishaps /\ mishaps' = mishaps + 1 /\ UNCHANGED <<stored, cookie, acts, foreign, crossed>>

\* An answer is lost: checkAuth takes it for a no.
OwnFails(t) ==
  /\ own[t].pc # "idle" /\ Faulty
  /\ IF own[t].op = "check" THEN Learn(t, FALSE) ELSE Show(t, Nothing)
  /\ UNCHANGED act

ActFails(t) ==
  /\ act[t].pc # "idle" /\ Faulty
  /\ act' = [act EXCEPT ![t] = NoAct]
  /\ IF act[t].op = "close" THEN Arrive(t, "away") ELSE UNCHANGED pages

\* The session ends after its day, when nothing is under way.
Expire ==
  /\ cookie # Nothing /\ \A t \in Tabs : own[t] = NoOwn /\ act[t] = NoAct
  /\ mishaps < MaxMishaps /\ mishaps' = mishaps + 1
  /\ store' = [s \in Sids |-> Lost] /\ cookie' = Nothing
  /\ UNCHANGED <<bucket, mine, pages, act, acts, foreign, crossed>>

OtherDeletes(b) ==
  /\ b \in There /\ foreign < MaxForeign /\ foreign' = foreign + 1
  /\ RemoveBucket(b)
  /\ UNCHANGED <<store, cookie, pages, act, acts, mishaps, crossed>>

PageStep(t) == Answer(t) \/ Checked(t) \/ Fetched(t)

ActStep(t) ==
  \/ GetBucket(t) \/ CreateSession(t) \/ GetBucketByIp(t) \/ Insert(t)
  \/ ReadBucket(t) \/ DeleteBucket(t) \/ CloseBucket(t) \/ CloseEnds(t)
  \/ Opened(t) \/ Deleted(t) \/ Closed(t) \/ Told(t)

User(t) ==
  \/ \E p \in {"access", "bucket"} : Visit(t, p)
  \/ \E b \in Buckets : Submit(t, b)
  \/ Create(t) \/ Confirm(t) \/ Logout(t) \/ Refresh(t)

AccessNext ==
  \/ \E t \in Tabs : User(t) \/ PageStep(t) \/ ActStep(t) \/ OwnFails(t) \/ ActFails(t)
  \/ Expire
  \/ \E b \in Buckets : OtherDeletes(b)

AccessSpec == AccessInit /\ [][AccessNext]_accessVars

\* Every request is answered or fails, and the browser goes on.
FairAccessSpec == AccessSpec /\ \A t \in Tabs : WF_accessVars(PageStep(t)) /\ WF_accessVars(ActStep(t))

-----------------------------------------------------------------------------
(* Properties.                                                              *)

Calm == mishaps = 0 /\ foreign = 0 /\ ~crossed

\* Without faults, and when handlers of several tabs do not overlap, the session
\* names no bucket that is gone once no handler is under way: who deletes a
\* bucket closes it.
OpenBucketIsThere ==
  Calm /\ (\A t \in Tabs : act[t] = NoAct) => SessionToken \in There \cup {Nothing}

\* The session names no bucket that is gone, of one tab at a time and without faults: who
\* deletes a bucket closes it (deleteBucket, closeBucket).
SessionsInv == AccessTypeOK /\ OpenBucketIsThere

\* A token that was accepted is that of the session when the page goes on, and
\* nothing is open any more after a logout, unless handlers of other tabs were
\* under way.
SessionFollows ==
  [][\A t \in Tabs :
       act[t].pc = "ok" /\ act'[t] = NoAct /\ Calm /\ mishaps' = 0 =>
         /\ act[t].op = "submit" => SessionToken' = act[t].b
         /\ act[t].op = "close"  => SessionToken' = Nothing]_accessVars

\* The two pages send each other a tab only so often: in the end it asks for a
\* token, because nothing is open, or is on the page of the bucket, because one is.
Settles ==
  \A t \in Tabs : <>[](path[t] = "away" \/ (path[t] = "access" /\ auth[t] = "no")
                                        \/ (path[t] = "bucket" /\ auth[t] = "yes"))

\* With one tab, a page that stays empty has lost its answer, or is that of a
\* bucket somebody else deleted.
EmptyExplained ==
  \A t \in Tabs : Tabs = {t} /\ path[t] = "bucket" /\ own[t] = NoOwn /\ shown[t] = Nothing =>
    mishaps > 0 \/ foreign > 0

\* "Invalid or expired token. Please enter your bucket token to continue.": when
\* the bucket of the session is gone, a visitor gets an empty page.
DeadBucketAsks ==
  \A t \in Tabs : path[t] = "bucket" /\ own[t] = NoOwn /\ auth[t] = "yes" /\ mishaps = 0 =>
    shown[t] # Nothing

\* "Are you sure you want to delete the bucket?": that of the page is not the
\* one that is deleted.
DeletesShown ==
  [][\A t \in Tabs : act[t].op = "delete" /\ act[t].pc = "found" /\ act'[t].pc = "ok" =>
       bucket'[shown[t]] = "gone"]_accessVars
=============================================================================
