----------------------------- MODULE FileAccess -----------------------------
(***************************************************************************)
(* Opening a file by its link.  Of a file with a password, the link is to  *)
(* the page /p/<file>, and a request for /f/<file> is redirected to it:    *)
(* the page checks the file with a HEAD request, asks for the password,    *)
(* and downloads the file itself.  The link and the redirect, which is     *)
(* permanent, are kept, and still lead there when the password has gone.   *)
(*                                                                         *)
(* The server takes four steps for a request: is the IP blocked; then, the *)
(* row read anew each time, does the file need a password, may this one    *)
(* have it, and what is done once the answer is out.  A HEAD request takes *)
(* them all.  The owner may change the password or delete the file,  *)
(* and the administrator block the IP, between any two.                    *)
(*                                                                         *)
(* What a deletion does to row and disk is in FileStore, what a change of  *)
(* the password does to the content in Entry.                              *)
(***************************************************************************)
EXTENDS Naturals, FiniteSets

CONSTANTS
  FileTabs, Passwords,
  NoPassword,
  Redirects,   \* whether the pages and the API are of one origin
  MaxVisits, MaxSubmits, MaxChanges, MaxFaults   \* bounds: of the users, the owner, the network

ASSUME FileAccessAssumption ==
  /\ NoPassword \notin Passwords /\ Redirects \in BOOLEAN
  /\ {MaxVisits, MaxSubmits, MaxChanges, MaxFaults} \subseteq Nat

VARIABLES
  file,    \* its row, and who has deleted it
  jobs,    \* postProcess: how often it is still to run
  views,   \* of the row
  tab,     \* the page in each tab
  req,     \* of each tab: the request that the page makes by itself, and that of the form
  got,     \* history: downloads that somebody has received
  linked,  \* the file has had a password: somebody may have a link to the page
  bare,    \* history: it has been without one
  barred,  \* the IP of the tabs is blocked, or listed by DroneBL
  visits, submits, changes, faults

fileBounds == <<visits, submits, changes, faults>>
fileVars   == <<file, jobs, views, tab, req, got, linked, bare, barred, fileBounds>>

Kinds == {"own", "form"}
Idle   == [op |-> "none", pw |-> NoPassword, pc |-> "idle", held |-> FALSE]
NoPage == [at |-> "away", needs |-> FALSE, error |-> "none", busy |-> FALSE, held |-> FALSE]

FileTypeOK ==
  /\ file \in [there : BOOLEAN, pw : Passwords \cup {NoPassword}, once : BOOLEAN,
               by : {"nobody", "owner", "once"}]
  /\ file.there <=> file.by = "nobody"
  /\ jobs \in Nat /\ views \in Nat /\ got \in Nat /\ {linked, bare, barred} \subseteq BOOLEAN
  /\ visits \in 0..MaxVisits /\ submits \in 0..MaxSubmits
  /\ changes \in 0..MaxChanges /\ faults \in 0..MaxFaults
  /\ tab \in [FileTabs -> [at : {"away", "page"}, needs : BOOLEAN,
                           error : {"none", "missing", "unable", "incorrect", "failed"},
                           busy : BOOLEAN, held : BOOLEAN]]
  /\ req \in [FileTabs -> [Kinds -> [op : {"none", "visit", "head", "info", "open", "submit"},
                                     pw : Passwords \cup {NoPassword},
                                     pc : {"idle", "sent", "filtered", "admitted", "serving",
                                           "ok", "308", "403", "404"},
                                     held : BOOLEAN]]]
  \* the form is locked as long as its download is under way, and no longer
  /\ \A t \in FileTabs : tab[t].busy <=> req[t]["form"] # Idle
  /\ \A t \in FileTabs : tab[t].busy => tab[t].needs

FileInit ==
  /\ file \in [there : {TRUE}, pw : Passwords \cup {NoPassword}, once : BOOLEAN, by : {"nobody"}]
  /\ linked = (file.pw # NoPassword) /\ bare = (file.pw = NoPassword) /\ barred \in BOOLEAN
  /\ jobs = 0 /\ views = 0 /\ got = 0
  /\ tab = [t \in FileTabs |-> NoPage]
  /\ req = [t \in FileTabs |-> [k \in Kinds |-> Idle]]
  /\ visits = 0 /\ submits = 0 /\ changes = 0 /\ faults = 0

\* A password that is right, or is not asked for.
Opens(pw, want) == want \in {NoPassword, pw}

\* held: history, nothing was wrong with it all the time that it takes.
Send(op, pw) ==
  [op |-> op, pw |-> pw, pc |-> "sent", held |-> Opens(pw, file.pw) /\ ~barred]

-----------------------------------------------------------------------------
(* FileServerController                                                     *)

Reaches(t, k, pc) == req' = [req EXCEPT ![t][k].pc = pc]

\* IpFilterMiddleware, before every route; it says 403, as for a wrong password.
IpFilter(t, k) ==
  /\ req[t][k].pc = "sent"
  /\ Reaches(t, k, IF barred THEN "403" ELSE "filtered")
  /\ UNCHANGED <<file, jobs, views, tab, got, linked, bare, barred, fileBounds>>

\* A file that is not there needs no password.
RequiresPassword == file.there /\ file.pw # NoPassword

HasPassword_AnyPassword(t, k) ==
  /\ req[t][k].pc = "filtered"
  /\ Reaches(t, k, IF ~RequiresPassword THEN "admitted"
              ELSE IF req[t][k].op = "visit" /\ Redirects THEN "308" ELSE "403")
  /\ UNCHANGED <<file, jobs, views, tab, got, linked, bare, barred, fileBounds>>

HasPassword_CountsRefusals(t, k) ==
  /\ req[t][k].pc = "filtered"
  /\ IF RequiresPassword /\ req[t][k].pw = NoPassword
     THEN /\ Reaches(t, k, IF req[t][k].op = "visit" /\ Redirects THEN "308" ELSE "403")
          /\ jobs' = jobs + 1
     ELSE Reaches(t, k, "admitted") /\ UNCHANGED jobs
  /\ UNCHANGED <<file, views, tab, got, linked, bare, barred, fileBounds>>

\* hasPassword; the page's requests say `check`, and are not redirected.
HasPassword(t, k) ==
  /\ req[t][k].pc = "filtered"
  /\ Reaches(t, k, IF ~(RequiresPassword /\ req[t][k].pw = NoPassword) THEN "admitted"
              ELSE IF req[t][k].op = "visit" /\ Redirects THEN "308" ELSE "403")
  /\ UNCHANGED <<file, jobs, views, tab, got, linked, bare, barred, fileBounds>>

\* FileService.getEntry
GetEntry(t, k) ==
  /\ req[t][k].pc = "admitted"
  /\ Reaches(t, k, IF ~file.there THEN "404"
              ELSE IF Opens(req[t][k].pw, file.pw) THEN "serving" ELSE "403")
  /\ UNCHANGED <<file, jobs, views, tab, got, linked, bare, barred, fileBounds>>

\* The response of getFile has finished; nothing but headers of a HEAD request.
Finish(t, k) ==
  /\ req[t][k].pc = "serving"
  /\ Reaches(t, k, "ok")
  /\ jobs' = jobs + 1
  /\ got' = IF req[t][k].op \in {"visit", "open", "submit"} THEN got + 1 ELSE got
  /\ UNCHANGED <<file, views, tab, linked, bare, barred, fileBounds>>

PostProcess ==
  /\ jobs > 0 /\ jobs' = jobs - 1
  /\ IF file.once
     THEN /\ file' = IF file.there THEN [file EXCEPT !.there = FALSE, !.by = "once"] ELSE file
          /\ UNCHANGED views
     ELSE /\ views' = IF file.there THEN views + 1 ELSE views
          /\ UNCHANGED file
  /\ UNCHANGED <<tab, req, got, linked, bare, barred, fileBounds>>

\* What has gone wrong meanwhile with the requests that are under way.
Judged ==
  req' = [t \in FileTabs |-> [k \in Kinds |->
            [req[t][k] EXCEPT !.held = @ /\ Opens(req[t][k].pw, file'.pw) /\ ~barred']]]

\* modifyEntry sets, changes or removes the password.
ChangePassword(pw) ==
  /\ file.there /\ file.pw # pw
  /\ changes < MaxChanges /\ changes' = changes + 1
  /\ file' = [file EXCEPT !.pw = pw]
  /\ linked' = (linked \/ pw # NoPassword) /\ bare' = (bare \/ pw = NoPassword)
  /\ UNCHANGED barred /\ Judged
  /\ UNCHANGED <<jobs, views, tab, got, visits, submits, faults>>

\* The owner deletes it, or it expires.
Delete ==
  /\ file.there /\ changes < MaxChanges /\ changes' = changes + 1
  /\ file' = [file EXCEPT !.there = FALSE, !.by = "owner"]
  /\ UNCHANGED <<jobs, views, tab, req, got, linked, bare, barred, visits, submits, faults>>

\* The administrator blocks the IP, or lets it in again.
Bar ==
  /\ changes < MaxChanges /\ changes' = changes + 1
  /\ barred' = ~barred /\ UNCHANGED file /\ Judged
  /\ UNCHANGED <<jobs, views, tab, got, linked, bare, visits, submits, faults>>

-----------------------------------------------------------------------------
(* The page                                                                 *)

\* checkIfPasswordNeeded
ShowPage(t) ==
  /\ tab' = [tab EXCEPT ![t] = [NoPage EXCEPT !.at = "page"]]
  /\ req' = [req EXCEPT ![t] = [k \in Kinds |-> IF k = "own" THEN Send("head", NoPassword) ELSE Idle]]

FollowLink(t) ==
  /\ tab[t].at = "away" /\ req[t]["own"] = Idle
  /\ visits < MaxVisits /\ visits' = visits + 1
  /\ \/ linked /\ ShowPage(t)
     \/ req' = [req EXCEPT ![t]["own"] = Send("visit", NoPassword)] /\ UNCHANGED tab
  /\ UNCHANGED <<file, jobs, views, got, linked, bare, barred, submits, changes, faults>>

Redirected(t) ==
  /\ req[t]["own"].pc = "308" /\ ShowPage(t)
  /\ UNCHANGED <<file, jobs, views, got, linked, bare, barred, fileBounds>>

\* The browser shows what it is answered: the file, or an error.
Rendered(t) ==
  /\ req[t]["own"].op \in {"visit", "open"} /\ req[t]["own"].pc \in {"ok", "403", "404"}
  /\ req' = [req EXCEPT ![t]["own"] = Idle]
  /\ UNCHANGED <<file, jobs, views, tab, got, linked, bare, barred, fileBounds>>

Checking(t) == req[t]["own"].op = "head" /\ tab[t].at = "page"

\* window.location.href = fileUrl
CheckOk(t) ==
  /\ Checking(t) /\ req[t]["own"].pc = "ok"
  /\ tab' = [tab EXCEPT ![t] = NoPage]
  /\ req' = [req EXCEPT ![t]["own"] = Send("open", NoPassword)]
  /\ UNCHANGED <<file, jobs, views, got, linked, bare, barred, fileBounds>>

\* The form is there before the second request is answered.
CheckForbidden(t) ==
  /\ Checking(t) /\ req[t]["own"].pc = "403"
  /\ tab' = [tab EXCEPT ![t].needs = TRUE]
  /\ req' = [req EXCEPT ![t]["own"] = Send("info", NoPassword)]
  /\ UNCHANGED <<file, jobs, views, got, linked, bare, barred, fileBounds>>

CheckMissing_Silent(t) ==
  /\ Checking(t) /\ req[t]["own"].pc = "404"
  /\ req' = [req EXCEPT ![t]["own"] = Idle]
  /\ UNCHANGED <<file, jobs, views, tab, got, linked, bare, barred, fileBounds>>
CheckMissing(t) ==
  /\ Checking(t) /\ req[t]["own"].pc = "404"
  /\ tab' = [tab EXCEPT ![t].error = "missing"]
  /\ req' = [req EXCEPT ![t]["own"] = Idle]
  /\ UNCHANGED <<file, jobs, views, got, linked, bare, barred, fileBounds>>

\* An error of the server is JSON; a file that is served instead may be, or not.
Informed(t) ==
  /\ req[t]["own"].op = "info" /\ req[t]["own"].pc \in {"ok", "403", "404"}
  /\ req' = [req EXCEPT ![t]["own"] = Idle]
  /\ \/ UNCHANGED tab
     \/ req[t]["own"].pc = "ok" /\ tab' = [tab EXCEPT ![t].error = "unable"]
  /\ UNCHANGED <<file, jobs, views, got, linked, bare, barred, fileBounds>>

\* handlePasswordSubmit, by the button or the enter key
SubmitPassword(t, pw) ==
  /\ tab[t].at = "page" /\ tab[t].needs /\ ~tab[t].busy
  /\ submits < MaxSubmits /\ submits' = submits + 1
  /\ tab' = [tab EXCEPT ![t].error = "none", ![t].busy = TRUE]
  /\ req' = [req EXCEPT ![t]["form"] = Send("submit", pw)]
  /\ UNCHANGED <<file, jobs, views, got, linked, bare, barred, visits, changes, faults>>

ErrorOf(pc) == CASE pc = "403" -> "incorrect" [] pc = "404" -> "failed" [] OTHER -> "none"

Submitted_StaysBusy(t) ==
  /\ req[t]["form"].pc \in {"ok", "403", "404"}
  /\ tab' = [tab EXCEPT ![t].error = ErrorOf(req[t]["form"].pc),
                        ![t].busy = req[t]["form"].pc = "403", ![t].held = req[t]["form"].held]
  /\ req' = [req EXCEPT ![t]["form"] = Idle]
  /\ UNCHANGED <<file, jobs, views, got, linked, bare, barred, fileBounds>>
Submitted(t) ==
  /\ req[t]["form"].pc \in {"ok", "403", "404"}
  /\ tab' = [tab EXCEPT ![t].error = ErrorOf(req[t]["form"].pc), ![t].busy = FALSE,
                        ![t].held = req[t]["form"].held]
  /\ req' = [req EXCEPT ![t]["form"] = Idle]
  /\ UNCHANGED <<file, jobs, views, got, linked, bare, barred, fileBounds>>

\* A request or its answer is lost; a response that has not finished never will.
RequestFails(t, k) ==
  /\ req[t][k] # Idle /\ faults < MaxFaults /\ faults' = faults + 1
  /\ req' = [req EXCEPT ![t][k] = Idle]
  /\ tab' = CASE k = "form" -> [tab EXCEPT ![t].error = "failed", ![t].busy = FALSE]
              [] req[t][k].op \in {"head", "info"} -> [tab EXCEPT ![t].error = "unable"]
              [] OTHER -> tab
  /\ UNCHANGED <<file, jobs, views, got, linked, bare, barred, visits, submits, changes>>

\* The user closes the page, whatever it waits for.
Leave(t) ==
  /\ tab[t].at = "page"
  /\ tab' = [tab EXCEPT ![t] = NoPage]
  /\ req' = [req EXCEPT ![t] = [k \in Kinds |-> Idle]]
  /\ UNCHANGED <<file, jobs, views, got, linked, bare, barred, fileBounds>>

\* Which of the three views is rendered.
View(t) == IF ~tab[t].needs THEN "checking" ELSE "form"

Handle(t) ==
  \/ \E k \in Kinds : IpFilter(t, k) \/ HasPassword(t, k) \/ GetEntry(t, k) \/ Finish(t, k)
  \/ Redirected(t) \/ Rendered(t) \/ CheckOk(t) \/ CheckForbidden(t) \/ CheckMissing(t)
  \/ Informed(t) \/ Submitted(t)

FileNext ==
  \/ PostProcess \/ Delete \/ Bar
  \/ \E pw \in Passwords \cup {NoPassword} : ChangePassword(pw)
  \/ \E t \in FileTabs : \/ FollowLink(t) \/ Handle(t) \/ Leave(t)
                     \/ \E pw \in Passwords : SubmitPassword(t, pw)
                     \/ \E k \in Kinds : RequestFails(t, k)

FileSpec == FileInit /\ [][FileNext]_fileVars

Progress(t, k) == IpFilter(t, k) \/ HasPassword(t, k) \/ GetEntry(t, k) \/ Finish(t, k)
OwnAnswered(t) == Redirected(t) \/ Rendered(t) \/ CheckOk(t) \/ CheckForbidden(t) \/ CheckMissing(t) \/ Informed(t)

\* The server goes on with every request, and the page with every answer.
FairFileSpec ==
  /\ FileSpec /\ WF_fileVars(PostProcess)
  /\ \A t \in FileTabs : WF_fileVars(OwnAnswered(t)) /\ WF_fileVars(Submitted(t))
  /\ \A t \in FileTabs, k \in Kinds : WF_fileVars(Progress(t, k))

-----------------------------------------------------------------------------
(* Properties.                                                              *)

\* "Password is incorrect" is never shown of a password that was right, or not
\* needed, all the time that the request took, unless the IP was blocked in it:
\* the filter of the server says 403 before the password is looked at.
IncorrectMeansWrong ==
  \A t \in FileTabs : tab[t].error = "incorrect" => ~tab[t].held

\* And of files only that have, or had, a password: violated where the IP is blocked, as the
\* page then asks for one of any file.
IncorrectOfProtected ==
  \A t \in FileTabs : tab[t].error = "incorrect" => linked

\* A one-time file that always had a password is not used up by the requests with
\* which pages check it, but by a download.
UsedUpByDownloads ==
  file.by = "once" /\ ~bare => got > 0

\* Both of them: what the page of a file does by itself costs nothing, and says nothing
\* that is not so.
ChecksUseUpNothing == FileTypeOK /\ UsedUpByDownloads /\ IncorrectMeansWrong

\* Every check of a page comes to the file, the form or an error, and every download
\* frees the form again.
PageSettles ==
  \A t \in FileTabs :
    /\ Checking(t) ~> ~Checking(t) /\ (tab[t].at = "away" \/ tab[t].needs \/ tab[t].error # "none")
    /\ tab[t].busy ~> ~tab[t].busy

\* An error of the check is shown.
ErrorsAreShown ==
  \A t \in FileTabs : tab[t].error # "none" => View(t) # "checking"

\* A one-time file is removed once it has been downloaded.
RemovedOnceDownloaded ==
  file.by = "once" => got > 0

\* The views of a file are the times that it was downloaded.
ViewsAreDownloads == views <= got
=============================================================================
