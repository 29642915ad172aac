------------------------------ MODULE AdminPage ------------------------------
(***************************************************************************)
(* The page of the administrator: the files and the blocked IPs it shows,  *)
(* its dialog that bans IPs, with or without their files, the table that   *)
(* unblocks them, and what the server does for it.  A ban of several IPs   *)
(* is one request after the other, each of up to three steps at the        *)
(* server.  A handler that has changed something fetches everything again. *)
(*                                                                         *)
(* The overlay of a handler keeps the mouse from the page, not the keys: a *)
(* button that has the focus may be pressed again, so that handlers may    *)
(* overlap.  Others (other administrators, the tracker, clients) upload,   *)
(* delete, block and unblock meanwhile.                                    *)
(*                                                                         *)
(* What is selected in FileBrowser is any set of files that the page has   *)
(* shown: it keeps ids that are gone.  The steps of one deletion are in    *)
(* FileStore.                                                              *)
(***************************************************************************)
EXTENDS Integers, FiniteSets, Sequences

CONSTANTS
  IPs, NoIp,   \* NoIp is none
  AllFiles,
  IpOf,        \* of each file
  Handlers,    \* handlers that may be under way together
  MaxBegun,    \* bound: handlers begun
  MaxOthers,   \* bound: kinds of changes by others
  MaxErrors    \* bound: faults

ASSUME AdminAssumption ==
  /\ NoIp \notin IPs
  /\ IpOf \in [AllFiles -> IPs]
  /\ MaxBegun \in Nat /\ MaxOthers \in Nat /\ MaxErrors \in Nat

VARIABLES
  place,      \* of each file: not yet here, past the IP filter, stored, expired but there, gone
  blocked,    \* the table of blocked IPs
  onPage,     \* adminFiles and blockedIps
  seen,       \* the files that have been in adminFiles
  ticked,     \* selectedIps of the table
  ban,        \* the dialog: selectedIpsToBan, deleteAssociatedFiles
  handler,    \* the handlers
  begun, others, errors,
  outcome,    \* history: how the last handler ended
  outdated,   \* history: a handler has failed, and nothing been fetched since
  together,   \* history: two handlers have overlapped
  spared,     \* history: the files that were on their way when their IP was blocked
  unmoved,    \* history: the files whose deletion failed, and nobody said so
  freed       \* history: the IPs that were unblocked

adminServer  == <<place, blocked>>
adminPage    == <<onPage, seen, ticked, ban>>
adminBounds  == <<begun, others, errors>>
adminHistory == <<outcome, outdated, together, spared, unmoved, freed>>
adminVars    == <<adminServer, adminPage, handler, adminBounds, adminHistory>>

Views  == [files : SUBSET AllFiles, ips : SUBSET IPs]
NoView == [files |-> {}, ips |-> {}]
Bans   == [open : BOOLEAN, ips : SUBSET IPs, del : BOOLEAN]
NoBan  == [open |-> FALSE, ips |-> {}, del |-> FALSE]

Stages == {"idle", "block", "list", "remove", "delete", "unblock", "fetch"}
HandlerStates ==
  [op : {"none", "load", "delete", "unblock", "ban"}, pc : Stages, asked : SUBSET IPs,
   left : SUBSET IPs, ip : IPs \cup {NoIp}, del : BOOLEAN, files : SUBSET AllFiles,
   listed : SUBSET AllFiles, got : SUBSET {"files", "ips"}, snap : Views, saw : Views]
NoHandler ==
  [op |-> "none", pc |-> "idle", asked |-> {}, left |-> {}, ip |-> NoIp, del |-> FALSE,
   files |-> {}, listed |-> {}, got |-> {}, snap |-> NoView, saw |-> NoView]

AdminTypeOK ==
  /\ place \in [AllFiles -> {"new", "coming", "stored", "expired", "gone"}] /\ blocked \subseteq IPs
  /\ onPage \in Views /\ seen \subseteq AllFiles /\ ticked \subseteq IPs
  /\ ban \in Bans /\ handler \in [Handlers -> HandlerStates]
  /\ begun \in 0..MaxBegun /\ others \subseteq {"delete", "block", "unblock"}
  /\ errors \in 0..MaxErrors
  /\ outcome \in {"none", "told", "error"} /\ outdated \in BOOLEAN /\ together \in BOOLEAN
  /\ spared \subseteq AllFiles /\ unmoved \subseteq AllFiles /\ freed \subseteq IPs
  \* no dialog leaves anything to the next one, and no other is up than of IPs
  /\ IF ban.open THEN ban.ips # {} ELSE ban = NoBan
  /\ onPage.files \subseteq seen

Stored    == {f \in AllFiles : place[f] = "stored"}
Remaining == {f \in AllFiles : place[f] \in {"stored", "expired"}}
Of(ips) == {f \in AllFiles : IpOf[f] \in ips}
Quiet == \A h \in Handlers : handler[h].pc = "idle"

AdminInit ==
  /\ place \in [AllFiles -> {"new", "stored"}] /\ blocked \in SUBSET IPs
  \* the first fetch is over
  /\ onPage = [files |-> Stored, ips |-> blocked] /\ seen = Stored
  /\ ticked = {} /\ ban = NoBan
  /\ handler = [h \in Handlers |-> NoHandler]
  /\ begun = 0 /\ others = {} /\ errors = 0
  /\ outcome = "none" /\ outdated = FALSE /\ together = FALSE
  /\ spared = {} /\ unmoved = {} /\ freed = {}

\* The steps of blockIp.
StepsOf_ListFirst(del) == IF del THEN <<"list", "block", "remove">> ELSE <<"block">>
StepsOf(del) == IF del THEN <<"block", "list", "remove">> ELSE <<"block">>

-----------------------------------------------------------------------------
(* The page.                                                                *)

BeginHandler(h, c) ==
  /\ handler[h].pc = "idle" /\ begun < MaxBegun
  /\ handler' = [handler EXCEPT ![h] = [c EXCEPT !.saw = onPage]]
  /\ begun' = begun + 1
  /\ together' = (together \/ ~Quiet)
  /\ UNCHANGED <<adminServer, adminPage, others, errors, outcome, outdated>>
  /\ UNCHANGED <<spared, unmoved, freed>>

\* When the page comes up again, and after an upload: handleUploadComplete.
LoadPage(h) == BeginHandler(h, [NoHandler EXCEPT !.op = "load", !.pc = "fetch"])

DeleteFiles(h) ==
  \E S \in (SUBSET seen) \ {{}} :
    BeginHandler(h, [NoHandler EXCEPT !.op = "delete", !.pc = "delete", !.files = S])

\* The boxes of the table, and the one above them with any search.
Tick ==
  /\ \/ \E i \in onPage.ips : ticked' = IF i \in ticked THEN ticked \ {i} ELSE ticked \cup {i}
     \/ \E S \in SUBSET onPage.ips : ticked' = S
  /\ UNCHANGED <<adminServer, onPage, seen, ban, handler, adminBounds, adminHistory>>

\* handleUnblock of the table, handleUnblockIps
Unblock(h) ==
  /\ ticked # {}
  /\ BeginHandler(h, [NoHandler EXCEPT !.op = "unblock", !.pc = "unblock", !.asked = ticked])

\* handleBanSelectedIps, of the selected files that are still shown; handleBanIpClick
\* of a file whose menu is up, shown or not.
AskBan ==
  /\ ~ban.open
  /\ \E ips \in {{IpOf[f] : f \in S} : S \in (SUBSET onPage.files) \ {{}}}
               \cup {{IpOf[f]} : f \in seen} :
       ban' = [open |-> TRUE, ips |-> ips, del |-> FALSE]
  /\ UNCHANGED <<adminServer, onPage, seen, ticked, handler, adminBounds, adminHistory>>

CheckDelete ==
  /\ ban.open
  /\ ban' = [ban EXCEPT !.del = ~ban.del]
  /\ UNCHANGED <<adminServer, onPage, seen, ticked, handler, adminBounds, adminHistory>>

CloseBan_Keeping == [ban EXCEPT !.open = FALSE]
CloseBan == NoBan

CancelBan ==
  /\ ban.open /\ ban' = CloseBan
  /\ UNCHANGED <<adminServer, onPage, seen, ticked, handler, adminBounds, adminHistory>>

\* handleBanIpConfirm: with what the dialog holds now.
ConfirmBan(h) ==
  /\ ban.open
  /\ BeginHandler(h, [NoHandler EXCEPT !.op = "ban", !.pc = StepsOf(ban.del)[1], !.asked = ban.ips,
                             !.left = ban.ips, !.del = ban.del])

-----------------------------------------------------------------------------
(* How handlers go on and end.                                              *)

AfterUnblock_Kept == ticked
AfterUnblock == {}

\* The toast tells of an error; the dialog stays up, the table forgets what was ticked.
Fail(h) ==
  /\ handler' = [handler EXCEPT ![h] = NoHandler] /\ outcome' = "error" /\ outdated' = TRUE
  /\ ticked' = IF handler[h].op = "unblock" THEN AfterUnblock ELSE ticked
  /\ UNCHANGED <<onPage, seen, ban>>

HandlerGoes(h, c) ==
  handler' = [handler EXCEPT ![h] = c] /\ UNCHANGED <<adminPage, outcome, outdated>>

AfterChange(h) == HandlerGoes(h, [handler[h] EXCEPT !.pc = "fetch"])

\* fetchAdminData asks for both at once, and gets no file that has expired ...
ReadFiles(h) ==
  /\ handler[h].pc = "fetch" /\ "files" \notin handler[h].got
  /\ HandlerGoes(h, [handler[h] EXCEPT !.got = @ \cup {"files"}, !.snap.files = Stored])
  /\ UNCHANGED <<adminServer, adminBounds, together, spared, unmoved, freed>>

ReadIps(h) ==
  /\ handler[h].pc = "fetch" /\ "ips" \notin handler[h].got
  /\ HandlerGoes(h, [handler[h] EXCEPT !.got = @ \cup {"ips"}, !.snap.ips = blocked])
  /\ UNCHANGED <<adminServer, adminBounds, together, spared, unmoved, freed>>

\* ... and shows them when both are there; the handler ends with its toast.
Closes(h) ==
  /\ ban' = IF handler[h].op = "ban" THEN CloseBan ELSE ban
  /\ ticked' = IF handler[h].op = "unblock" THEN AfterUnblock ELSE ticked
  /\ handler' = [handler EXCEPT ![h] = NoHandler]

Deliver(h) ==
  /\ handler[h].pc = "fetch" /\ handler[h].got = {"files", "ips"}
  /\ onPage' = handler[h].snap /\ seen' = seen \cup handler[h].snap.files
  /\ Closes(h) /\ outcome' = "told" /\ outdated' = FALSE
  /\ UNCHANGED <<adminServer, adminBounds, together, spared, unmoved, freed>>

\* fetchAdminData keeps its errors to itself: after the toast that it could not
\* load, the handler ends as if it had.
FailFetch(h) ==
  /\ handler[h].pc = "fetch" /\ errors < MaxErrors /\ errors' = errors + 1
  /\ Closes(h) /\ outcome' = "error" /\ outdated' = TRUE
  /\ UNCHANGED <<adminServer, onPage, seen, begun, others, together, spared, unmoved, freed>>

-----------------------------------------------------------------------------
(* The server.                                                              *)

\* processDelete fails after it has said nothing of it: what it answers is ignored.
Removes(S) ==
  \/ /\ place' = [f \in AllFiles |-> IF f \in S \cap Remaining THEN "gone" ELSE place[f]]
     /\ UNCHANGED <<unmoved, errors>>
  \/ /\ errors < MaxErrors /\ errors' = errors + 1
     /\ unmoved' = unmoved \cup (S \cap Remaining)
     /\ UNCHANGED place

\* deleteEntries
DeleteEntries(h) ==
  /\ handler[h].pc = "delete"
  /\ IF handler[h].files \cap Remaining = {}
     THEN Fail(h) /\ UNCHANGED <<place, unmoved, errors>>
     ELSE Removes(handler[h].files) /\ AfterChange(h)
  /\ UNCHANGED <<blocked, begun, others, together, spared, freed>>

\* unblockIps: an IP that is not there is refused when the others are gone.
RemoveBlockedIps(h) ==
  /\ handler[h].pc = "unblock"
  /\ blocked' = blocked \ handler[h].asked /\ freed' = freed \cup handler[h].asked
  /\ IF handler[h].asked \subseteq blocked THEN AfterChange(h) ELSE Fail(h)
  /\ UNCHANGED <<place, adminBounds, together, spared, unmoved>>

\* blockIp, one IP after the other, in the order of the selection, which is left open.
BansNow(h, ip) == ip \in handler[h].left /\ handler[h].ip \in {NoIp, ip}

GoOn(h, ip, c) ==
  LET steps == StepsOf(c.del)
      at    == CHOOSE i \in DOMAIN steps : steps[i] = c.pc
      left  == c.left \ {ip}
  IN  IF at < Len(steps) THEN HandlerGoes(h, [c EXCEPT !.pc = steps[at + 1], !.ip = ip])
      ELSE IF left # {} THEN HandlerGoes(h, [c EXCEPT !.pc = steps[1], !.ip = NoIp, !.left = left])
      ELSE AfterChange(h)

\* The row of an IP is unique: one that is blocked is refused, its files and all.
Block(h, ip) ==
  /\ handler[h].pc = "block" /\ BansNow(h, ip)
  /\ IF ip \in blocked
     THEN Fail(h) /\ UNCHANGED <<blocked, spared>>
     ELSE /\ blocked' = blocked \cup {ip}
          /\ spared' = spared \cup {f \in Of({ip}) : place[f] = "coming"}
          /\ GoOn(h, ip, handler[h])
  /\ UNCHANGED <<place, adminBounds, together, unmoved, freed>>

\* getAllEntriesForIp passes over what has expired.
List(h, ip) ==
  /\ handler[h].pc = "list" /\ BansNow(h, ip)
  /\ GoOn(h, ip, [handler[h] EXCEPT !.listed = Of({ip}) \cap Stored])
  /\ UNCHANGED <<adminServer, adminBounds, together, spared, unmoved, freed>>

RemoveListed(h, ip) ==
  /\ handler[h].pc = "remove" /\ BansNow(h, ip)
  /\ Removes(handler[h].listed)
  /\ GoOn(h, ip, [handler[h] EXCEPT !.listed = {}])
  /\ UNCHANGED <<blocked, begun, others, together, spared, freed>>

\* A request fails, or its answer is lost after what it has done.
AnswerLost(h) ==
  /\ handler[h].pc \notin {"idle", "fetch"} /\ errors < MaxErrors
  /\ errors' = errors + 1
  /\ Fail(h)
  /\ UNCHANGED <<adminServer, begun, others, together, spared, unmoved, freed>>

-----------------------------------------------------------------------------
(* Others.                                                                  *)

\* An upload passes the IP filter some time before its row is there.
StartUpload(f) ==
  /\ place[f] = "new" /\ IpOf[f] \notin blocked
  /\ place' = [place EXCEPT ![f] = "coming"]
  /\ UNCHANGED <<blocked, adminPage, handler, adminBounds, adminHistory>>

EndUpload(f) ==
  /\ place[f] = "coming"
  /\ place' = [place EXCEPT ![f] = "stored"]
  /\ UNCHANGED <<blocked, adminPage, handler, adminBounds, adminHistory>>

\* Its time is over; its row and the file are there until the next cleaning.
Expires(f) ==
  /\ place[f] = "stored"
  /\ place' = [place EXCEPT ![f] = "expired"]
  /\ UNCHANGED <<blocked, adminPage, handler, adminBounds, adminHistory>>

Other(kind) ==
  /\ others' = others \cup {kind} /\ Cardinality(others') <= MaxOthers
  /\ UNCHANGED <<adminPage, handler, begun, errors, outcome, outdated, together, unmoved>>

OthersDelete(f) ==
  /\ f \in Remaining /\ Other("delete")
  /\ place' = [place EXCEPT ![f] = "gone"]
  /\ UNCHANGED <<blocked, spared, freed>>

OthersBlock(i) ==
  /\ i \notin blocked /\ Other("block")
  /\ blocked' = blocked \cup {i}
  /\ spared' = spared \cup {f \in Of({i}) : place[f] = "coming"}
  /\ UNCHANGED <<place, freed>>

OthersUnblock(i) ==
  /\ i \in blocked /\ Other("unblock")
  /\ blocked' = blocked \ {i} /\ freed' = freed \cup {i}
  /\ UNCHANGED <<place, spared>>

AdminNext ==
  \/ Tick \/ AskBan \/ CheckDelete \/ CancelBan
  \/ \E h \in Handlers :
       \/ LoadPage(h) \/ DeleteFiles(h) \/ Unblock(h) \/ ConfirmBan(h)
       \/ DeleteEntries(h) \/ RemoveBlockedIps(h)
       \/ \E ip \in IPs : Block(h, ip) \/ List(h, ip) \/ RemoveListed(h, ip)
       \/ ReadFiles(h) \/ ReadIps(h) \/ Deliver(h) \/ FailFetch(h) \/ AnswerLost(h)
  \/ \E f \in AllFiles : StartUpload(f) \/ EndUpload(f) \/ Expires(f) \/ OthersDelete(f)
  \/ \E i \in IPs : OthersBlock(i) \/ OthersUnblock(i)

AdminSpec == AdminInit /\ [][AdminNext]_adminVars

-----------------------------------------------------------------------------
(* Properties.                                                              *)

Ends(h, how) == handler[h].pc # "idle" /\ handler'[h].pc = "idle" /\ outcome' = how

\* When the page says that IPs were banned and their files deleted, none of
\* their files is there, but those that were on their way when the IP was
\* blocked, those whose IP somebody has unblocked, those of which the server did
\* not say that it could not delete them, and those that had expired, which a ban
\* leaves to the cleaning.
BannedFilesGone ==
  [][\A h \in Handlers :
       Ends(h, "told") /\ handler[h].op = "ban" /\ handler[h].del =>
         \A f \in Of(handler[h].asked) \cap Remaining :
           f \in spared \cup unmoved \/ IpOf[f] \in freed \/ place[f] = "expired"]_adminVars

\* A handler ends with an error only for a fault, for another handler at the
\* same time, for what an earlier one did in part before it failed, for what
\* somebody else did just to what it was about, for an IP that the page itself
\* showed as blocked when it was to be banned, or for a selection of which
\* nothing was shown any more.
ErrorsExplained ==
  [][\A h \in Handlers : Ends(h, "error") =>
       \/ errors' > 0 \/ together \/ outdated
       \/ /\ handler[h].op = "ban"
          /\ "block" \in others \/ handler[h].asked \cap handler[h].saw.ips # {}
       \/ /\ handler[h].op = "delete"
          /\ "delete" \in others \/ handler[h].files \cap handler[h].saw.files = {}
       \/ handler[h].op = "unblock" /\ "unblock" \in others]_adminVars

\* When the last handler has ended well, the page shows no file that is gone,
\* and the IPs that are blocked, if nobody else was at work and no two of
\* its handlers were.
ShowsItsWork ==
  Quiet /\ outcome = "told" /\ others = {} /\ ~together =>
    onPage.files \subseteq Remaining /\ onPage.ips = blocked

\* The box says that it will "Also delete all files associated with this IP":
\* of an IP that is blocked already, nothing is deleted, and the ban fails.
RemovesAssociated ==
  [][\A h \in Handlers :
       handler[h].op = "ban" /\ handler[h].del /\ handler[h].pc # "idle" /\ handler'[h].pc = "idle" /\ errors = 0 =>
         Of(handler[h].asked) \cap Stored \subseteq spared]_adminVars

\* "Unable to remove selected ips": all but one of them have been removed.
RefusedRemovesNothing ==
  [][\A h \in Handlers : handler[h].pc = "unblock" /\ Ends(h, "error") => blocked' = blocked]_adminVars

\* "Entries have been deleted." whether they have or not.
ToldAreDeleted ==
  [][\A h \in Handlers : Ends(h, "told") /\ handler[h].op = "delete" =>
       handler[h].files \cap Remaining = {}]_adminVars
=============================================================================
