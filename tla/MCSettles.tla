----------------------------- MODULE MCSettles ------------------------------
(***************************************************************************)
(* What pages come to, on small instances, side by side: the two pages of  *)
(* a bucket and its session, the page of a file with a password, the       *)
(* previews of files, and the form with a captcha. They share no           *)
(* variable: one moves, the others rest, and what is fair in each is fair  *)
(* of the one that moves.                                                  *)
(***************************************************************************)
EXTENDS Visitor, TLC

CONSTANTS
  Moving  \* the parts of which one moves

VARIABLES
  part,  \* the one that moves
  faFile, faJobs, faViews, faTab, faReq, faGot, faLinked, faBare, faBarred, faVisits, faSubmits,
  faChanges, faFaults  \* of FileAccess

File == INSTANCE FileAccess WITH
  FileTabs <- Tabs, Passwords <- {"p", "q"}, NoPassword <- Nothing, Redirects <- FALSE,
  MaxVisits <- 2, MaxSubmits <- 1, MaxChanges <- 1, MaxFaults <- 1, file <- faFile,
  jobs <- faJobs, views <- faViews, tab <- faTab, req <- faReq, got <- faGot,
  linked <- faLinked, bare <- faBare, barred <- faBarred, visits <- faVisits, submits <- faSubmits,
  changes <- faChanges, faults <- faFaults

faVars ==
  <<faFile, faJobs, faViews, faTab, faReq, faGot, faLinked, faBare, faBarred, faVisits,
    faSubmits, faChanges, faFaults>>
everything == <<part, accessVars, faVars, previewVars, loginVars>>

-----------------------------------------------------------------------------
OneInit ==
  /\ part \in Moving
  /\ AccessInit /\ File!FileInit /\ PreviewInit /\ LoginInit
  \* a part that does not move begins in one of its ways
  /\ part # "access" => bucket = [b \in Buckets |-> "there"] /\ mine = Nothing
  /\ part # "file" => faFile = [there |-> TRUE, pw |-> "p", once |-> FALSE, by |-> "nobody"] /\ ~faBarred
  /\ part # "preview" => protected = {}

RestAccess == UNCHANGED <<part, faVars, previewVars, loginVars>>
RestFile == UNCHANGED <<part, accessVars, previewVars, loginVars>>
RestPreview == UNCHANGED <<part, accessVars, faVars, loginVars>>
RestLogin == UNCHANGED <<part, accessVars, faVars, previewVars>>

OneNext ==
  \/ part = "access" /\ AccessNext /\ RestAccess
  \/ part = "file" /\ File!FileNext /\ RestFile
  \/ part = "preview" /\ PreviewNext /\ RestPreview
  \/ part = "login" /\ LoginNext /\ RestLogin

OneSpec == OneInit /\ [][OneNext]_everything

\* A step of a part, for the fairness of that part.
AccessStep(A)  == part = "access" /\ A /\ RestAccess
FileStep(A)    == part = "file" /\ A /\ RestFile
PreviewStep(A) == part = "preview" /\ A /\ RestPreview
LoginStep(A)   == part = "login" /\ A /\ RestLogin

\* The fairness of the four modules, of the one that moves.
FairOneSpec ==
  /\ OneSpec
  /\ \A t \in Tabs :
       /\ WF_everything(AccessStep(PageStep(t))) /\ WF_everything(AccessStep(ActStep(t)))
       /\ WF_everything(FileStep(File!OwnAnswered(t))) /\ WF_everything(FileStep(File!Submitted(t)))
       /\ \A k \in File!Kinds : WF_everything(FileStep(File!Progress(t, k)))
  /\ WF_everything(FileStep(File!PostProcess))
  /\ \A f \in Previewed : WF_everything(PreviewStep(LoadEnds(f)))
  /\ WF_everything(LoginStep(Loads)) /\ WF_everything(LoginStep(RenderCaptcha))
  /\ WF_everything(LoginStep(Solve)) /\ WF_everything(LoginStep(Navigate))
  /\ \A s \in {1, 2} : WF_everything(LoginStep(Step(s)))

-----------------------------------------------------------------------------
\* A tab comes to rest on the right page of the bucket, each check of a file at the file, the
\* form or an error, what is on screen ceases to spin however often it renders, and the form
\* with the captcha can be sent again, unless its script was met too early.
PagesSettle ==
  /\ Settles /\ File!PageSettles /\ PreviewsSettle
  /\ part = "login" => ComesToSubmit
=============================================================================
