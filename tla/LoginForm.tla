----------------------------- MODULE LoginForm -----------------------------
(***************************************************************************)
(* A form with a captcha: the page of the administrator's login, which     *)
(* cannot be sent again while it is under way, and the page that asks for  *)
(* a bucket, which can.  The script of the captcha, its widget, the page   *)
(* that keeps the token of a solved one, and the server, which shows the   *)
(* token to the service that made it.                                      *)
(*                                                                         *)
(* The page learns whether there is a captcha from the server; the widget  *)
(* is made by a timer that waits for the script, and that the effect which *)
(* starts it starts again with every rendering, for as long as there is no *)
(* widget.                                                                 *)
(***************************************************************************)
EXTENDS Integers, FiniteSets

CONSTANTS
  Enabled,     \* whether the server wants a captcha
  Locks,       \* whether the form is locked while it is sent: withLoading
  Early,       \* whether the object of the script may be there before it can render
  Submits,     \* the calls of handleSubmit that may be under way
  Tokens,      \* what the service gives for a solved captcha
  NoToken,
  MaxSubmits,  \* bound: calls of handleSubmit
  MaxTyped,    \* bound: what is typed beside
  MaxFailed    \* bound: answers that are lost, services that fail

ASSUME LoginAssumption ==
  /\ Enabled \in BOOLEAN /\ Locks \in BOOLEAN /\ Early \in BOOLEAN
  /\ NoToken \notin Tokens
  /\ MaxSubmits \in Nat /\ MaxTyped \in Nat /\ MaxFailed \in Nat

VARIABLES
  config,    \* useCaptcha: still loading, a captcha, or none
  script,    \* the object of the script on the page
  timer,     \* checkAndRender
  widget,    \* the widget, when it is there
  token,     \* captchaToken; captchaVerified is that there is one
  taken,    \* of each token, at the service
  sending,      \* each call of handleSubmit
  here,      \* whether the page is still there
  leaving,   \* and the router on its way to the next
  submits, typed, failed,
  shared,    \* history: the tokens that two calls sent which overlapped
  missed,    \* history: the timer has found an object that could not render
  why        \* history: the reason of the last refusal that was for the captcha

form   == <<config, script, timer, widget, token, here, leaving>>
loginBounds == <<submits, typed, failed>>
loginPast   == <<shared, missed, why>>
loginVars   == <<form, taken, sending, loginBounds, loginPast>>

NotSent == [pc |-> "idle", token |-> NoToken, knew |-> "loading"]

LoginTypeOK ==
  /\ config \in {"loading", "captcha", "none"}
  /\ script \in {"absent", "early", "ready"}
  /\ timer \in BOOLEAN /\ widget \in {"none", "unsolved", "solved"}
  /\ token \in Tokens \cup {NoToken}
  /\ taken \in [Tokens -> {"unmade", "fresh", "used", "expired"}]
  /\ sending \in [Submits -> [pc : {"idle", "sent", "verified", "captcha", "refused", "ok"},
                           token : Tokens \cup {NoToken}, knew : {"loading", "captcha", "none"}]]
  /\ here \in BOOLEAN /\ leaving \in BOOLEAN
  /\ submits \in 0..MaxSubmits /\ typed \in 0..MaxTyped /\ failed \in 0..MaxFailed
  /\ shared \subseteq Tokens /\ missed \in BOOLEAN
  /\ why \in {"no", "loading", "none", "captcha", "shared", "used", "expired"}
  \* the page has a token exactly while the widget is solved
  /\ here => (token # NoToken <=> widget = "solved")

LoginInit ==
  /\ config = "loading" /\ script = "absent" /\ timer = FALSE /\ widget = "none"
  /\ token = NoToken /\ taken = [t \in Tokens |-> "unmade"]
  /\ sending = [s \in Submits |-> NotSent] /\ here = TRUE /\ leaving = FALSE
  /\ submits = 0 /\ typed = 0 /\ failed = 0
  /\ shared = {} /\ missed = FALSE /\ why = "no"

-----------------------------------------------------------------------------
(* The page and its captcha.                                                *)

\* Whatever changes what the page keeps renders it again, with new handlers; the
\* effect of the captcha depends on them.
RenderForm == timer' = (here /\ config = "captcha" /\ widget = "none")

\* useCaptcha.  The captcha brings its script, and starts its timer.
LoadConfig(c) ==
  /\ here /\ config = "loading"
  /\ \/ c = IF Enabled THEN "captcha" ELSE "none"
     \/ c = "none" /\ failed < MaxFailed
  /\ config' = c /\ timer' = (c = "captcha")
  /\ failed' = IF (c = "captcha") = Enabled THEN failed ELSE failed + 1
  /\ UNCHANGED <<script, widget, token, here, leaving, taken, sending, submits, typed, loginPast>>

LoadScript(to) ==
  /\ config = "captcha"
  /\ \/ script = "absent" /\ to \in {"ready"} \cup (IF Early THEN {"early"} ELSE {})
     \/ script = "early" /\ to = "ready"
  /\ script' = to
  /\ UNCHANGED <<config, timer, widget, token, here, leaving, taken, sending, loginBounds, loginPast>>

\* isReady asks for the object only; without render the timer is gone, and no
\* widget comes of it.
RenderCaptcha ==
  /\ timer /\ script # "absent"
  /\ timer' = FALSE
  /\ widget' = IF script = "ready" THEN "unsolved" ELSE "none"
  /\ missed' = (missed \/ script = "early")
  /\ UNCHANGED <<config, script, token, here, leaving, taken, sending, loginBounds, shared, why>>

\* handleCaptchaVerify
Solve ==
  /\ here /\ widget = "unsolved"
  /\ \E t \in Tokens :
       /\ taken[t] = "unmade"
       /\ taken' = [taken EXCEPT ![t] = "fresh"] /\ token' = t
  /\ widget' = "solved" /\ RenderForm
  /\ UNCHANGED <<config, script, here, leaving, sending, loginBounds, loginPast>>

\* handleCaptchaExpire; the service knows by then, and the widget asks again.
ExpireToken ==
  /\ here /\ token # NoToken
  /\ taken' = [taken EXCEPT ![token] = IF @ = "fresh" THEN "expired" ELSE @]
  /\ token' = NoToken /\ widget' = "unsolved" /\ RenderForm
  /\ UNCHANGED <<config, script, here, leaving, sending, loginBounds, loginPast>>

Type ==
  /\ here /\ typed < MaxTyped /\ typed' = typed + 1
  /\ (Locks => \A s \in Submits : sending[s] = NotSent)
  /\ RenderForm
  /\ UNCHANGED <<config, script, widget, token, here, leaving, taken, sending, submits, failed, loginPast>>

-----------------------------------------------------------------------------
(* handleSubmit.                                                            *)

\* The button is there for who has solved the captcha, if there is one.
FormReady == here /\ (config = "captcha" => token # NoToken)
FreeCall  == \E s \in Submits : sending[s] = NotSent
Unlocked == Locks => \A s \in Submits : sending[s] = NotSent

TokenSent == IF config = "captcha" THEN token ELSE NoToken

SubmitForm(s) ==
  /\ FormReady /\ Unlocked /\ sending[s] = NotSent
  /\ submits < MaxSubmits /\ submits' = submits + 1
  /\ sending' = [sending EXCEPT ![s] = [pc |-> "sent", token |-> TokenSent, knew |-> config]]
  /\ shared' = shared \cup {t \in {TokenSent} \ {NoToken} : \E r \in Submits : sending[r].token = t}
  /\ RenderForm
  /\ UNCHANGED <<config, script, widget, token, here, leaving, taken, typed, failed, missed, why>>

GoesTo(s, pc) == sending' = [sending EXCEPT ![s].pc = pc]

\* AbstractCaptchaEngine.verify: without a token, or with one that the service does
\* not take, the answer is an error.
Reason(s) ==
  IF sending[s].token = NoToken THEN sending[s].knew
  ELSE IF sending[s].token \in shared THEN "shared" ELSE taken[sending[s].token]

Takes(s) == sending[s].token # NoToken /\ taken[sending[s].token] = "fresh"

Verify(s) ==
  /\ sending[s].pc = "sent"
  /\ IF ~Enabled \/ Takes(s)
     THEN /\ GoesTo(s, "verified") /\ UNCHANGED why
          /\ taken' = IF Enabled THEN [taken EXCEPT ![sending[s].token] = "used"] ELSE taken
     ELSE GoesTo(s, "captcha") /\ why' = Reason(s) /\ UNCHANGED taken
  /\ UNCHANGED <<form, loginBounds, shared, missed>>

\* The credentials, or the token of a bucket.
Authenticate(s) ==
  /\ sending[s].pc = "verified"
  /\ \E pc \in {"ok", "refused"} : GoesTo(s, pc)
  /\ UNCHANGED <<form, taken, loginBounds, loginPast>>

\* reset, of the widget and then of what the page keeps.
Reset_PageOnly ==
  /\ token' = NoToken /\ UNCHANGED widget
Reset_WidgetOnly ==
  /\ widget' = IF widget = "none" THEN "none" ELSE "unsolved"
  /\ UNCHANGED token
Reset_Nothing == UNCHANGED <<token, widget>>
Reset ==
  /\ token' = NoToken
  /\ widget' = IF widget = "none" THEN "none" ELSE "unsolved"

Ends(s) == sending' = [sending EXCEPT ![s] = NotSent]

Refused(s) ==
  /\ sending[s].pc \in {"captcha", "refused"}
  /\ Ends(s) /\ RenderForm
  /\ IF here THEN Reset ELSE UNCHANGED <<token, widget>>
  /\ UNCHANGED <<config, script, here, leaving, taken, loginBounds, loginPast>>

\* On to the page that was asked for.  Until it comes the form is there, as it was.
Accepted(s) ==
  /\ sending[s].pc = "ok"
  /\ Ends(s) /\ leaving' = TRUE /\ RenderForm
  /\ UNCHANGED <<config, script, widget, token, here, taken, loginBounds, loginPast>>

Navigate ==
  /\ here /\ leaving
  /\ here' = FALSE /\ timer' = FALSE
  /\ UNCHANGED <<config, script, widget, token, leaving, taken, sending, loginBounds, loginPast>>

\* "Network error."; the service may have seen the token, or may itself have failed.
Fails(s) ==
  /\ sending[s].pc # "idle" /\ failed < MaxFailed /\ failed' = failed + 1
  /\ Ends(s) /\ RenderForm
  /\ IF here THEN Reset ELSE UNCHANGED <<token, widget>>
  /\ UNCHANGED <<config, script, here, leaving, taken, submits, typed, loginPast>>

Step(s) == Verify(s) \/ Authenticate(s) \/ Refused(s) \/ Accepted(s)
Loads   == (\E c \in {"captcha", "none"} : LoadConfig(c)) \/ (\E to \in {"early", "ready"} : LoadScript(to))

LoginNext ==
  \/ Loads \/ RenderCaptcha \/ Solve \/ ExpireToken \/ Type \/ Navigate
  \/ \E s \in Submits : SubmitForm(s) \/ Step(s) \/ Fails(s)

LoginSpec == LoginInit /\ [][LoginNext]_loginVars

\* The scripts load, timers fire, requests are answered, the router arrives, and the
\* user solves what is there to be solved.
FairLoginSpec ==
  /\ LoginSpec /\ WF_loginVars(Loads) /\ WF_loginVars(RenderCaptcha) /\ WF_loginVars(Solve)
  /\ WF_loginVars(Navigate)
  /\ \A s \in Submits : WF_loginVars(Step(s))

-----------------------------------------------------------------------------
(* Properties.                                                              *)

\* A token is refused because it expired on its way, or, of a form that does not
\* lock, because it was sent twice, or because the form was sent once more with the
\* token that has been accepted, before the router has come to the next page; it is
\* missing only if the page did not know yet that there is a captcha, or could not ask.
CaptchaRefusalsExplained ==
  /\ why # "captcha"
  /\ why = "used" => leaving
  /\ why = "shared" => ~Locks
  /\ why = "none" => failed > 0

\* In the end the form can be sent, again and again, with a token that nobody has taken,
\* unless the script was met too early; then it takes another rendering.
CanSubmit == FormReady /\ Unlocked /\ (token # NoToken => taken[token] # "used")
ComesToSubmit == []<>(CanSubmit \/ ~here \/ missed \/ \A t \in Tokens : taken[t] # "unmade")
=============================================================================
