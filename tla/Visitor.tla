------------------------------ MODULE Visitor ------------------------------
(***************************************************************************)
(* What somebody meets who opens a bucket: the pages that ask for it and   *)
(* show it, the captcha of their form, and the previews of the files.      *)
(* They share no variable, and each may move while the others rest.        *)
(***************************************************************************)
EXTENDS BucketAccess, LoginForm, FilePreview

\* The page of a bucket is empty only for a reason, the captcha refuses only for one, and a
\* protected file is not previewed (useBucketAuth, Captcha, FilePreview).
NothingUncalledFor ==
  /\ AccessTypeOK /\ EmptyExplained
  /\ LoginTypeOK /\ CaptchaRefusalsExplained
  /\ PreviewTypeOK /\ ProtectedIsHidden
=============================================================================
