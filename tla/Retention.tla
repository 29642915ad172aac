----------------------------- MODULE Retention ------------------------------
(***************************************************************************)
(* How long a file is hosted: by its size, or as long as was asked for,    *)
(* which may not be more.  Time is counted in days.                        *)
(***************************************************************************)
EXTENDS Integers

CONSTANTS
  Mb,        \* bytes in a megabyte: 1048576 in the code
  LimitMb,   \* FILE_SIZE_UPLOAD_LIMIT_MB
  Sizes,     \* sizes of files, at most LimitMb * Mb
  Asked,     \* customExpiry, in days
  LastDay    \* bound: days

VARIABLES today, size, created, expires   \* no file: size is -1

vars == <<today, size, created, expires>>

minExpiration == 30
maxExpiration == 365

MaxFileSize == LimitMb * Mb

\* The curve, which its second argument reaches in megabytes' bytes and takes for megabytes.
GetTimeLeftBySize(s, max) ==
  LET whole == max * Mb
      ttl   == ((maxExpiration - minExpiration) * (whole - s) * (whole - s) * (whole - s))
                 \div (whole * whole * whole)
  IN  IF ttl < minExpiration THEN minExpiration ELSE ttl

Hosted(s) == GetTimeLeftBySize(s, MaxFileSize)

Init == today = 0 /\ size = -1 /\ created = 0 /\ expires = 0

\* processUpload and setExpires, without an unlimited expiry.
Upload(s) ==
  /\ size = -1
  /\ size' = s /\ created' = today
  /\ \/ expires' = today + Hosted(s)
     \/ \E a \in Asked : a <= Hosted(s) /\ expires' = today + a
  /\ UNCHANGED today

\* modifyEntry: the expiry that is asked for, or that of the day of the upload again.
Modify ==
  /\ size # -1
  /\ \/ expires' = created + Hosted(size)
     \/ \E a \in Asked : a <= Hosted(size) /\ expires' = today + a
  /\ UNCHANGED <<today, size, created>>

Expired == size # -1 /\ expires < today

Delete ==
  /\ Expired
  /\ size' = -1 /\ created' = 0 /\ expires' = 0
  /\ UNCHANGED today

Tick ==
  /\ today < LastDay
  /\ today' = today + 1
  /\ UNCHANGED <<size, created, expires>>

Next == (\E s \in Sizes : Upload(s)) \/ Modify \/ Delete \/ Tick

Spec == Init /\ [][Next]_vars

-----------------------------------------------------------------------------
\* README.md: "files close to the upload limit will only be hosted for 30 days", and
\* nobody can ask for more than the curve gives.
LargestForThirtyDays == size = MaxFileSize => expires <= today + minExpiration
=============================================================================
