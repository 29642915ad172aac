------------------------------ MODULE MCAccess ------------------------------
(***************************************************************************)
(* Who opens what, on small instances, side by side: the sessions of       *)
(* buckets, the password page of a file, and the user of the               *)
(* administration with the page that is behind the login. They share no    *)
(* variable: one moves, the others rest.                                   *)
(***************************************************************************)
EXTENDS BucketAccess, FileAccess, Administration, TLC

CONSTANT Moving   \* the parts of which one moves
VARIABLE part     \* the one that moves

\* Two files of one IP.
Both == [f \in 1..2 |-> "ip"]

everything == <<part, accessVars, fileVars, usersVars, adminVars>>

-----------------------------------------------------------------------------
OneInit ==
  /\ part \in Moving
  /\ AccessInit /\ FileInit /\ UsersInit /\ AdminInit
  \* a part that does not move begins in one of its ways
  /\ part # "access" => bucket = [b \in Buckets |-> "there"] /\ mine = Nothing
  /\ part # "file" => file = [there |-> TRUE, pw |-> "w", once |-> FALSE, by |-> "nobody"] /\ ~barred
  /\ part # "admin" => blocked = {} /\ place = [f \in AllFiles |-> IF f = 1 THEN "stored" ELSE "new"]

OneNext ==
  \/ part = "access" /\ AccessNext /\ UNCHANGED <<part, fileVars, usersVars, adminVars>>
  \/ part = "file" /\ FileNext /\ UNCHANGED <<part, accessVars, usersVars, adminVars>>
  \/ part = "user" /\ UsersNext /\ UNCHANGED <<part, accessVars, fileVars, adminVars>>
  \* others are at work while there is one handler: with more of them, the page is alone
  \* and one of the two files may expire
  \/ part = "admin" /\ AdminNext /\ (others' = {} \/ begun' < 2) /\ place'[2] # "expired"
                     /\ UNCHANGED <<part, accessVars, fileVars, usersVars>>

OneSpec == OneInit /\ [][OneNext]_everything
=============================================================================
