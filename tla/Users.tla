------------------------------- MODULE Users -------------------------------
(***************************************************************************)
(* The table of administrators, from the processes that put the first one  *)
(* into it to the requests that log in and change it.                      *)
(*                                                                         *)
(* The rows have ids; two may have one email, for nothing says that it is  *)
(* unique, and a row is looked up by its email.  A session holds the id    *)
(* and the email of the row that logged in, as they were then; it lives in *)
(* Redis, and outlives every process.  A request is a chain of awaits:     *)
(* what it has read may be old when it writes.                             *)
(***************************************************************************)
EXTENDS Integers, FiniteSets

CONSTANTS
  Processes, Clients,
  Emails, Default,   \* what the emails are changed to, and foo@example.com
  Chosen,            \* what the clients choose; every process makes one of its own
  Ids,               \* the ids of rows
  NoUser,
  MaxRequests,       \* bound: requests
  MaxCrashes         \* bound: processes that die, requests that are lost

AllEmails    == Emails \cup {Default}
AllPasswords == Chosen \cup Processes
Credentials  == [email : AllEmails, password : AllPasswords]
LoggedIn     == [id : Ids, email : AllEmails]

ASSUME UsersAssumption ==
  /\ NoUser \notin Ids /\ NoUser \notin AllEmails \cup AllPasswords
  /\ NoUser \notin Credentials /\ NoUser \notin LoggedIn
  /\ Default \notin Emails /\ Chosen \cap Processes = {}
  /\ MaxRequests \in Nat /\ MaxCrashes \in Nat

VARIABLES
  row,         \* the table: [email, password], or NoUser
  boot,        \* $afterInit of each process
  session,     \* the user of each client's session, or NoUser
  request,     \* the request of each client
  known,       \* history: the credentials that somebody has been given or has chosen
  last,        \* history: those that were changed last, and told so; NoUser before
  twins,       \* history: two processes have put a user into the table
  lost,        \* history: a process died before it has told the password
  overlapped,  \* history: two changes overlapped, or one was lost
  requests, crashes

table        == <<row, session>>
usersHistory == <<known, last, twins, lost, overlapped>>
usersBounds  == <<requests, crashes>>
usersVars    == <<table, boot, request, usersHistory, usersBounds>>

NoReq ==
  [op |-> "none", pc |-> "idle", asked |-> NoUser, id |-> NoUser, read |-> NoUser]

Rows == {i \in Ids : row[i] # NoUser}
With(e) == {i \in Rows : row[i].email = e}

UsersTypeOK ==
  /\ row \in [Ids -> Credentials \cup {NoUser}]
  /\ boot \in [Processes -> {"down", "hash", "log", "up"}]
  /\ session \in [Clients -> LoggedIn \cup {NoUser}]
  /\ request \in [Clients -> [op : {"none", "login", "change"},
                              pc : {"idle", "sent", "read", "ok", "refused"},
                              asked : Credentials \cup {NoUser}, id : Ids \cup {NoUser},
                              read : AllPasswords \cup {NoUser}]]
  /\ known \subseteq Credentials /\ last \in Credentials \cup {NoUser}
  /\ twins \in BOOLEAN /\ lost \in BOOLEAN /\ overlapped \in BOOLEAN
  /\ requests \in 0..MaxRequests /\ crashes \in 0..MaxCrashes
  \* rows are never deleted, so that of a session is there
  /\ \A c \in Clients : session[c] # NoUser => session[c].id \in Rows

UsersInit ==
  /\ row = [i \in Ids |-> NoUser] /\ session = [c \in Clients |-> NoUser]
  /\ boot = [p \in Processes |-> "down"] /\ request = [c \in Clients |-> NoReq]
  /\ known = {} /\ last = NoUser
  /\ twins = FALSE /\ lost = FALSE /\ overlapped = FALSE
  /\ requests = 0 /\ crashes = 0

-----------------------------------------------------------------------------
(* $afterInit: a user is made when there is none.                           *)

FirstUser(p) == [email |-> Default, password |-> p]

GetAllUsers(p) ==
  /\ boot[p] = "down"
  /\ boot' = [boot EXCEPT ![p] = IF Rows = {} THEN "hash" ELSE "up"]
  /\ UNCHANGED <<table, request, usersHistory, usersBounds>>

CreateUser(p) ==
  /\ boot[p] = "hash" /\ Rows # Ids
  /\ LET i == CHOOSE n \in Ids \ Rows : TRUE
     IN  row' = [row EXCEPT ![i] = FirstUser(p)]
  /\ boot' = [boot EXCEPT ![p] = "log"]
  /\ twins' = (twins \/ Rows # {})
  /\ UNCHANGED <<session, request, known, last, lost, overlapped, usersBounds>>

\* "New user created: ..."

Announce(p) ==
  /\ boot[p] = "log"
  /\ boot' = [boot EXCEPT ![p] = "up"]
  /\ known' = known \cup {FirstUser(p)}
  /\ UNCHANGED <<table, request, last, twins, lost, overlapped, usersBounds>>

\* A process dies, and is started again.
Crash(p) ==
  /\ boot[p] # "down" /\ crashes < MaxCrashes
  /\ crashes' = crashes + 1
  /\ boot' = [boot EXCEPT ![p] = "down"]
  /\ lost' = (lost \/ boot[p] = "log")
  /\ UNCHANGED <<table, request, known, last, twins, overlapped, requests>>

-----------------------------------------------------------------------------
(* Requests, which need some process that is up.                            *)

Begin(c, op, asked) ==
  /\ request[c].pc = "idle" /\ \E p \in Processes : boot[p] = "up"
  /\ requests < MaxRequests /\ requests' = requests + 1
  /\ request' = [request EXCEPT ![c] = [NoReq EXCEPT !.op = op, !.pc = "sent", !.asked = asked]]

\* With what somebody knows, or has got wrong.
Login(c, asked) ==
  /\ Begin(c, "login", asked)
  /\ UNCHANGED <<table, boot, usersHistory, crashes>>

Changing == {c \in Clients : request[c].op = "change" /\ request[c].pc # "refused"}

\* changeDetails, of a session that is logged in.
ChangeDetails(c, asked) ==
  /\ session[c] # NoUser /\ Begin(c, "change", asked)
  /\ overlapped' = (overlapped \/ Changing # {})
  /\ UNCHANGED <<table, boot, known, last, twins, lost, crashes>>

Goes(c, pc) == request' = [request EXCEPT ![c].pc = pc]

\* getUser: a row with that email, for a login the one that is asked for, for a
\* change that of the session.
Sought_Asked(c) == With(request[c].asked.email)
Sought(c) == With(IF request[c].op = "login" THEN request[c].asked.email ELSE session[c].email)

GetUser(c) ==
  /\ request[c].pc = "sent"
  /\ IF Sought(c) = {}
     THEN Goes(c, "refused")
     ELSE \E i \in Sought(c) :
            request' = [request EXCEPT ![c].pc = "read", ![c].id = i, ![c].read = row[i].password]
  /\ UNCHANGED <<table, boot, usersHistory, usersBounds>>

\* argon2.verify, of the password that was read; then passport's login.
Verified(c) == request[c].read = request[c].asked.password

Verify(c) ==
  /\ request[c].op = "login" /\ request[c].pc = "read"
  /\ IF Verified(c)
     THEN /\ session' = [session EXCEPT ![c] = [id |-> request[c].id, email |-> request[c].asked.email]]
          /\ Goes(c, "ok")
     ELSE Goes(c, "refused") /\ UNCHANGED session
  /\ UNCHANGED <<row, boot, usersHistory, usersBounds>>

\* The row that was found is saved as it is asked for, once the password is hashed.
Changed_EmailOnly(c) == [email |-> request[c].asked.email]
Changed_KeepsPassword(c) == [request[c].asked EXCEPT !.password = request[c].read]
Changed_KeepsEmail(c) == [request[c].asked EXCEPT !.email = row[request[c].id].email]
Changed(c) == request[c].asked

UpdateUser(c) ==
  /\ request[c].op = "change" /\ request[c].pc = "read"
  /\ row' = [row EXCEPT ![request[c].id] = Changed(c)]
  /\ known' = known \cup {request[c].asked}
  /\ Goes(c, "ok")
  /\ UNCHANGED <<session, boot, last, twins, lost, overlapped, usersBounds>>

\* The answer; "Details changed successfully".
Reply(c) ==
  /\ request[c].pc \in {"ok", "refused"}
  /\ last' = IF request[c].op = "change" /\ request[c].pc = "ok" THEN request[c].asked ELSE last
  /\ request' = [request EXCEPT ![c] = NoReq]
  /\ UNCHANGED <<table, boot, known, twins, lost, overlapped, usersBounds>>

LogOut(c) ==
  /\ session[c] # NoUser /\ request[c].pc = "idle"
  /\ session' = [session EXCEPT ![c] = NoUser]
  /\ UNCHANGED <<row, boot, request, usersHistory, usersBounds>>

\* A request dies with its process, or its answer is lost.
LoseRequest(c) ==
  /\ request[c].pc # "idle" /\ crashes < MaxCrashes
  /\ crashes' = crashes + 1
  /\ overlapped' = (overlapped \/ request[c].op = "change")
  /\ request' = [request EXCEPT ![c] = NoReq]
  /\ UNCHANGED <<table, boot, known, last, twins, lost, requests>>

Boot(p) == GetAllUsers(p) \/ CreateUser(p) \/ Announce(p) \/ Crash(p)

Request(c) ==
  \/ \E asked \in Credentials : Login(c, asked)
  \/ \E e \in Emails, w \in Chosen : ChangeDetails(c, [email |-> e, password |-> w])
  \/ GetUser(c) \/ Verify(c) \/ UpdateUser(c) \/ Reply(c) \/ LogOut(c) \/ LoseRequest(c)

UsersNext ==
  \/ \E p \in Processes : Boot(p)
  \/ \E c \in Clients : Request(c)

UsersSpec == UsersInit /\ [][UsersNext]_usersVars

-----------------------------------------------------------------------------
(* Properties.                                                              *)

\* These credentials log in, whichever row is found.
LogsIn(k) == With(k.email) # {} /\ \A i \in With(k.email) : row[i].password = k.password

\* Once there is a user, somebody can log in: unless the process that made it
\* died before it said with what, or two made one each.
NobodyLockedOut ==
  Rows # {} /\ (\A p \in Processes : boot[p] # "log") /\ ~lost /\ ~twins =>
    \E k \in known : LogsIn(k)

\* The credentials that were changed last are those that log in, unless changes
\* overlapped, or two users have one email.
ChangedLogsIn ==
  last # NoUser /\ Changing = {} /\ ~overlapped /\ ~twins => LogsIn(last)

\* All of them: who is told that credentials work can log in with them.
LastChangeWorks == UsersTypeOK /\ ChangedLogsIn /\ NobodyLockedOut

\* A change is refused, of a session that is logged in, only if the email of its
\* user has been changed since.
RefusalsAreStale ==
  [][\A c \in Clients : request[c].op = "change" /\ request[c].pc = "sent" /\ request'[c].pc = "refused" =>
       row[session[c].id].email # session[c].email]_usersVars

\* "... a username and password that can be used to log in to the admin": two
\* processes say so of two passwords, and one of them does not.
ToldPasswordWorks ==
  \A k \in known : k.email = Default /\ requests = 0 => LogsIn(k)

\* "You are not logged in": only who is not is told so.
StillLoggedIn ==
  [][\A c \in Clients : request[c].op = "change" /\ request[c].pc = "sent" /\ request'[c].pc = "refused" =>
       session[c] = NoUser]_usersVars
=============================================================================
