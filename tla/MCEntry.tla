------------------------------ MODULE MCEntry ------------------------------
(***************************************************************************)
(* The row of a file on small instances: while requests read and change it *)
(* (Entry, where requests and processes make no difference among           *)
(* themselves), and as it goes through the migrations of the database      *)
(* (Migrations).  They share no variable: one moves, the other rests.      *)
(***************************************************************************)
EXTENDS Entry, TLC

CONSTANTS
  Moving,   \* the parts of which one moves
  NULL, Releases, MaxReverts

VARIABLES
  part,     \* the one that moves
  mgDialect, mgBuild, mgApplied, mgDb, mgWork, mgUp, mgLast, mgReverts, mgGiven

\* One file as its size has it expire, with an extension, and one with a time of its own, that
\* has none and hides its IP; the time is dropped by the builds that know files that stay.
TwoFiles ==
  <<[size |-> 50, asked |-> NULL, permanent |-> FALSE, extension |-> TRUE, hidden |-> FALSE,
     kept |-> TRUE],
    [size |-> 90, asked |-> 3, permanent |-> TRUE, extension |-> FALSE, hidden |-> TRUE,
     kept |-> TRUE]>>

Data == INSTANCE Migrations WITH
  Files <- 1..2, Shape <- TwoFiles, dialect <- mgDialect, build <- mgBuild,
  applied <- mgApplied, db <- mgDb, work <- mgWork, up <- mgUp, last <- mgLast,
  reverts <- mgReverts, given <- mgGiven

ASSUME DataAssumption == Data!MigrationsAssumption

mgVars ==
  <<mgDialect, mgBuild, mgApplied, mgDb, mgWork, mgUp, mgLast, mgReverts, mgGiven>>
everything == <<part, vars, mgVars>>

-----------------------------------------------------------------------------
OneInit ==
  /\ part \in Moving
  /\ Init /\ Data!Init
  \* a part that does not move begins in one of its ways
  /\ part # "entry" => ids = {"entry", "list"} /\ \A r, q \in Requests : at[r] = at[q]
  /\ part # "data" => mgDialect = "postgres"

RestEntry == UNCHANGED <<part, mgVars>>
RestData  == UNCHANGED <<part, vars>>

OneNext ==
  \/ part = "entry" /\ Next /\ RestEntry
  \/ part = "data" /\ Data!Next /\ RestData

OneSpec == OneInit /\ [][OneNext]_everything

-----------------------------------------------------------------------------
\* When both histories are set no property of Entry says anything any more.
InDoubt == ~(parted /\ excused)

MCAlike == Permutations(Requests) \cup Permutations(Procs)

\* Whatever upgrades and reverts came before, a build starts on the tables of a database made
\* anew for it, and a run of migrations fails only for a reason that Migrations names (the up
\* and the down of each migration).
SchemaAsReleased == Data!SchemaAsReleased /\ Data!FailuresExplained

\* A row means what it did when it was made (the migrations that copy or change rows).
RowsKeepTheirMeaning == Data!RowsKeepTheirMeaning
=============================================================================
