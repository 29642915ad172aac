----------------------------- MODULE Migrations -----------------------------
(***************************************************************************)
(* The database while builds of the program follow each other: each one    *)
(* runs the migrations that are not yet applied, all in one transaction,   *)
(* before its server starts, and the last migration can be reverted.       *)
(* Files are uploaded in between, and their rows go through every          *)
(* migration that comes after.                                             *)
(*                                                                         *)
(* A migration is its number in the order of the files; a build is the     *)
(* number of the last one it has.  A time is a day; the limit of the data  *)
(* migration is 100 MB whatever the environment says, as the test of it is *)
(* negated.  An IP is the number of times it has been hashed.              *)
(***************************************************************************)
EXTENDS Schema, FiniteSets
LOCAL INSTANCE SequencesExt

CONSTANTS
  NULL,
  Releases,    \* the builds that are deployed
  Files,       \* the first ones to the last ones uploaded, 1..n
  Shape,       \* of each: its size, the days asked for, and whether it has an extension ...
  MaxReverts

VARIABLES
  dialect,
  build,       \* deployed
  applied,     \* the last migration the database has
  db,
  work,        \* of the transaction under way: the database, and the last migration in it
  up,          \* the server is
  last,        \* of the runs of migrations: its direction, where it ended, and if it was done
  reverts,
  given        \* of each row: when it was made, and the migrations reverted since

vars == <<dialect, build, applied, db, work, up, last, reverts, given>>

\* The rows: of each file, of one bucket and of one album, with their tables.
Things == ({"file"} \X Files) \cup {<<"bucket", 1>>, <<"album", 1>>}

\* What is assumed of the constants.
MigrationsAssumption ==
  /\ Releases \subseteq 1..Newest
  /\ IsFiniteSet(Files) /\ Files = 1..Cardinality(Files)
  /\ MaxReverts \in Nat
  /\ \A f \in Files : /\ Shape[f].size \in 0..100
                      /\ Shape[f].asked \in Nat \cup {NULL}
                      /\ {Shape[f].permanent, Shape[f].extension, Shape[f].hidden,
                          Shape[f].kept} \subseteq BOOLEAN

-----------------------------------------------------------------------------
(* The database does a statement, or fails.                                 *)

Empty  == [ok |-> TRUE, tables |-> <<>>, indexes |-> <<>>]
Failed == [Empty EXCEPT !.ok = FALSE]

Without(f, S) == [x \in DOMAIN f \ S |-> f[x]]
Holding(table, rows) == [columns |-> table.columns, required |-> table.required,
                         references |-> table.references, rows |-> rows]
IndexesOf(d, t) == {i \in DOMAIN d.indexes : d.indexes[i] = t}

\* The DEFAULT of a column.
Default(c) ==
  CASE c = "originalFileName" -> ""
    [] c = "encrypted"        -> FALSE
    [] c = "views"            -> 0
    [] c = "type"             -> "NORMAL"
    [] OTHER                  -> NULL

Copied(row, columns, renamed) ==
  [c \in columns |->
     LET old == IF c \in DOMAIN renamed THEN renamed[c] ELSE c
     IN  IF old \in DOMAIN row THEN row[old] ELSE Default(c)]
Complete(table, rows) == \A r \in DOMAIN rows, c \in table.required : rows[r][c] # NULL

\* SQLite has the references to a table follow its new name.
Renamed(table, t, to) ==
  [table EXCEPT !.references = [c \in DOMAIN @ |-> IF @[c] = t THEN to ELSE @[c]]]

-----------------------------------------------------------------------------
(* The statements that change rows.                                         *)

\* By size, for files with no time of their own; at least thirty days.
ByLimit(size) == (335 * (100 - size) * (100 - size) * (100 - size)) \div 1000000
LifeOf(size)  == IF ByLimit(size) < 30 THEN 30 ELSE ByLimit(size)

\* Mutant: the times that were asked for are forgotten.
Epoch_BySize(row) == [row EXCEPT !.expires = row.createdAt + LifeOf(row.fileSize)]

\* From how long to until when.
Epoch(row) ==
  [row EXCEPT !.expires =
     row.createdAt + IF row.expires # NULL /\ row.expires > 0 THEN row.expires ELSE LifeOf(row.fileSize)]

PathOf(row) == IF row.fileExtension = NULL THEN row.fileName
               ELSE Append(row.fileName, row.fileExtension)
OnDisk      == {IF Shape[f].extension THEN <<f, "ext">> ELSE <<f>> : f \in Files}
Typed(row)  == IF PathOf(row) \in OnDisk THEN [row EXCEPT !.mediaType = "type"] ELSE row

Split(row) ==
  IF row.fileExtension = NULL /\ Len(row.fileName) > 1
  THEN [row EXCEPT !.fileName = Front(@), !.fileExtension = Last(row.fileName)]
  ELSE row

Hashed(row) == IF row.ip = NULL THEN row ELSE [row EXCEPT !.ip = @ + 1]

\* One after the other by creation, in each album.
Placed(rows) ==
  [r \in DOMAIN rows |->
     IF rows[r].albumToken = NULL THEN rows[r]
     ELSE [rows[r] EXCEPT !.addedToAlbumOrder =
             Cardinality({s \in DOMAIN rows : /\ rows[s].albumToken = rows[r].albumToken
                                              /\ rows[s].createdAt <= rows[r].createdAt})]]

Each(Op(_), rows) == [r \in DOMAIN rows |-> Op(rows[r])]
Never(row)        == [row EXCEPT !.expires = 0]
Untyped(row)      == [row EXCEPT !.mediaType = NULL]
NoExtension(row)  == [row EXCEPT !.fileExtension = NULL]

Updated(what, rows) ==
  CASE what = "deltas to epochs" -> Each(Epoch, rows)
    [] what = "no expiry"        -> Each(Never, rows)
    [] what = "media types"      -> Each(Typed, rows)
    [] what = "no media types"   -> Each(Untyped, rows)
    [] what = "split names"      -> Each(Split, rows)
    [] what = "no extensions"    -> Each(NoExtension, rows)
    [] what = "hash file ips"    -> Each(Hashed, rows)
    [] what = "hash bucket ips"  -> Each(Hashed, rows)
    [] what = "album order"      -> Placed(rows)
Target(what) == IF what = "hash bucket ips" THEN "bucket" ELSE "file"

-----------------------------------------------------------------------------
\* A statement can be done if what it names is there and no row would lack a value.
CanDo(d, s) ==
  LET here == DOMAIN d.tables
  IN  CASE s.sql = "create"         -> s.table \notin here
        [] s.sql = "create index"   -> s.table \in here /\ s.index \notin DOMAIN d.indexes
        [] s.sql = "drop index"     -> s.index \in DOMAIN d.indexes
        [] s.sql = "rename"         -> s.table \in here /\ s.to \notin here
        [] s.sql = "copy"           ->
             /\ {s.table, s.to} \subseteq here
             /\ Complete(d.tables[s.to],
                         [r \in DOMAIN d.tables[s.table].rows |->
                            Copied(d.tables[s.table].rows[r], d.tables[s.to].columns, s.renamed)])
        [] s.sql = "add column"     -> s.table \in here /\ s.column \notin d.tables[s.table].columns
        [] s.sql \in {"drop column", "drop not null"} ->
             s.table \in here /\ s.column \in d.tables[s.table].columns
        [] s.sql = "set not null"   ->
             /\ s.table \in here
             /\ \A r \in DOMAIN d.tables[s.table].rows : d.tables[s.table].rows[r][s.column] # NULL
        [] s.sql = "refer"          -> {s.table, s.to} \subseteq here
        [] s.sql = "drop reference" ->
             s.table \in here /\ s.column \in DOMAIN d.tables[s.table].references
        [] s.sql = "drop table"     -> s.table \in here
        [] s.sql = "update"         -> Target(s.what) \in here
        [] OTHER                    -> TRUE

\* The tables after it.
TablesAfter(T, s) ==
  LET t       == T[s.table]
      Put(new) == (s.table :> new) @@ T
  IN
  CASE s.sql \in {"create", "create if none"} ->
         IF s.table \in DOMAIN T THEN T ELSE (s.table :> Holding(s.as, <<>>)) @@ T
    [] s.sql = "drop table" -> Without(T, {s.table})
    [] s.sql = "rename" ->
         [u \in (DOMAIN T \ {s.table}) \cup {s.to} |->
            Renamed(IF u = s.to THEN t ELSE T[u], s.table, s.to)]
    [] s.sql = "copy" ->
         (s.to :> Holding(T[s.to], [r \in DOMAIN t.rows |->
                                      Copied(t.rows[r], T[s.to].columns, s.renamed)])) @@ T
    [] s.sql = "add column" ->
         Put(Holding(With(t, {s.column}, {}),
                     [r \in DOMAIN t.rows |-> (s.column :> NULL) @@ t.rows[r]]))
    [] s.sql = "drop column" ->
         Put(Holding([t EXCEPT !.columns = @ \ {s.column}],
                     [r \in DOMAIN t.rows |-> Without(t.rows[r], {s.column})]))
    [] s.sql = "set not null"   -> Put(With(t, {}, {s.column}))
    [] s.sql = "drop not null"  -> Put(Nullable(t, s.column))
    [] s.sql = "refer"          -> Put(Referring(t, s.column, s.to))
    [] s.sql = "drop reference" ->
         Put([t EXCEPT !.references = Without(@, {s.column})])
    [] s.sql = "update"         ->
         LET u == Target(s.what) IN (u :> Holding(T[u], Updated(s.what, T[u].rows))) @@ T
    [] OTHER                    -> T

\* The indexes after it: those of a table go with it.
IndexesAfter(d, s) ==
  CASE s.sql \in {"create index", "create index if none"} -> (s.index :> s.table) @@ d.indexes
    [] s.sql = "drop index" -> Without(d.indexes, {s.index})
    [] s.sql = "drop table" -> Without(d.indexes, IndexesOf(d, s.table))
    [] s.sql = "rename"     ->
         [i \in DOMAIN d.indexes |-> IF d.indexes[i] = s.table THEN s.to ELSE d.indexes[i]]
    [] OTHER                -> d.indexes

Exec(d, s) ==
  IF d.ok /\ CanDo(d, s)
  THEN [ok |-> TRUE, tables |-> TablesAfter(d.tables, s), indexes |-> IndexesAfter(d, s)]
  ELSE Failed
Run(d, statements) == FoldLeft(Exec, d, statements)

\* What a database of nothing becomes, after each migration.
Becoming(of) ==
  FoldLeft(LAMBDA made, n : Append(made, Run(Last(made), Migration(of, n).up)), <<Empty>>,
           [n \in 1..(Newest - Before[of]) |-> n + Before[of]])
Made == [of \in DOMAIN Before |-> Becoming(of)]
Fresh(of, n) == Made[of][n - Before[of] + 1]

-----------------------------------------------------------------------------
\* A database of SQLite may be older than the migrations: the first one takes its tables as
\* they are.
Init ==
  /\ dialect \in DOMAIN Before
  /\ build = Before[dialect] /\ applied = Before[dialect]
  /\ \/ db = Empty /\ up = FALSE
     \/ dialect = "sqlite" /\ db = Fresh("sqlite", 1) /\ up = TRUE
  /\ work = NULL /\ last = NULL /\ reverts = 0
  /\ given = [x \in Things |-> NULL]

Deploy(r) ==
  /\ work = NULL /\ r >= applied /\ r > Before[dialect]
  /\ build' = r /\ up' = FALSE
  /\ UNCHANGED <<dialect, applied, db, work, last, reverts, given>>

\* The server starts when nothing is left to apply.
Start ==
  /\ work = NULL /\ ~up /\ build > Before[dialect]
  /\ IF applied = build THEN up' = TRUE /\ work' = work
     ELSE work' = [db |-> db, at |-> applied] /\ up' = up
  /\ UNCHANGED <<dialect, build, applied, db, last, reverts, given>>

Apply ==
  /\ work # NULL /\ work.at < build
  /\ LET after == Run(work.db, Migration(dialect, work.at + 1).up)
     IN  IF after.ok THEN work' = [db |-> after, at |-> work.at + 1] /\ last' = last
         ELSE work' = NULL /\ last' = [way |-> "up", at |-> work.at + 1, done |-> FALSE]
  /\ UNCHANGED <<dialect, build, applied, db, up, reverts, given>>

Commit ==
  /\ work # NULL /\ work.at = build
  /\ db' = work.db /\ applied' = build /\ work' = NULL /\ up' = TRUE
  /\ last' = [way |-> "up", at |-> build, done |-> TRUE]
  /\ UNCHANGED <<dialect, build, reverts, given>>

\* The process ends, and the transaction with it.
Crash ==
  /\ work # NULL
  /\ work' = NULL
  /\ UNCHANGED <<dialect, build, applied, db, up, last, reverts, given>>

\* The last migration is reverted, in a transaction of its own.
Revert ==
  /\ work = NULL /\ applied > Before[dialect] /\ build >= applied /\ reverts < MaxReverts
  /\ up' = FALSE /\ reverts' = reverts + 1
  /\ LET after == Run(db, Migration(dialect, applied).down)
     IN  /\ last' = [way |-> "down", at |-> applied, done |-> after.ok]
         /\ IF after.ok
            THEN /\ db' = after /\ applied' = applied - 1
                 /\ given' = [x \in Things |->
                      IF given[x] = NULL THEN NULL
                      ELSE [given[x] EXCEPT !.undone = @ \cup {applied}]]
            ELSE UNCHANGED <<db, applied, given>>
  /\ UNCHANGED <<dialect, build, work>>

-----------------------------------------------------------------------------
(* What a build stores of a file.                                           *)

Uploaded == {f \in Files : given[<<"file", f>>] # NULL}
Today    == Cardinality(Uploaded) + 1

\* The time asked for, until the builds with a time of expiry.
ExpiryAt(f, v) ==
  IF v < 5 THEN Shape[f].asked
  ELSE IF Shape[f].permanent /\ v >= 11 THEN NULL
  ELSE Today + IF Shape[f].asked = NULL THEN LifeOf(Shape[f].size) ELSE Shape[f].asked
IpAt(v) == IF v < 19 THEN 0 ELSE 1
Row(f) == db.tables["file"].rows[f]
PlaceNow == Cardinality({f \in DOMAIN db.tables["file"].rows : Row(f).albumToken # NULL}) + 1

FileRow(f, v) ==
  LET s == Shape[f]
  IN [c \in db.tables["file"].columns |->
        CASE c = "createdAt"     -> Today
          [] c = "fileName"      -> IF v < 2 /\ s.extension THEN <<f, "ext">> ELSE <<f>>
          [] c = "fileExtension" -> IF s.extension THEN "ext" ELSE NULL
          [] c = "fileSize"      -> s.size
          [] c \in {"customExpires", "expires"} -> ExpiryAt(f, v)
          [] c = "ip"            -> IF s.hidden /\ v >= 20 THEN NULL ELSE IpAt(v)
          [] c = "mediaType"     -> "type"
          [] c \in {"bucketToken", "albumToken"} -> IF s.kept THEN "kept" ELSE NULL
          [] c = "addedToAlbumOrder" -> IF s.kept THEN PlaceNow ELSE NULL
          [] c = "thumbnailCacheId" -> NULL
          [] OTHER               -> f]
BucketRow(v) ==
  [c \in db.tables["bucket"].columns |-> IF c = "ip" THEN IpAt(v) ELSE "kept"]
AlbumRow == [c \in db.tables["album"].columns |-> IF c = "publicToken" THEN NULL ELSE "kept"]

\* A file is uploaded, with the bucket and the album it is to be in.
Upload(f) ==
  /\ up /\ Uploaded = 1..(f - 1)
  /\ LET new == {x \in Things \ {<<"file", g>> : g \in Files \ {f}} :
                     /\ given[x] = NULL /\ x[1] \in DOMAIN db.tables
                     /\ x[1] # "file" => Shape[f].kept}
         RowOf(t) == CASE t = "file"   -> FileRow(f, build)
                       [] t = "bucket" -> BucketRow(build)
                       [] t = "album"  -> AlbumRow
     IN  /\ db' = [db EXCEPT !.tables = [t \in DOMAIN @ |->
                     Holding(@[t], [r \in DOMAIN @[t].rows \cup {x[2] : x \in {y \in new : y[1] = t}} |->
                                     IF <<t, r>> \in new THEN RowOf(t) ELSE @[t].rows[r]])]]
         /\ given' = [x \in Things |->
              IF x \in new THEN [at |-> Today, build |-> build, undone |-> {}] ELSE given[x]]
  /\ UNCHANGED <<dialect, build, applied, work, up, last, reverts>>

Next ==
  \/ \E r \in Releases : Deploy(r)
  \/ Start \/ Apply \/ Commit \/ Crash \/ Revert
  \/ \E f \in Files : Upload(f)

Spec == Init /\ [][Next]_vars

-----------------------------------------------------------------------------
\* What a database has, the rows left out.
SchemaOf(d) ==
  [tables |-> [t \in DOMAIN d.tables |->
                 Table(d.tables[t].columns, d.tables[t].required, d.tables[t].references)],
   indexes |-> d.indexes]

\* Once a build has started, by whatever upgrades, reverts and failures before, its tables are
\* those of a database made anew for it, and the newest build has those its entities ask for
\* (DataSource.migrations, the up and the down of each migration).  But for the index of the
\* sessions, which the down of RemoveSession does not make again, and for references: a revert
\* that makes a table anew leaves those of others to it at the table that is dropped, until
\* the next upgrade.
SchemaAsReleased ==
  up /\ applied > Before[dialect] =>
    LET was == SchemaOf(Fresh(dialect, applied))
        now == SchemaOf(db)
        reverted == last # NULL /\ last.way = "down"
    IN  /\ DOMAIN now.tables = DOMAIN was.tables
        /\ \A t \in DOMAIN was.tables :
             \/ now.tables[t] = was.tables[t]
             \/ /\ reverted /\ dialect = "sqlite"
                /\ now.tables[t] = [was.tables[t] EXCEPT !.references = now.tables[t].references]
                /\ \A c \in DOMAIN was.tables[t].references :
                     LET to == was.tables[t].references[c]
                     IN  now.tables[t].references[c] \in {to, Temporary(to)}
        /\ DOMAIN was.indexes \ DOMAIN now.indexes \subseteq {"session expiredAt"}
        /\ \A i \in DOMAIN now.indexes : i \in DOMAIN was.indexes /\ now.indexes[i] = was.indexes[i]
        /\ applied = Newest => now = Entities

\* An upgrade does not fail; a revert does for the index of the sessions that an earlier one
\* has not made again, and for values the older tables cannot have: no time of expiry, no IP.
FailuresExplained ==
  last # NULL /\ ~last.done =>
    /\ last.way = "down"
    /\ \/ last.at = Before[dialect] + 1 /\ (applied = last.at => "session expiredAt" \notin DOMAIN db.indexes)
       \/ /\ dialect = "sqlite"
          /\ \/ last.at = 11 /\ \E f \in Uploaded : Shape[f].permanent
             \/ last.at = 20 /\ \E f \in Uploaded : Shape[f].hidden

-----------------------------------------------------------------------------
\* When a file expires: when it was to, in days after its upload until migration 5.
ExpiresAsGiven(f) ==
  LET asked == Shape[f].asked
      made  == given[<<"file", f>>]
  IN  IF applied < 5 THEN Row(f)[IF applied < 4 THEN "customExpires" ELSE "expires"] = asked
      ELSE IF made.build >= 11 /\ Shape[f].permanent THEN Row(f).expires = NULL
      ELSE Row(f).expires = made.at + IF asked = NULL THEN LifeOf(Shape[f].size) ELSE asked

\* A row means what it did when it was made, whichever migrations have moved it since, but for
\* what reverting one of them has lost: the file is found, it expires when it was to, its type
\* is known, its IP is hashed once, and it is in its bucket and at its place in its album (the
\* copies of the tables, ExpiresDataMigration, MediaTypeData, OldFiles, HashIp, AddAlbumOrder).
RowsKeepTheirMeaning ==
  up => \A x \in {y \in Things : given[y] # NULL} :
    LET undone  == given[x].undone
        Since(n) == given[x].build >= n /\ n \notin undone
        first    == [file |-> Before[dialect] + 1, bucket |-> 13, album |-> 16][x[1]]
        named    == {2, 9} \cap undone = {}
    IN  {first, Before[dialect] + 1} \cap undone = {} =>
          /\ x[2] \in DOMAIN db.tables[x[1]].rows
          /\ x[1] \in {"file", "bucket"} /\ 19 \notin undone
               => db.tables[x[1]].rows[x[2]].ip \in {IpAt(applied), NULL}
          /\ x[1] = "file" =>
               LET f == x[2]
               IN  /\ applied >= 9 /\ named => PathOf(Row(f)) \in OnDisk
                   /\ 5 \notin undone => ExpiresAsGiven(f)
                   /\ applied >= 8 /\ 8 \notin undone /\ named => Row(f).mediaType = "type"
                   /\ Since(13) /\ Shape[f].kept => Row(f).bucketToken = "kept"
                   /\ applied >= 25 => \A g \in DOMAIN db.tables["file"].rows :
                        {Row(f).albumToken, Row(g).albumToken} = {"kept"} /\ f < g
                          => Row(f).addedToAlbumOrder < Row(g).addedToAlbumOrder
=============================================================================
