------------------------------- MODULE Schema -------------------------------
(***************************************************************************)
(* The tables of the database, and the migrations that have brought them   *)
(* to what they are: one definition per migration of SQLite, and one per   *)
(* migration of Postgres, each a pair of sequences of SQL statements.      *)
(* SQLite cannot alter a table: most of its migrations make another one,   *)
(* copy the rows and drop the old one.  Types of columns and the texts of  *)
(* rows are left out.                                                      *)
(*                                                                         *)
(* Migrations has the runs of them.                                        *)
(***************************************************************************)
EXTENDS Integers, Sequences, TLC

-----------------------------------------------------------------------------
(* Statements.  A table has columns, those that are NOT NULL, foreign keys  *)
(* from a column to a table, and rows; an index is on a table.              *)

Table(columns, required, references) ==
  [columns |-> columns, required |-> required, references |-> references]

CreateIfNone(t, table) == [sql |-> "create if none", table |-> t, as |-> table]
Create(t, table)     == [sql |-> "create", table |-> t, as |-> table]
DropTable(t)         == [sql |-> "drop table", table |-> t]
Rename(t, to)        == [sql |-> "rename", table |-> t, to |-> to]
Copy(t, to, renamed) == [sql |-> "copy", table |-> t, to |-> to, renamed |-> renamed]
CreateIndex(i, t)    == [sql |-> "create index", table |-> t, index |-> i]
IndexIfNone(i, t)    == [sql |-> "create index if none", table |-> t, index |-> i]
DropIndex(i)         == [sql |-> "drop index", index |-> i]
AddColumn(t, c)      == [sql |-> "add column", table |-> t, column |-> c]
DropColumn(t, c)     == [sql |-> "drop column", table |-> t, column |-> c]
SetNotNull(t, c)     == [sql |-> "set not null", table |-> t, column |-> c]
DropNotNull(t, c)    == [sql |-> "drop not null", table |-> t, column |-> c]
Refer(t, c, to)      == [sql |-> "refer", table |-> t, column |-> c, to |-> to]
DropReference(t, c)  == [sql |-> "drop reference", table |-> t, column |-> c]
Update(what)         == [sql |-> "update", what |-> what]

Temporary(t) == "temporary_" \o t
NotRenamed == [c \in {} |-> c]

\* A table is made anew, and the rows go with it: up makes the new one under another name,
\* down gives the old one another name.
RebuildUpAs(t, table, indexes, renamed) ==
  [i \in DOMAIN indexes |-> DropIndex(indexes[i])]
    \o <<Create(Temporary(t), table), Copy(t, Temporary(t), renamed), DropTable(t),
         Rename(Temporary(t), t)>>
    \o [i \in DOMAIN indexes |-> CreateIndex(indexes[i], t)]
RebuildDownAs(t, table, indexes, renamed) ==
  [i \in DOMAIN indexes |-> DropIndex(indexes[i])]
    \o <<Rename(t, Temporary(t)), Create(t, table), Copy(Temporary(t), t, renamed),
         DropTable(Temporary(t))>>
    \o [i \in DOMAIN indexes |-> CreateIndex(indexes[i], t)]
RebuildUp(t, table, indexes)   == RebuildUpAs(t, table, indexes, NotRenamed)
RebuildDown(t, table, indexes) == RebuildDownAs(t, table, indexes, NotRenamed)

-----------------------------------------------------------------------------
(* The tables as they follow each other.                                    *)

With(table, columns, required) ==
  [table EXCEPT !.columns = @ \cup columns, !.required = @ \cup required]
Referring(table, c, to) == [table EXCEPT !.references = (c :> to) @@ @]
Nullable(table, c)      == [table EXCEPT !.required = @ \ {c}]

Base == {"id", "createdAt", "updatedAt"}

File1   == LET C == Base \cup {"fileName", "token", "checksum", "ip", "fileSize"}
           IN  Table(C \cup {"customExpires"}, C, NotRenamed)
File2   == With(File1, {"originalFileName", "fileExtension"}, {"originalFileName"})
File3   == With(File2, {"settings"}, {})
File4   == [File3 EXCEPT !.columns = (@ \ {"customExpires"}) \cup {"expires"}]
File6   == With(File4, {}, {"expires"})
File7   == With(File6, {"mediaType"}, {})
File10  == With(File7, {"encrypted"}, {"encrypted"})
File11  == Nullable(File10, "expires")
File13a == With(File11, {"bucketToken"}, {})
File13  == Referring(File13a, "bucketToken", "bucket")
File15  == With(File13, {"views"}, {"views"})
File16a == With(File15, {"albumToken"}, {})
File16  == Referring(File16a, "albumToken", "album")
File20  == Nullable(File16, "ip")
File24a == With(File20, {"thumbnailCacheId"}, {})
File24  == Referring(File24a, "thumbnailCacheId", "thumbnail")
File25  == With(File24, {"addedToAlbumOrder"}, {})

Bucket13 == LET C == Base \cup {"bucketToken", "ip"} IN Table(C, C, NotRenamed)
Bucket14 == With(Bucket13, {"type"}, {"type"})
Bucket20 == Nullable(Bucket14, "ip")

Album16a == LET C == Base \cup {"name", "bucketToken", "albumToken"} IN Table(C, C, NotRenamed)
Album16  == Referring(Album16a, "bucketToken", "bucket")
Album17  == With(Album16, {"publicToken", "views"}, {"views"})

Thumbnail18a == Table(Base \cup {"data", "fileId"}, Base \cup {"data"}, NotRenamed)
Thumbnail18  == Referring(Thumbnail18a, "fileId", "file")
Thumbnail23a == With(Thumbnail18a, {}, {"fileId"})
Thumbnail23  == Referring(Thumbnail23a, "fileId", "file")

User  == LET C == Base \cup {"password", "email"} IN Table(C, C, NotRenamed)
Block == LET C == Base \cup {"ip"} IN Table(C, C, NotRenamed)
Rate  == LET C == {"key", "totalHits", "resetTime"} IN Table(C, C, NotRenamed)
SessionTable == LET C == {"expiredAt", "id", "json"} IN Table(C \cup {"destroyedAt"}, C, NotRenamed)

Token == <<"file token">>
BucketToken == <<"bucket token">>

-----------------------------------------------------------------------------
(* The migrations of SQLite.                                                *)

Initial ==
  [up |-> <<CreateIfNone("user", User), CreateIfNone("file", File1),
            IndexIfNone("file token", "file"), CreateIfNone("session", SessionTable),
            IndexIfNone("session expiredAt", "session"), CreateIfNone("block", Block)>>,
   down |-> <<DropTable("block"), DropIndex("session expiredAt"), DropTable("session"),
              DropIndex("file token"), DropTable("file"), DropTable("user")>>]

ModifyFileUploadModel ==
  [up |-> RebuildUp("file", File2, Token), down |-> RebuildDown("file", File1, Token)]

ModifyFileUploadModelAddSettings ==
  [up |-> RebuildUp("file", File3, Token), down |-> RebuildDown("file", File2, Token)]

RenameExpires ==
  [up |-> RebuildUpAs("file", File4, Token, "expires" :> "customExpires"),
   down |-> RebuildDownAs("file", File3, Token, "customExpires" :> "expires")]

ExpiresDataMigration == [up |-> <<Update("deltas to epochs")>>, down |-> <<Update("no expiry")>>]

\* Both have the statements twice.
RemoveExpireNulls ==
  [up |-> RebuildUp("file", File6, Token) \o RebuildUp("file", File6, Token),
   down |-> RebuildDown("file", File4, Token) \o RebuildDown("file", File4, Token)]

MediaTypeColumn ==
  [up |-> RebuildUp("file", File7, Token), down |-> RebuildDown("file", File6, Token)]

MediaTypeData == [up |-> <<Update("media types")>>, down |-> <<Update("no media types")>>]

OldFiles == [up |-> <<Update("split names")>>, down |-> <<Update("no extensions")>>]

ModifyFileUploaddModelAddEncrptedStatus ==
  [up |-> RebuildUp("file", File10, Token), down |-> RebuildDown("file", File7, Token)]

ModifyFileUploadModalMakeExpiresNullable ==
  [up |-> RebuildUp("file", File11, Token) \o RebuildUp("file", File11, Token),
   down |-> RebuildDown("file", File10, Token) \o RebuildDown("file", File10, Token)]

ExpressTypeormRateTable == [up |-> <<Create("rate", Rate)>>, down |-> <<DropTable("rate")>>]

CreateBucket ==
  [up |-> <<Create("bucket", Bucket13), CreateIndex("bucket token", "bucket")>>
            \o RebuildUp("file", File13a, Token) \o RebuildUp("file", File13, Token),
   down |-> RebuildDown("file", File13a, Token) \o RebuildDown("file", File11, Token)
              \o <<DropIndex("bucket token"), DropTable("bucket")>>]

AddBucketType ==
  [up |-> RebuildUp("bucket", Bucket14, BucketToken),
   down |-> RebuildDown("bucket", Bucket13, BucketToken)]

AddViews ==
  [up |-> RebuildUp("file", File15, Token), down |-> RebuildDown("file", File13, Token)]

AlbumKeys == <<"album bucket name", "album token">>
Backwards(s) == [i \in DOMAIN s |-> s[Len(s) + 1 - i]]

AddAlbum ==
  [up |-> <<Create("album", Album16a)>>
            \o [i \in DOMAIN AlbumKeys |-> CreateIndex(AlbumKeys[i], "album")]
            \o RebuildUp("file", File16a, Token) \o RebuildUp("album", Album16, AlbumKeys)
            \o RebuildUp("file", File16, Token),
   down |-> RebuildDown("file", File16a, Token) \o RebuildDown("album", Album16a, Backwards(AlbumKeys))
              \o RebuildDown("file", File15, Token)
              \o <<DropIndex("album token"), DropIndex("album bucket name"), DropTable("album")>>]

AddViewsAndPublicTokenToAlbum ==
  [up |-> RebuildUp("album", Album17, Backwards(AlbumKeys)),
   down |-> RebuildDown("album", Album16, AlbumKeys)]

AddThumbnailCache ==
  [up |-> <<Create("thumbnail", Thumbnail18a)>> \o RebuildUp("thumbnail", Thumbnail18, <<>>),
   down |-> RebuildDown("thumbnail", Thumbnail18a, <<>>) \o <<DropTable("thumbnail")>>]

\* The addresses of files and of buckets; not the blocked ones.
HashIp == [up |-> <<Update("hash file ips"), Update("hash bucket ips")>>, down |-> <<>>]

NullIps ==
  [up |-> RebuildUp("bucket", Bucket14, BucketToken) \o RebuildUp("file", File16, Token)
            \o RebuildUp("bucket", Bucket20, BucketToken) \o RebuildUp("file", File20, Token),
   down |-> RebuildDown("file", File16, Token) \o RebuildDown("bucket", Bucket14, BucketToken)
              \o RebuildDown("file", File16, Token) \o RebuildDown("bucket", Bucket14, BucketToken)]

\* Other types of numbers.
AlignForPostgres ==
  [up |-> RebuildUp("file", File20, Token), down |-> RebuildDown("file", File20, Token)]

\* Down makes the table again, and not its index.
RemoveSession ==
  [up |-> <<DropTable("session")>>, down |-> <<Create("session", SessionTable)>>]

IndexOnThumbs ==
  [up |-> RebuildUp("thumbnail", Thumbnail18, <<>>) \o RebuildUp("thumbnail", Thumbnail18a, <<>>)
            \o RebuildUp("thumbnail", Thumbnail23a, <<>>)
            \o <<CreateIndex("thumbnail file", "thumbnail")>>
            \o RebuildUp("thumbnail", Thumbnail23, <<"thumbnail file">>),
   down |-> RebuildDown("thumbnail", Thumbnail23a, <<"thumbnail file">>)
              \o <<DropIndex("thumbnail file")>>
              \o RebuildDown("thumbnail", Thumbnail18a, <<>>)
              \o RebuildDown("thumbnail", Thumbnail18, <<>>)
              \o RebuildDown("thumbnail", Thumbnail18, <<>>)]

\* Mutant: without the second pass, which adds the reference.
JoinOnThumbs_Once ==
  [up |-> RebuildUp("file", File24a, Token), down |-> RebuildDown("file", File20, Token)]

JoinOnThumbs ==
  [up |-> RebuildUp("file", File24a, Token) \o RebuildUp("file", File24, Token),
   down |-> RebuildDown("file", File24a, Token) \o RebuildDown("file", File20, Token)]

AddAlbumOrder ==
  [up |-> <<AddColumn("file", "addedToAlbumOrder"), Update("album order")>>,
   down |-> <<DropColumn("file", "addedToAlbumOrder")>>]

\* Each index and its table.
Upgrades ==
  <<<<"bucket ip type", "bucket">>, <<"bucket type", "bucket">>, <<"album name", "album">>,
    <<"album bucket", "album">>, <<"album public token", "album">>,
    <<"file checksum expires", "file">>, <<"file album order", "file">>,
    <<"file bucket expires", "file">>, <<"file name", "file">>, <<"file ip", "file">>,
    <<"file album", "file">>, <<"file bucket", "file">>, <<"file expires", "file">>,
    <<"file checksum", "file">>>>

IndexUpgrades ==
  [up |-> [i \in DOMAIN Upgrades |-> CreateIndex(Upgrades[i][1], Upgrades[i][2])],
   down |-> [i \in DOMAIN Upgrades |-> DropIndex(Backwards(Upgrades)[i][1])]]

-----------------------------------------------------------------------------
(* The migrations of Postgres, which begin with all that SQLite had by then. *)

PostgresInit ==
  LET Bare(table) == [table EXCEPT !.references = NotRenamed]
  IN
  [up |-> <<Create("rate", Rate), Create("session", SessionTable),
            CreateIndex("session expiredAt", "session"), Create("block", Block),
            Create("thumbnail", Thumbnail18a), Create("bucket", Bucket20),
            CreateIndex("bucket token", "bucket"), Create("user", User),
            Create("album", Bare(Album17)), CreateIndex("album bucket name", "album"),
            CreateIndex("album token", "album"), Create("file", Bare(File20)),
            CreateIndex("file token", "file"), Refer("thumbnail", "fileId", "file"),
            Refer("album", "bucketToken", "bucket"), Refer("file", "bucketToken", "bucket"),
            Refer("file", "albumToken", "album")>>,
   down |-> <<DropReference("file", "albumToken"), DropReference("file", "bucketToken"),
              DropReference("album", "bucketToken"), DropReference("thumbnail", "fileId"),
              DropIndex("file token"), DropTable("file"), DropIndex("album token"),
              DropIndex("album bucket name"), DropTable("album"), DropTable("user"),
              DropIndex("bucket token"), DropTable("bucket"), DropTable("thumbnail"),
              DropTable("block"), DropIndex("session expiredAt"), DropTable("session"),
              DropTable("rate")>>]

PostgresRemoveSession ==
  [up |-> <<DropTable("session")>>, down |-> <<Create("session", SessionTable)>>]

PostgresIndexOnThumbs ==
  [up |-> <<DropReference("thumbnail", "fileId"), SetNotNull("thumbnail", "fileId"),
            CreateIndex("thumbnail file", "thumbnail"), Refer("thumbnail", "fileId", "file")>>,
   down |-> <<DropReference("thumbnail", "fileId"), DropIndex("thumbnail file"),
              DropNotNull("thumbnail", "fileId"), Refer("thumbnail", "fileId", "file")>>]

PostgresJoinOnThumbs ==
  [up |-> <<AddColumn("file", "thumbnailCacheId"), Refer("file", "thumbnailCacheId", "thumbnail")>>,
   down |-> <<DropReference("file", "thumbnailCacheId"), DropColumn("file", "thumbnailCacheId")>>]

PostgresAddAlbumOrder ==
  [up |-> <<AddColumn("file", "addedToAlbumOrder"), Update("album order")>>,
   down |-> <<DropColumn("file", "addedToAlbumOrder")>>]

PostgresIndexUpgrades ==
  [up |-> [i \in DOMAIN Upgrades |-> CreateIndex(Upgrades[i][1], Upgrades[i][2])],
   down |-> [i \in DOMAIN Upgrades |-> DropIndex(Backwards(Upgrades)[i][1])]]

-----------------------------------------------------------------------------
(* What the entities of the program ask of the tables.                      *)

FileEntity ==
  LET Required == {"fileName", "token", "checksum", "originalFileName", "fileSize", "encrypted",
                   "views"}
  IN  Table(Base \cup Required \cup {"ip", "fileExtension", "expires", "settings", "mediaType",
                                     "bucketToken", "albumToken", "addedToAlbumOrder",
                                     "thumbnailCacheId"},
            Base \cup Required,
            ("bucketToken" :> "bucket") @@ ("albumToken" :> "album")
              @@ ("thumbnailCacheId" :> "thumbnail"))
FileIndexes == {"file token", "file checksum", "file expires", "file bucket", "file album",
                "file ip", "file name", "file bucket expires", "file album order",
                "file checksum expires"}

BucketEntity  == Table(Base \cup {"bucketToken", "ip", "type"},
                       Base \cup {"bucketToken", "type"}, NotRenamed)
BucketIndexes == {"bucket token", "bucket type", "bucket ip type"}

AlbumEntity  ==
  LET Required == Base \cup {"name", "bucketToken", "albumToken", "views"}
  IN  Table(Required \cup {"publicToken"}, Required, "bucketToken" :> "bucket")
AlbumIndexes == {"album token", "album bucket name", "album public token", "album bucket",
                 "album name"}

ThumbnailEntity  == LET C == Base \cup {"data", "fileId"} IN Table(C, C, "fileId" :> "file")
ThumbnailIndexes == {"thumbnail file"}

UserEntity  == LET C == Base \cup {"password", "email"} IN Table(C, C, NotRenamed)
BlockEntity == LET C == Base \cup {"ip"} IN Table(C, C, NotRenamed)
RateEntity  == LET C == {"key", "totalHits", "resetTime"} IN Table(C, C, NotRenamed)

Entities ==
  [tables |-> [t \in {"file", "bucket", "album", "thumbnail", "user", "block", "rate"} |->
                 CASE t = "file"      -> FileEntity
                   [] t = "bucket"    -> BucketEntity
                   [] t = "album"     -> AlbumEntity
                   [] t = "thumbnail" -> ThumbnailEntity
                   [] t = "user"      -> UserEntity
                   [] t = "block"     -> BlockEntity
                   [] t = "rate"      -> RateEntity],
   indexes |-> [i \in FileIndexes |-> "file"] @@ [i \in BucketIndexes |-> "bucket"]
                 @@ [i \in AlbumIndexes |-> "album"] @@ [i \in ThumbnailIndexes |-> "thumbnail"]]

-----------------------------------------------------------------------------
\* In the order of their files.
Sqlite ==
  <<Initial, ModifyFileUploadModel, ModifyFileUploadModelAddSettings, RenameExpires,
    ExpiresDataMigration, RemoveExpireNulls, MediaTypeColumn, MediaTypeData, OldFiles,
    ModifyFileUploaddModelAddEncrptedStatus, ModifyFileUploadModalMakeExpiresNullable,
    ExpressTypeormRateTable, CreateBucket, AddBucketType, AddViews, AddAlbum,
    AddViewsAndPublicTokenToAlbum, AddThumbnailCache, HashIp, NullIps, AlignForPostgres,
    RemoveSession, IndexOnThumbs, JoinOnThumbs, AddAlbumOrder, IndexUpgrades>>
Postgres ==
  <<PostgresInit, PostgresRemoveSession, PostgresIndexOnThumbs, PostgresJoinOnThumbs,
    PostgresAddAlbumOrder, PostgresIndexUpgrades>>

\* The two go on together: Postgres begins after the first twenty of SQLite.
Before  == [sqlite |-> 0, postgres |-> 20]
Newest  == 26
Migration(dialect, n) == IF dialect = "sqlite" THEN Sqlite[n] ELSE Postgres[n - 20]
=============================================================================
