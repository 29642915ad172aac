---------------------------- MODULE ThumbMaker -----------------------------
(***************************************************************************)
(* Thumbnails on demand: the three routes of the thumbnail service that    *)
(* make one, of a file of the vault by its token, of a file that is sent,  *)
(* and of what a URL serves, and the cache that all of them look into      *)
(* first.                                                                  *)
(*                                                                         *)
(* A content is a name and bytes; of these the service tells apart what    *)
(* Media says, the size, and the first bytes, which Start stands for.       *)
(***************************************************************************)
EXTENDS Naturals, FiniteSets

CONSTANTS
  Requests, Tokens, Urls, Contents,
  Media,      \* of each content: still, moving, GIF (moving, in capitals), video, mkv or other
  Size, Start,
  BodyLimit,  \* what is read of a URL at most
  MaxCached,  \* bound: thumbnails in the cache at a time; more are as if storing them failed
  MaxCrashes  \* bound: restarts of the service

MediaTypes == {"still", "moving", "GIF", "video", "mkv", "other"}

ASSUME ContentsAssumption ==
  /\ Media \in [Contents -> MediaTypes] /\ Size \in [Contents -> Nat]
  /\ BodyLimit \in Nat \ {0} /\ MaxCached \in Nat /\ MaxCrashes \in Nat

VARIABLES
  entry,   \* of each token: the content of its file
  at,      \* of each URL: what it serves
  cache,   \* in Redis
  req,     \* of each request: where it is, what was asked for, read and answered
  temp,    \* requests that have a temporary file
  litter,  \* temporary files nobody will remove
  crashes,
  had      \* history: of each source, the contents it has had

sources == <<entry, at, had>>
service == <<temp, litter, crashes>>
vars    == <<sources, cache, req, service>>

None == [kind |-> "none"]
Source(kind, id) == [kind |-> kind, id |-> id]
Sources ==
  [kind : {"token"}, id : Tokens] \cup [kind : {"url"}, id : Urls] \cup [kind : {"file"}, id : Contents]
Thumbs == [kind : {"thumb"}, of : Contents, moves : BOOLEAN, whole : BOOLEAN, odd : BOOLEAN]

-----------------------------------------------------------------------------
(* What is a thumbnail kept under, and what is supported.                   *)

\* Mutant: the size is left out.
HashOf_Start(c) == Start[c]

\* calculatePartialFileHash: what it does not look at does not tell files apart.
HashOf(c) == <<Start[c], Size[c]>>

\* Mutant: moving and still thumbnails are not told apart.
CacheKey_Still(src, animate) ==
  <<src.kind, IF src.kind = "file" THEN HashOf(src.id) ELSE src.id, FALSE>>

CacheKey(src, animate) ==
  <<src.kind, IF src.kind = "file" THEN HashOf(src.id) ELSE src.id, animate>>

Keys == {CacheKey(src, animate) : src \in Sources, animate \in BOOLEAN}

\* fileSupported also takes mkv for the format matroska; isSupportedMediaType does not.
Supported(kind, c) ==
  Media[c] \in {"still", "moving", "GIF", "video"} \/ (Media[c] = "mkv" /\ kind = "token")

\* isAnimatedImage compares what getExtensionFromFilename has put in lower case, or, for a
\* token, the extension as it was stored.
Animated(kind, c) == Media[c] = "moving" \/ (Media[c] = "GIF" /\ kind # "token")

\* Files with one name, size and beginning.
Alike(c, d) == Start[c] = Start[d] /\ Size[c] = Size[d]

-----------------------------------------------------------------------------
Idle == [pc |-> "idle", src |-> None, animate |-> FALSE, got |-> None, out |-> None, gone |-> FALSE]

TypeOK ==
  /\ entry \in [Tokens -> Contents \cup {None}] /\ at \in [Urls -> Contents]
  /\ cache \in [Keys -> Thumbs \cup {None}]
  /\ req \in [Requests ->
       [pc : {"idle", "cache", "find", "head", "fetch", "copy", "make", "store", "ok", "bad", "error"},
        src : Sources \cup {None}, animate : BOOLEAN, got : Contents \cup {None},
        out : Thumbs \cup {None}, gone : BOOLEAN]]
  /\ temp \subseteq Requests /\ litter \subseteq Requests
  /\ crashes \in 0..MaxCrashes
  /\ had \in [Sources -> SUBSET Contents]
  /\ \A r \in Requests :
       /\ req[r].pc # "idle" => req[r].src \in Sources
       /\ req[r].pc \in {"copy", "make", "store"} => req[r].got \in Contents
       /\ req[r].pc \in {"store", "ok"} => req[r].out \in Thumbs

Init ==
  /\ entry \in [Tokens -> Contents] /\ at \in [Urls -> Contents]
  /\ cache = [k \in Keys |-> None]
  /\ req = [r \in Requests |-> Idle]
  /\ temp = {} /\ litter = {} /\ crashes = 0
  /\ had = [src \in Sources |->
       IF src.kind = "token" THEN {entry[src.id]} ELSE IF src.kind = "url" THEN {at[src.id]} ELSE {src.id}]

Goto(r, pc) == req' = [req EXCEPT ![r].pc = pc]

\* An error is answered with 400 if the controller knows it, else with 500.
Refuse(r) == Goto(r, "bad")
Fail(r)   == Goto(r, "error")
Answer(r, thumb) == req' = [req EXCEPT ![r].pc = "ok", ![r].out = thumb]

Over(r) == req[r].pc \in {"idle", "ok", "bad", "error"}
MyKey(r) == CacheKey(req[r].src, req[r].animate)

\* A request arrives; what is sent as a file and not supported fails at once.
Begin(r, src, animate) ==
  /\ Over(r)
  /\ req' = [req EXCEPT ![r] = [Idle EXCEPT
       !.src = src, !.animate = animate,
       !.pc = IF src.kind = "file" /\ ~Supported("file", src.id) THEN "error" ELSE "cache",
       !.gone = src.kind = "token" /\ entry[src.id] = None]]
  /\ UNCHANGED <<sources, cache, service>>

\* getThumbnailFromCache: an error of Redis is as good as a miss.
Lookup(r) ==
  /\ req[r].pc = "cache"
  /\ \/ cache[MyKey(r)] # None /\ Answer(r, cache[MyKey(r)])
     \/ Goto(r, IF req[r].src.kind = "url" THEN "head" ELSE "find")
  /\ UNCHANGED <<sources, cache, service>>

Take(r, c, pc) == req' = [req EXCEPT ![r].pc = pc, ![r].got = c]

\* Mutant: a file that is not found goes on.
Found_Always(c) == TRUE

Found(c) == c # None /\ Supported("token", c)

\* GetFileEntry; or a temporary file for what was sent.
Find(r) ==
  LET src == req[r].src
      c   == IF src.kind = "token" THEN entry[src.id] ELSE src.id
  IN  /\ req[r].pc = "find"
      /\ IF src.kind = "file" THEN Take(r, c, "copy") /\ temp' = temp \cup {r}
         ELSE /\ IF Found(c) THEN Take(r, c, "make") ELSE Refuse(r)
              /\ UNCHANGED temp
      /\ UNCHANGED <<sources, cache, litter, crashes>>

FindFails(r) ==
  /\ req[r].pc = "find"
  /\ IF req[r].src.kind = "file" THEN Fail(r) ELSE Refuse(r)
  /\ UNCHANGED <<sources, cache, service>>

\* validateURL: neither http nor https, no host, or a private address.
InvalidURL(r) ==
  /\ req[r].pc = "head"
  /\ Refuse(r)
  /\ UNCHANGED <<sources, cache, service>>

\* HEAD, of a server that need not tell the length, or does not answer.
AskHead(r) ==
  /\ req[r].pc = "head"
  /\ \/ \E told \in BOOLEAN :
          IF told /\ Size[at[req[r].src.id]] > BodyLimit THEN Refuse(r) ELSE Goto(r, "fetch")
     \/ Refuse(r)
  /\ UNCHANGED <<sources, cache, service>>

\* GET, of a server that may have something else by now, and a temporary file for it.
Fetch(r) ==
  LET c == at[req[r].src.id]
  IN  /\ req[r].pc = "fetch"
      /\ \/ Supported("url", c) /\ Take(r, c, "copy") /\ temp' = temp \cup {r}
         \/ Refuse(r) /\ UNCHANGED temp
      /\ UNCHANGED <<sources, cache, litter, crashes>>

\* The LimitReader ends at the limit, whatever there is.
BytesRead(c) == IF Size[c] < BodyLimit THEN Size[c] ELSE BodyLimit

\* Mutant: what was read is never more than the limit.
TooLarge_More(c) == BytesRead(c) > BodyLimit

TooLarge(c) == BytesRead(c) >= BodyLimit

\* Mutant: only a thumbnail that was made clears up.
Removed_Made(r, made) == IF made THEN temp \ {r} ELSE temp

\* defer os.Remove, however the function ends.
Removed(r, made) == temp \ {r}

Copied(r) ==
  /\ req[r].pc = "copy"
  /\ IF req[r].src.kind = "url" /\ TooLarge(req[r].got)
     THEN Refuse(r) /\ temp' = Removed(r, FALSE)
     ELSE Goto(r, "make") /\ UNCHANGED temp
  /\ UNCHANGED <<sources, cache, litter, crashes>>

\* generateImageThumbnailFromFile, generateVideoThumbnailFromPath: if the frames cannot be
\* counted, all of them are loaded.
Makes(r) ==
  LET c == req[r].got
      moving == Animated(req[r].src.kind, c)
      thumb(moves, odd) == [kind |-> "thumb", of |-> c, moves |-> moves, odd |-> odd,
                            whole |-> req[r].src.kind # "url" \/ BytesRead(c) = Size[c]]
  IN  {thumb(moving /\ req[r].animate, FALSE)}
      \cup (IF moving THEN {thumb(moves, TRUE) : moves \in BOOLEAN} ELSE {})

Make(r) ==
  /\ req[r].pc = "make"
  /\ \E thumb \in Makes(r) : req' = [req EXCEPT ![r].pc = "store", ![r].out = thumb]
  /\ temp' = Removed(r, TRUE)
  /\ UNCHANGED <<sources, cache, litter, crashes>>

MakeFails(r) ==
  /\ req[r].pc \in {"copy", "make"}
  /\ Fail(r)
  /\ temp' = Removed(r, FALSE)
  /\ UNCHANGED <<sources, cache, litter, crashes>>

Room(key) == Cardinality({k \in Keys : cache[k] # None} \cup {key}) <= MaxCached

\* storeThumbnailInCache: an error is logged; a file whose key could not be made is not stored.
Store(r) ==
  /\ req[r].pc = "store"
  /\ Goto(r, "ok")
  /\ \/ Room(MyKey(r)) /\ cache' = [cache EXCEPT ![MyKey(r)] = req[r].out]
     \/ UNCHANGED cache
  /\ UNCHANGED <<sources, service>>

-----------------------------------------------------------------------------
\* After ten minutes, or, by token, after a year.
Expire(k) ==
  /\ cache[k] # None
  /\ cache' = [cache EXCEPT ![k] = None]
  /\ UNCHANGED <<sources, req, service>>

\* The vault deletes the file of a token, and knows nothing of this cache.
DeleteEntry(t) ==
  /\ entry[t] # None
  /\ entry' = [entry EXCEPT ![t] = None]
  /\ UNCHANGED <<at, had, cache, req, service>>

UrlChanges(u, c) ==
  /\ at' = [at EXCEPT ![u] = c]
  /\ had' = [had EXCEPT ![Source("url", u)] = @ \cup {c}]
  /\ UNCHANGED <<entry, cache, req, service>>

Crash ==
  /\ crashes < MaxCrashes
  /\ crashes' = crashes + 1
  /\ req' = [r \in Requests |-> Idle]
  /\ litter' = litter \cup temp /\ temp' = {}
  /\ UNCHANGED <<sources, cache>>

Serve(r) ==
  \/ \E src \in Sources, animate \in BOOLEAN : Begin(r, src, animate)
  \/ Lookup(r) \/ Find(r) \/ FindFails(r) \/ InvalidURL(r) \/ AskHead(r) \/ Fetch(r) \/ Copied(r)
  \/ Make(r) \/ MakeFails(r) \/ Store(r)

Elsewhere ==
  \/ \E k \in Keys : Expire(k)
  \/ \E t \in Tokens : DeleteEntry(t)
  \/ \E u \in Urls, c \in Contents : UrlChanges(u, c)

Next == (\E r \in Requests : Serve(r)) \/ Elsewhere \/ Crash

Spec == Init /\ [][Next]_vars

-----------------------------------------------------------------------------
Answered(r) == req[r].pc = "ok"

\* Who asks for a still thumbnail never gets one that moves, whatever others asked for
\* before (getAnimateKey), and who asks for one that moves gets it of a moving image,
\* unless its frames could not be counted.
MovesAsAsked ==
  \A r \in Requests : Answered(r) /\ ~req[r].out.odd =>
    (req[r].out.moves <=> req[r].animate /\ Animated(req[r].src.kind, req[r].out.of))

\* A thumbnail is of a content that its source has had, or, of a file that is sent, of one
\* with the same name, size and first bytes (calculatePartialFileHash).
OwnThumbnail ==
  \A r \in Requests : Answered(r) => \E c \in had[req[r].src] :
    IF req[r].src.kind = "file" THEN Alike(c, req[r].out.of) ELSE c = req[r].out.of

\* No thumbnail is made of what was cut off at the limit (GenerateThumbnailFromURL).
WholeOnly == \A r \in Requests : Answered(r) => req[r].out.whole

\* A temporary file goes with its request, unless the service was killed: its other ways
\* to end all remove it (defer os.Remove).
TempsGo == \A r \in temp : req[r].pc \in {"copy", "make"}

\* thumbnail_controller.go: "Generates a thumbnail from an existing file using its token",
\* and "Bad request - invalid file token".
DeletedAreRefused == \A r \in Requests : Answered(r) => ~req[r].gone
=============================================================================
