---------------------------- MODULE FilePreview ----------------------------
(***************************************************************************)
(* The previews of a list of files: one component per file, which fetches  *)
(* a thumbnail (or reads the file, of one that is still to be uploaded)    *)
(* once it has been on screen, and a cache that outlives them.             *)
(*                                                                         *)
(* A component loads in an effect, which runs again whenever the file is   *)
(* wrapped anew: with every rendering of the page.  What the effect before *)
(* has begun goes on; it may still fill the cache, and says nothing to the *)
(* component any more.                                                     *)
(***************************************************************************)
EXTENDS Naturals, FiniteSets

CONSTANTS
  Previewed,
  Remote,      \* in the bucket or album, and shown lazily; the others are File objects
  Thumbed,     \* the images, and the videos of the bucket
  MaxStale,    \* bound: loads of one file in flight that nobody waits for
  MaxRenders,  \* bound: renderings while a File is being read
  MaxChanges, MaxBroken   \* bounds: of passwords set or removed, of loads that fail

ASSUME PreviewAssumption ==
  /\ Remote \subseteq Previewed /\ Thumbed \subseteq Previewed
  /\ {MaxStale, MaxRenders, MaxChanges, MaxBroken} \subseteq Nat

VARIABLES
  protected,   \* isProtected, as the page knows it
  preview,     \* the state of each component
  load,        \* whether its effect has a load in flight
  stale,       \* and how many of earlier effects are
  cache,       \* thumbnailCache
  had,         \* history: a thumbnail of the file has arrived
  renders, changes, broken

previewBounds == <<renders, changes, broken>>
previewVars   == <<protected, preview, load, stale, cache, had, previewBounds>>

Unmounted == [mounted |-> FALSE, seen |-> FALSE, loading |-> FALSE, error |-> FALSE, url |-> FALSE]

PreviewTypeOK ==
  /\ protected \in SUBSET Remote
  /\ preview \in [Previewed -> [mounted : BOOLEAN, seen : BOOLEAN, loading : BOOLEAN,
                            error : BOOLEAN, url : BOOLEAN]]
  /\ load \in [Previewed -> BOOLEAN] /\ stale \in [Previewed -> 0..MaxStale]
  /\ cache \subseteq Thumbed /\ had \subseteq Remote
  /\ renders \in 0..MaxRenders /\ changes \in 0..MaxChanges /\ broken \in 0..MaxBroken
  \* a component that has been on screen spins only while it waits for a load
  /\ \A f \in Previewed : preview[f].seen /\ preview[f].loading => load[f]
  /\ \A f \in Previewed : load[f] => preview[f].mounted /\ preview[f].seen

PreviewInit ==
  /\ protected \in SUBSET Remote
  /\ preview = [f \in Previewed |-> Unmounted]
  /\ load = [f \in Previewed |-> FALSE] /\ stale = [f \in Previewed |-> 0]
  /\ cache = {} /\ had = {}
  /\ renders = 0 /\ changes = 0 /\ broken = 0

-----------------------------------------------------------------------------
(* The effect of a component in state c, with p the protected files.        *)

MustLoad(f, c, p) == c.mounted /\ c.seen /\ f \notin p /\ f \in Thumbed /\ f \notin cache

AfterEffect(f, c, p) ==
  IF ~c.seen \/ MustLoad(f, c, p) THEN c
  ELSE [c EXCEPT !.loading = FALSE, !.url = @ \/ (f \in cache /\ f \notin p)]

Abandoned(f) == IF load[f] THEN stale[f] + 1 ELSE stale[f]

RunEffect(f, c, p) ==
  /\ Abandoned(f) <= MaxStale
  /\ preview' = [preview EXCEPT ![f] = AfterEffect(f, c, p)]
  /\ load' = [load EXCEPT ![f] = MustLoad(f, c, p)]
  /\ stale' = [stale EXCEPT ![f] = Abandoned(f)]

MountPreview(f) ==
  /\ ~preview[f].mounted
  /\ RunEffect(f, [Unmounted EXCEPT !.mounted = TRUE, !.loading = TRUE, !.seen = f \notin Remote],
            protected)
  /\ UNCHANGED <<protected, cache, had, previewBounds>>

\* Another page of the list, another album, the end of an upload.
UnmountPreview(f) ==
  /\ preview[f].mounted /\ RunEffect(f, Unmounted, protected)
  /\ UNCHANGED <<protected, cache, had, previewBounds>>

\* The observer of a lazy preview has met it on screen.
Intersect(f) ==
  /\ preview[f].mounted /\ ~preview[f].seen
  /\ RunEffect(f, [preview[f] EXCEPT !.seen = TRUE], protected)
  /\ UNCHANGED <<protected, cache, had, previewBounds>>

\* The page is rendered, and the file wrapped anew.
WrapAnew(f) ==
  /\ preview[f].mounted /\ RunEffect(f, preview[f], protected)
  /\ IF f \in Remote THEN UNCHANGED renders ELSE renders < MaxRenders /\ renders' = renders + 1
  /\ UNCHANGED <<protected, cache, had, changes, broken>>

\* The page has fetched its files, and one has got or lost its password.
Flipped(f) == IF f \in protected THEN protected \ {f} ELSE protected \cup {f}
ChangeProtection_SameFile(f) ==
  /\ f \in Remote /\ changes < MaxChanges /\ changes' = changes + 1
  /\ protected' = Flipped(f)
  /\ UNCHANGED <<preview, load, stale, cache, had, renders, broken>>
ChangeProtection(f) ==
  /\ f \in Remote /\ changes < MaxChanges /\ changes' = changes + 1
  /\ protected' = Flipped(f)
  /\ RunEffect(f, preview[f], protected')
  /\ UNCHANGED <<cache, had, renders, broken>>

-----------------------------------------------------------------------------
(* The loads.                                                               *)

Breaks == broken < MaxBroken /\ broken' = broken + 1

LoadDone(f) ==
  /\ load[f] /\ load' = [load EXCEPT ![f] = FALSE]
  /\ preview' = [preview EXCEPT ![f].url = TRUE, ![f].loading = FALSE]
  /\ cache' = cache \cup {f} /\ had' = had \cup ({f} \cap Remote)
  /\ UNCHANGED <<protected, stale, previewBounds>>

\* What a component shows first makes it render, and a File is wrapped by every
\* rendering: it is read once more.
LoadFails_KeepsSpinning(f) ==
  /\ load[f] /\ Breaks /\ load' = [load EXCEPT ![f] = FALSE]
  /\ preview' = [preview EXCEPT ![f].error = TRUE]
  /\ UNCHANGED <<protected, stale, cache, had, renders, changes>>
LoadFails(f) ==
  /\ load[f] /\ Breaks
  /\ preview' = [preview EXCEPT ![f].error = TRUE, ![f].loading = FALSE]
  /\ load' = [load EXCEPT ![f] = f \notin Remote /\ preview'[f] # preview[f]]
  /\ UNCHANGED <<protected, stale, cache, had, renders, changes>>

StaleDone_Forgets(f) ==
  /\ stale[f] > 0 /\ stale' = [stale EXCEPT ![f] = @ - 1]
  /\ had' = had \cup ({f} \cap Remote)
  /\ UNCHANGED <<protected, preview, load, cache, previewBounds>>

\* A thumbnail goes into the cache all the same, what was read of a File does not.
StaleDone(f) ==
  /\ stale[f] > 0 /\ stale' = [stale EXCEPT ![f] = @ - 1]
  /\ cache' = cache \cup ({f} \cap Remote) /\ had' = had \cup ({f} \cap Remote)
  /\ UNCHANGED <<protected, preview, load, previewBounds>>

StaleFails(f) ==
  /\ stale[f] > 0 /\ Breaks /\ stale' = [stale EXCEPT ![f] = @ - 1]
  /\ UNCHANGED <<protected, preview, load, cache, had, renders, changes>>

\* What is rendered, in the order in which the component asks.
View(f) ==
  IF preview[f].loading THEN "spinner"
  ELSE IF preview[f].error THEN "error"
  ELSE IF f \in protected THEN "lock"
  ELSE IF f \in Thumbed THEN "image" ELSE "icon"

\* onError of the image: of the one loaded, or of the URL that it came from.
ImageFails(f) ==
  /\ preview[f].mounted /\ View(f) = "image" /\ (preview[f].url \/ f \in Remote) /\ Breaks
  /\ preview' = [preview EXCEPT ![f].error = TRUE]
  /\ UNCHANGED <<protected, load, stale, cache, had, renders, changes>>

LoadEnds(f) == LoadDone(f) \/ LoadFails(f) \/ StaleDone(f) \/ StaleFails(f)

PreviewNext ==
  \E f \in Previewed :
    \/ MountPreview(f) \/ UnmountPreview(f) \/ Intersect(f) \/ WrapAnew(f) \/ ChangeProtection(f)
    \/ LoadEnds(f) \/ ImageFails(f)

PreviewSpec == PreviewInit /\ [][PreviewNext]_previewVars

\* Of the loads of a file that are in flight one ends: not that which the component
\* waits for, which renderings may put off again and again.
FairPreviewSpec == PreviewSpec /\ \A f \in Previewed : WF_previewVars(LoadEnds(f))

-----------------------------------------------------------------------------
(* Properties.                                                              *)

\* "Skip thumbnail generation for password-protected files": once the page knows of
\* the password nothing is waited for, and what has been loaded is not shown.
ProtectedIsHidden ==
  \A f \in protected : ~load[f] /\ View(f) # "image"

\* Once a thumbnail of a file has arrived, whoever had asked for it, none is asked
\* for again.
InFlight(f) == stale[f] + (IF load[f] THEN 1 ELSE 0)
NotAskedAgain == [][\A f \in had : InFlight(f)' <= InFlight(f)]_previewVars

\* However often the page renders, what is on screen ceases to spin, and a picture
\* is shown of a file that has one, or an error.
PreviewsSettle ==
  \A f \in Previewed :
    /\ preview[f].seen ~> ~preview[f].loading
    /\ preview[f].seen /\ f \in Thumbed \ protected ~>
         ~preview[f].mounted \/ f \in protected \/ preview[f].url \/ preview[f].error
=============================================================================
