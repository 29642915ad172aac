----------------------------- MODULE AlbumList -----------------------------
(***************************************************************************)
(* What an album promises its owner: a list of files that changes only as  *)
(* the requests say.  Album implements it as long as nothing excuses it.   *)
(***************************************************************************)
EXTENDS Naturals, Sequences, FiniteSets

CONSTANTS
  Files    \* their database ids, in the order of upload

VARIABLES
  list,      \* the files of the album in the order they are shown
  excused    \* the promise is off

Lists == UNION {[1..n -> Files] : n \in 0..Cardinality(Files)}

Init == list = <<>> /\ excused = FALSE

Members(s) == {s[i] : i \in DOMAIN s}

\* f comes before g.
Before(s, f, g) == \E i, j \in DOMAIN s : i < j /\ s[i] = f /\ s[j] = g

SameOrder(s, t, S) == \A f, g \in S : Before(s, f, g) <=> Before(t, f, g)

\* Files come to the end of the list, in the order of their ids; those that were
\* in it move there.
Associate(S) ==
  /\ Members(list') = Members(list) \cup S
  /\ Len(list') = Cardinality(Members(list'))
  /\ SameOrder(list, list', Members(list) \ S)
  /\ \A f \in Members(list) \ S, g \in S : Before(list', f, g)
  /\ \A f, g \in S : f < g => Before(list', f, g)

\* Files leave it; the others stay in their order.
Disassociate(S) ==
  /\ Members(list') = Members(list) \ S
  /\ Len(list') = Cardinality(Members(list'))
  /\ SameOrder(list, list', Members(list'))

\* Two files change places.
Swap(i, j) == list' = [list EXCEPT ![i] = list[j], ![j] = list[i]]

Empty == list' = <<>>

Next ==
  \/ excused'
  \/ /\ UNCHANGED excused
     /\ \/ \E S \in (SUBSET Files) \ {{}} : Associate(S) \/ Disassociate(S)
        \/ \E i, j \in DOMAIN list : Swap(i, j)
        \/ Empty

Spec == Init /\ [][Next]_<<list, excused>>
=============================================================================
