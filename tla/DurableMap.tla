----------------------------- MODULE DurableMap -----------------------------
(***************************************************************************)
(* What the page file of a table promises: a map that one process has      *)
(* open, and the image of it on disk.  A save replaces the image by what   *)
(* is open, and has no image in between; whoever opens the map again finds *)
(* the image.  The page file is shown to implement it (see PageStore).     *)
(***************************************************************************)
EXTENDS Functions

CONSTANTS
  Keys, Values,
  Closed,   \* no process has the map open
  Absent,   \* there is no map
  Broken    \* no image can be read

VARIABLES
  state,  \* what is being done
  live,   \* the map a process has open
  image   \* the map the next process would find

vars == <<state, live, image>>

Maps  == UNION {[D -> Values] : D \in SUBSET Keys}
Empty == [k \in {} |-> Closed]

Put(f, k, v)  == [j \in DOMAIN f \cup {k} |-> IF j = k THEN v ELSE f[j]]
Without(f, k) == Restrict(f, DOMAIN f \ {k})

Init == state = "absent" /\ live = Closed /\ image = Absent

Create ==
  /\ state = "absent"
  /\ state' = "open" /\ live' = Empty
  /\ UNCHANGED image

Insert(k, v) ==
  /\ state = "open"
  /\ live' = Put(live, k, v)
  /\ UNCHANGED <<state, image>>

Remove(k) ==
  /\ state = "open" /\ k \in DOMAIN live
  /\ live' = Without(live, k)
  /\ UNCHANGED <<state, image>>

BeginSave ==
  /\ state = "open"
  /\ state' = "saving" /\ image' = Broken
  /\ UNCHANGED live

EndSave ==
  /\ state = "saving"
  /\ state' = "open" /\ image' = live
  /\ UNCHANGED live

\* A change the medium cannot take: nothing is promised until the map is dropped.
Spoil ==
  /\ state = "open"
  /\ state' = "spoiled" /\ live' = Closed /\ image' = Broken

BeginDrop ==
  /\ state = "open"
  /\ state' = "dropping" /\ live' = Closed
  /\ UNCHANGED image

\* The image of an empty map is no more than its name, and stays.
RemoveImage ==
  /\ state = "dropping"
  /\ state' = "removing"
  /\ image' = Broken \/ (image = Empty /\ UNCHANGED image)
  /\ UNCHANGED live

EndDrop ==
  /\ state \in {"removing", "spoiled"}
  /\ state' = "absent" /\ image' = Absent
  /\ UNCHANGED live

\* The process ends at any moment: with it goes what was not saved.
Kill ==
  /\ state \in {"open", "saving", "dropping", "removing"}
  /\ state' = "closed" /\ live' = Closed
  /\ UNCHANGED image

Open ==
  /\ state = "closed" /\ image \in Maps
  /\ state' = "open" /\ live' = image
  /\ UNCHANGED image

\* A map that was never saved was never there.
Forget ==
  /\ state = "closed" /\ image = Absent
  /\ state' = "absent"
  /\ UNCHANGED <<live, image>>

Next ==
  \/ Create \/ BeginSave \/ EndSave \/ Spoil
  \/ \E k \in Keys, v \in Values : Insert(k, v)
  \/ \E k \in Keys : Remove(k)
  \/ BeginDrop \/ RemoveImage \/ EndDrop
  \/ Kill \/ Open \/ Forget

Spec == Init /\ [][Next]_vars

=============================================================================
