------------------------- MODULE QueryLibrary_proofs -------------------------
(* The process knows its file, an editor never overwrites what it has not    *)
(* seen, and every change keeps the tree of the folders, for any number of   *)
(* folders, queries, edits and restarts.                                     *)
EXTENDS QueryLibrary, Totals

Items     == [folders : [FolderIds -> Folder \cup {NoItem}], queries : [QueryIds -> Query \cup {NoItem}], revision : Nat]
Writes    == [step : {"writes", "renamed"}, by : {Tab, Others}, next : Libraries]
SameItems(a, b) == a.folders = b.folders /\ a.queries = b.queries

LibraryShape ==
  /\ library \in Libraries /\ onDisk \in Libraries \cup {Unreadable}
  /\ broken \in BOOLEAN /\ known \in BOOLEAN /\ slipped \in BOOLEAN
  /\ change = NoWrite \/ change \in Writes
  /\ tab \in [revision : Nat, fresh : BOOLEAN, sameLife : BOOLEAN]

(* The request that writes has read a library that is valid, and makes its   *)
(* next revision; the file is its own from the rename on.                    *)
WriteInv ==
  /\ change # NoWrite => change.next.revision = library.revision + 1 /\ ~broken
  /\ change.step = "renamed" /\ ~slipped => onDisk = change.next

KnownInv ==
  change.step # "renamed" /\ known /\ ~slipped =>
    IF onDisk = Unreadable THEN broken ELSE ~broken /\ SameItems(onDisk, library)

(* A tab with the revision of the library has seen the library.              *)
TabInv ==
  tab.sameLife => tab.revision <= library.revision /\ (tab.revision = library.revision => tab.fresh)

LibraryInv == LibraryShape /\ WriteInv /\ KnownInv /\ TabInv

TabIsCurrent == Unlocked /\ change'.step = "writes" /\ change'.by = Tab /\ tab.sameLife => tab'.fresh
-----------------------------------------------------------------------------
LEMMA NoWriteIsNone == NoWrite.step = "none" /\ NoWrite \notin Writes
BY DEF NoWrite, Writes

LEMMA LibrariesAreItems == Libraries \subseteq Items
BY DEF Libraries, Items

LEMMA SameButRevision ==
  ASSUME NEW a \in Items, NEW b \in Items
  PROVE  [a EXCEPT !.revision = 0] = [b EXCEPT !.revision = 0] <=> SameItems(a, b)
<1>1. /\ [a EXCEPT !.revision = 0] = [folders |-> a.folders, queries |-> a.queries, revision |-> 0]
      /\ [b EXCEPT !.revision = 0] = [folders |-> b.folders, queries |-> b.queries, revision |-> 0]
  BY DEF Items
<1> QED BY <1>1 DEF SameItems

LEMMA ReloadedItems ==
  ASSUME LibraryShape, NEW f \in Libraries
  PROVE  Reloaded(f) \in Items /\ SameItems(Reloaded(f), f) /\ Reloaded(f).revision > library.revision
<1>1. f.revision \in Nat /\ library.revision \in Nat /\ f \in Items
  BY LibrariesAreItems DEF LibraryShape, Libraries
<1> DEFINE r == IF f.revision > library.revision THEN f.revision ELSE library.revision + 1
<1>2. r \in Nat /\ r > library.revision
  BY <1>1
<1> HIDE DEF r
<1>3. [f EXCEPT !.revision = r] \in Items /\ SameItems([f EXCEPT !.revision = r], f) /\ [f EXCEPT !.revision = r].revision = r
  BY <1>1, <1>2 DEF Items, SameItems
<1> QED BY <1>2, <1>3 DEF Reloaded, r

(* What a request reads: the library that the process has, or a new one.     *)
LEMMA RefreshedFacts ==
  ASSUME LibraryInv
  PROVE  /\ Refreshed \in Items
         /\ \/ (known \/ onDisk = Unreadable) /\ Refreshed = library
            \/ /\ ~known /\ onDisk # Unreadable
               /\ Refreshed.revision > library.revision /\ SameItems(Refreshed, onDisk)
<1>1. library \in Items
  BY LibrariesAreItems DEF LibraryInv, LibraryShape
<1>2. CASE known \/ onDisk = Unreadable
  BY <1>1, <1>2 DEF Refreshed
<1>3. CASE ~known /\ onDisk # Unreadable
  <2>1. onDisk \in Libraries /\ Refreshed = Reloaded(onDisk)
    BY <1>3 DEF LibraryInv, LibraryShape, Refreshed
  <2>2. LibraryShape
    BY DEF LibraryInv
  <2> QED BY <1>3, <2>1, <2>2, ReloadedItems
<1> QED BY <1>2, <1>3

(* What a request has read is valid or known to be broken.                   *)
LEMMA RefreshKeeps ==
  ASSUME LibraryInv, Refreshes
  PROVE  /\ library' = Refreshed /\ library' \in Libraries /\ change = NoWrite
         /\ onDisk' = onDisk /\ known' = TRUE /\ slipped' \in BOOLEAN /\ broken' = ~Readable
         /\ ~slipped' => IF onDisk = Unreadable THEN broken' ELSE ~broken' /\ SameItems(onDisk, library')
<1>s. LibraryShape /\ KnownInv /\ change = NoWrite /\ NoWrite.step = "none"
  BY NoWriteIsNone DEF LibraryInv, Refreshes, Unlocked
<1>1. /\ library' = Refreshed /\ broken' = ~Readable /\ known' = TRUE /\ slipped' = (slipped /\ known) /\ onDisk' = onDisk
      /\ Refreshed.revision <= MaxRevision
  BY DEF Refreshes
<1>2. library' \in Libraries
  <2>1. Refreshed \in Items
    BY RefreshedFacts
  <2>2. MaxRevision \in Nat
    BY LibraryAssumption
  <2> QED BY <1>1, <2>1, <2>2 DEF Items, Libraries
<1>3. ~slipped' => IF onDisk = Unreadable THEN broken' ELSE ~broken' /\ SameItems(onDisk, library')
  <2>1. CASE known
    <3>1. library' = library
      BY <1>1, <2>1, RefreshedFacts
    <3>2. broken' = broken /\ slipped' = slipped
      BY <1>s, <1>1, <2>1 DEF Readable, LibraryShape
    <3> QED BY <1>s, <2>1, <3>1, <3>2 DEF KnownInv
  <2>2. CASE ~known /\ onDisk = Unreadable
    BY <1>1, <2>2 DEF Readable
  <2>3. CASE ~known /\ onDisk # Unreadable
    <3>1. SameItems(Refreshed, onDisk)
      BY <2>3, RefreshedFacts
    <3> QED BY <1>1, <2>3, <3>1 DEF Readable, SameItems
  <2> QED BY <2>1, <2>2, <2>3
<1>4. slipped' \in BOOLEAN
  BY <1>1
<1> QED BY <1>s, <1>1, <1>2, <1>3, <1>4

(* A read, by a request that changes the library or not: a tab whose         *)
(* revision is that of the library has seen it.                              *)
LEMMA ReadKeeps ==
  ASSUME LibraryInv, Refreshes, tab' = TabSees(Refreshed)
  PROVE  /\ tab' \in [revision : Nat, fresh : BOOLEAN, sameLife : BOOLEAN]
         /\ TabInv'
         /\ tab.sameLife /\ tab.revision = Refreshed.revision => tab'.fresh
<1>s. LibraryShape /\ TabInv
  BY DEF LibraryInv
<1>1. library' = Refreshed /\ library' \in Libraries
  BY RefreshKeeps
<1>2. library.revision \in Nat /\ Refreshed.revision \in Nat /\ tab.revision \in Nat
  BY <1>s, <1>1 DEF LibraryShape, Libraries
<1>3. CASE Refreshed = library
  <2>1. tab' = tab
    BY <1>3 DEF TabSees
  <2> QED BY <1>s, <1>1, <1>3, <2>1 DEF TabInv, LibraryShape
<1>4. CASE Refreshed.revision > library.revision
  <2>1. tab' \in [revision : Nat, fresh : BOOLEAN, sameLife : BOOLEAN] /\ tab'.revision = tab.revision /\ tab'.sameLife = tab.sameLife
    BY <1>s DEF TabSees, LibraryShape
  <2>2. tab.sameLife => tab.revision < Refreshed.revision
    BY <1>s, <1>2, <1>4 DEF TabInv
  <2> QED BY <1>1, <1>2, <2>1, <2>2 DEF TabInv
<1> QED BY <1>3, <1>4, RefreshedFacts
-----------------------------------------------------------------------------
LEMMA LibraryInvStarts == LibraryInit => LibraryInv
<1> SUFFICES ASSUME LibraryInit PROVE LibraryInv
  OBVIOUS
<1>1. /\ onDisk = library /\ broken = FALSE /\ known = TRUE /\ slipped = FALSE
      /\ change = NoWrite /\ tab = [revision |-> 0, fresh |-> TRUE, sameLife |-> TRUE] /\ change.step = "none"
  BY NoWriteIsNone DEF LibraryInit
<1>2. library \in Libraries /\ library.revision = 0
  <2>1. PICK folders \in [FolderIds -> Folder \cup {NoItem}], queries \in [QueryIds -> Query \cup {NoItem}] :
          library = [folders |-> folders, queries |-> queries, revision |-> 0]
    BY DEF LibraryInit
  <2>2. 0 \in 0..MaxRevision
    BY LibraryAssumption
  <2> QED BY <2>1, <2>2 DEF Libraries
<1>3. library # Unreadable
  BY <1>2, UnreadableAssumption
<1>4. LibraryShape
  BY <1>1, <1>2 DEF LibraryShape
<1>5. WriteInv
  BY <1>1 DEF WriteInv
<1>6. KnownInv
  BY <1>1, <1>3 DEF KnownInv, SameItems
<1>7. TabInv
  <2>1. tab.revision = 0 /\ tab.fresh
    BY <1>1
  <2> QED BY <1>2, <2>1 DEF TabInv
<1> QED BY <1>4, <1>5, <1>6, <1>7 DEF LibraryInv

LEMMA ReadsKeep ==
  ASSUME LibraryInv, Refreshes, UNCHANGED change,
         tab' \in [revision : Nat, fresh : BOOLEAN, sameLife : BOOLEAN], TabInv'
  PROVE  LibraryInv'
<1>1. /\ library' \in Libraries /\ change' = NoWrite /\ onDisk' = onDisk /\ known' = TRUE /\ slipped' \in BOOLEAN
      /\ broken' = ~Readable
      /\ ~slipped' => IF onDisk = Unreadable THEN broken' ELSE ~broken' /\ SameItems(onDisk, library')
  BY RefreshKeeps
<1>2. change'.step = "none" /\ LibraryShape
  BY <1>1, NoWriteIsNone DEF LibraryInv
<1>3. LibraryShape'
  <2>1. broken' \in BOOLEAN
    BY <1>1
  <2> QED BY <1>1, <1>2, <2>1 DEF LibraryShape
<1>4. WriteInv'
  BY <1>1, <1>2 DEF WriteInv
<1>5. KnownInv'
  BY <1>1 DEF KnownInv, SameItems
<1> QED BY <1>3, <1>4, <1>5 DEF LibraryInv

(* The start of a write, whatever the change.                                *)
LEMMA CommitsKeeps ==
  ASSUME LibraryInv, NEW by \in {Tab, Others}, NEW next \in Items, Commits(by, next)
  PROVE  LibraryInv' /\ TabIsCurrent
<1> DEFINE w == [next EXCEPT !.revision = Refreshed.revision + 1]
<1>1. /\ Refreshes /\ Readable /\ tab' = TabSees(Refreshed) /\ Refreshed.revision < MaxRevision
      /\ by = Tab => tab.revision = Refreshed.revision
      /\ change' = [step |-> "writes", by |-> by, next |-> w]
  BY DEF Commits
<1>2. /\ library' = Refreshed /\ library' \in Libraries /\ onDisk' = onDisk /\ known' = TRUE /\ slipped' \in BOOLEAN
      /\ broken' = ~Readable
      /\ ~slipped' => IF onDisk = Unreadable THEN broken' ELSE ~broken' /\ SameItems(onDisk, library')
  BY <1>1, RefreshKeeps
<1>3. /\ tab' \in [revision : Nat, fresh : BOOLEAN, sameLife : BOOLEAN] /\ TabInv'
      /\ tab.sameLife /\ tab.revision = Refreshed.revision => tab'.fresh
  BY <1>1, ReadKeeps
<1>4. w \in Libraries /\ w.revision = library'.revision + 1
  <2>1. Refreshed.revision \in Nat /\ MaxRevision \in Nat
    BY <1>2, LibraryAssumption DEF Libraries
  <2>2. Refreshed.revision + 1 \in 0..MaxRevision
    BY <1>1, <2>1
  <2> QED BY <1>2, <2>2 DEF Items, Libraries
<1> HIDE DEF w
<1>5. change' \in Writes /\ change'.step = "writes" /\ change'.next = w /\ change'.by = by
  BY <1>1, <1>4 DEF Writes
<1>6. broken' = FALSE
  BY <1>1, <1>2
<1>7. LibraryShape'
  <2>1. LibraryShape
    BY DEF LibraryInv
  <2> QED BY <1>2, <1>3, <1>5, <1>6, <2>1 DEF LibraryShape
<1>8. WriteInv'
  BY <1>4, <1>5, <1>6 DEF WriteInv
<1>9. KnownInv'
  BY <1>2 DEF KnownInv, SameItems
<1>10. TabIsCurrent
  BY <1>1, <1>3, <1>5 DEF TabIsCurrent
<1> QED BY <1>3, <1>7, <1>8, <1>9, <1>10 DEF LibraryInv
-----------------------------------------------------------------------------
(* Every change makes a library of folders and queries.                      *)
LEMMA FolderReplaced ==
  ASSUME NEW l \in Items, NEW i, NEW f \in Folder \cup {NoItem}
  PROVE  [l EXCEPT !.folders[i] = f] \in Items
BY DEF Items

LEMMA QueryReplaced ==
  ASSUME NEW l \in Items, NEW i, NEW q \in Query \cup {NoItem}
  PROVE  [l EXCEPT !.queries[i] = q] \in Items
BY DEF Items

LEMMA ItemsRemoved ==
  ASSUME NEW l \in Items, NEW F, NEW Q
  PROVE  [l EXCEPT !.folders = [j \in FolderIds |-> IF j \in F THEN NoItem ELSE @[j]],
                   !.queries = [q \in QueryIds |-> IF q \in Q THEN NoItem ELSE @[q]]] \in Items
<1> DEFINE folders == [j \in FolderIds |-> IF j \in F THEN NoItem ELSE l.folders[j]]
           queries == [q \in QueryIds |-> IF q \in Q THEN NoItem ELSE l.queries[q]]
<1>1. folders \in [FolderIds -> Folder \cup {NoItem}] /\ queries \in [QueryIds -> Query \cup {NoItem}]
  BY DEF Items
<1> HIDE DEF folders, queries
<1>2. [l EXCEPT !.folders = folders, !.queries = queries] \in Items
  BY <1>1 DEF Items
<1> QED BY <1>2 DEF folders, queries

Changes(by) ==
  \/ \E f \in Folder : CreateFolder(by, f)
  \/ \E i \in FolderIds, name \in LibraryNames, parent \in FolderIds \cup {Top} : UpdateFolder(by, i, name, parent)
  \/ \E i \in FolderIds, recursive \in BOOLEAN : DeleteFolder(by, i, recursive)
  \/ \E q \in Query : CreateQuery(by, q)
  \/ \E i \in QueryIds, name \in LibraryNames, folder \in FolderIds \cup {Top} : UpdateQuery(by, i, name, folder)
  \/ \E i \in QueryIds : DeleteQuery(by, i)

LEMMA ChangesCommit ==
  ASSUME LibraryInv, NEW by \in {Tab, Others}, Changes(by)
  PROVE  \E next \in Items : Commits(by, next)
<1>1. Refreshed \in Items
  BY RefreshedFacts
<1>2. CASE \E f \in Folder : CreateFolder(by, f)
  <2>1. PICK f \in Folder, i \in FolderIds : Commits(by, [Refreshed EXCEPT !.folders[i] = f])
    BY <1>2 DEF CreateFolder
  <2> QED BY <1>1, <2>1, FolderReplaced
<1>3. CASE \E i \in FolderIds, name \in LibraryNames, parent \in FolderIds \cup {Top} : UpdateFolder(by, i, name, parent)
  <2>1. PICK i \in FolderIds, name \in LibraryNames, parent \in FolderIds \cup {Top} : UpdateFolder(by, i, name, parent)
    BY <1>3
  <2> DEFINE f == [Refreshed.folders[i] EXCEPT !.name = name, !.parent = parent]
  <2>2. i \in Folders(Refreshed) /\ Commits(by, [Refreshed EXCEPT !.folders[i] = f])
    BY <2>1 DEF UpdateFolder
  <2>3. f \in Folder
    <3>1. Refreshed.folders[i] \in Folder
      BY <1>1, <2>2 DEF Folders, Items
    <3> QED BY <3>1 DEF Folder
  <2> HIDE DEF f
  <2> QED BY <1>1, <2>2, <2>3, FolderReplaced
<1>4. CASE \E i \in FolderIds, recursive \in BOOLEAN : DeleteFolder(by, i, recursive)
  <2>1. PICK F, Q :
          Commits(by, [Refreshed EXCEPT !.folders = [j \in FolderIds |-> IF j \in F THEN NoItem ELSE @[j]],
                                        !.queries = [q \in QueryIds |-> IF q \in Q THEN NoItem ELSE @[q]]])
    BY <1>4 DEF DeleteFolder
  <2> DEFINE next == [Refreshed EXCEPT !.folders = [j \in FolderIds |-> IF j \in F THEN NoItem ELSE @[j]],
                                       !.queries = [q \in QueryIds |-> IF q \in Q THEN NoItem ELSE @[q]]]
  <2>2. next \in Items
    BY <1>1, ItemsRemoved
  <2>3. Commits(by, next)
    BY <2>1
  <2> HIDE DEF next
  <2> QED BY <2>2, <2>3
<1>5. CASE \E q \in Query : CreateQuery(by, q)
  <2>1. PICK q \in Query, i \in QueryIds : Commits(by, [Refreshed EXCEPT !.queries[i] = q])
    BY <1>5 DEF CreateQuery
  <2> QED BY <1>1, <2>1, QueryReplaced
<1>6. CASE \E i \in QueryIds, name \in LibraryNames, folder \in FolderIds \cup {Top} : UpdateQuery(by, i, name, folder)
  <2>1. PICK i \in QueryIds, name \in LibraryNames, folder \in FolderIds \cup {Top} : UpdateQuery(by, i, name, folder)
    BY <1>6
  <2> DEFINE q == [Refreshed.queries[i] EXCEPT !.name = name, !.folder = folder]
  <2>2. i \in Queries(Refreshed) /\ Commits(by, [Refreshed EXCEPT !.queries[i] = q])
    BY <2>1 DEF UpdateQuery
  <2>3. q \in Query
    <3>1. Refreshed.queries[i] \in Query
      BY <1>1, <2>2 DEF Queries, Items
    <3> QED BY <3>1 DEF Query
  <2> HIDE DEF q
  <2> QED BY <1>1, <2>2, <2>3, QueryReplaced
<1>7. CASE \E i \in QueryIds : DeleteQuery(by, i)
  <2>1. PICK i \in QueryIds : Commits(by, [Refreshed EXCEPT !.queries[i] = NoItem])
    BY <1>7 DEF DeleteQuery
  <2> QED BY <1>1, <2>1, QueryReplaced
<1> QED BY <1>2, <1>3, <1>4, <1>5, <1>6, <1>7 DEF Changes
-----------------------------------------------------------------------------
(* The write, and what comes from outside.                                   *)
LEMMA RenamesKeep ==
  ASSUME LibraryInv, Renames
  PROVE  LibraryInv'
<1>1. /\ LibraryShape /\ WriteInv /\ TabInv /\ change.step = "writes"
      /\ onDisk' = change.next /\ known' = FALSE /\ slipped' = FALSE /\ change' = [change EXCEPT !.step = "renamed"]
      /\ library' = library /\ broken' = broken /\ tab' = tab
  BY DEF LibraryInv, Renames
<1>2. change \in Writes /\ change # NoWrite
  BY <1>1, NoWriteIsNone DEF LibraryShape
<1>3. change' \in Writes /\ change'.step = "renamed" /\ change'.next = change.next /\ change.next \in Libraries
  BY <1>1, <1>2 DEF Writes
<1>4. LibraryShape'
  BY <1>1, <1>3 DEF LibraryShape
<1>5. WriteInv'
  BY <1>1, <1>2, <1>3 DEF WriteInv
<1>6. KnownInv' /\ TabInv'
  BY <1>1 DEF KnownInv, TabInv
<1> QED BY <1>4, <1>5, <1>6 DEF LibraryInv

LEMMA RenameFailsKeeps ==
  ASSUME LibraryInv, RenameFails
  PROVE  LibraryInv'
<1>1. /\ LibraryShape /\ WriteInv /\ KnownInv /\ TabInv /\ change.step = "writes"
      /\ onDisk' = onDisk /\ known' = known /\ slipped' = slipped /\ change' = NoWrite
      /\ library' = library /\ broken' = broken /\ tab' = tab
  BY DEF LibraryInv, RenameFails
<1>2. LibraryShape' /\ WriteInv'
  BY <1>1, NoWriteIsNone DEF LibraryShape, WriteInv
<1>3. KnownInv' /\ TabInv'
  BY <1>1 DEF KnownInv, TabInv
<1> QED BY <1>2, <1>3 DEF LibraryInv

LEMMA PublishesKeeps ==
  ASSUME LibraryInv, Publishes
  PROVE  LibraryInv'
<1>1. /\ LibraryShape /\ WriteInv /\ TabInv /\ change.step = "renamed"
      /\ library' = change.next /\ known' = TRUE /\ change' = NoWrite
      /\ tab' = IF change.by = Tab THEN TabAt(library'.revision) ELSE [tab EXCEPT !.fresh = FALSE]
      /\ broken' = broken /\ onDisk' = onDisk /\ slipped' = slipped
  BY DEF LibraryInv, Publishes
<1>2. change \in Writes /\ change # NoWrite
  BY <1>1, NoWriteIsNone DEF LibraryShape
<1>3. library' \in Libraries /\ library'.revision = library.revision + 1 /\ ~broken
  BY <1>1, <1>2 DEF Writes, WriteInv
<1>4. library.revision \in Nat /\ library'.revision \in Nat /\ tab.revision \in Nat
  BY <1>1, <1>3 DEF LibraryShape, Libraries
<1>5. tab' \in [revision : Nat, fresh : BOOLEAN, sameLife : BOOLEAN] /\ TabInv'
  <2>1. CASE change.by = Tab
    <3>1. tab' = [revision |-> library'.revision, fresh |-> TRUE, sameLife |-> TRUE]
      BY <1>1, <2>1 DEF TabAt
    <3>2. library'.revision <= library'.revision
      BY <1>4
    <3> QED BY <1>4, <3>1, <3>2 DEF TabInv
  <2>2. CASE change.by # Tab
    <3>1. /\ tab' \in [revision : Nat, fresh : BOOLEAN, sameLife : BOOLEAN]
          /\ tab'.revision = tab.revision /\ tab'.sameLife = tab.sameLife
      BY <1>1, <2>2 DEF LibraryShape
    <3>2. tab.sameLife => tab.revision < library'.revision
      BY <1>1, <1>3, <1>4 DEF TabInv
    <3> QED BY <1>4, <3>1, <3>2 DEF TabInv
  <2> QED BY <2>1, <2>2
<1>6. LibraryShape' /\ WriteInv'
  BY <1>1, <1>3, <1>5, NoWriteIsNone DEF LibraryShape, WriteInv
<1>7. KnownInv'
  <2>1. ~slipped => onDisk = library'
    BY <1>1 DEF WriteInv
  <2>2. library' # Unreadable
    BY <1>3, UnreadableAssumption
  <2> QED BY <1>1, <1>3, <2>1, <2>2 DEF KnownInv, SameItems
<1> QED BY <1>5, <1>6, <1>7 DEF LibraryInv

LEMMA EditsKeep ==
  ASSUME LibraryInv, Edits
  PROVE  LibraryInv'
<1>1. /\ LibraryShape /\ WriteInv /\ TabInv /\ known' = FALSE /\ slipped' = (slipped \/ change.step = "renamed")
      /\ library' = library /\ broken' = broken /\ change' = change /\ tab' = tab
  BY DEF LibraryInv, Edits
<1>2. onDisk' \in Libraries \cup {Unreadable}
  <2>1. NoLibrary \in Libraries
    BY LibraryAssumption DEF NoLibrary, Libraries
  <2>2. ASSUME onDisk # Unreadable, NEW i \in FolderIds, NEW f \in Folder \cup {NoItem}, onDisk' = [onDisk EXCEPT !.folders[i] = f]
        PROVE  onDisk' \in Libraries
    BY <1>1, <2>2 DEF LibraryShape, Libraries
  <2>3. ASSUME onDisk # Unreadable, NEW i \in QueryIds, NEW q \in Query \cup {NoItem}, onDisk' = [onDisk EXCEPT !.queries[i] = q]
        PROVE  onDisk' \in Libraries
    BY <1>1, <2>3 DEF LibraryShape, Libraries
  <2> QED BY <2>1, <2>2, <2>3 DEF Edits
<1>3. LibraryShape' /\ KnownInv' /\ TabInv'
  BY <1>1, <1>2 DEF LibraryShape, KnownInv, TabInv
<1>4. WriteInv'
  BY <1>1 DEF WriteInv
<1> QED BY <1>3, <1>4 DEF LibraryInv

LEMMA RestartsKeeps ==
  ASSUME LibraryInv, Restarts
  PROVE  LibraryInv'
<1>1. /\ LibraryShape
      /\ library' = IF onDisk = Unreadable THEN NoLibrary ELSE onDisk
      /\ broken' = (onDisk = Unreadable) /\ known' = TRUE /\ slipped' = FALSE /\ change' = NoWrite /\ onDisk' = onDisk
      /\ tab' = [tab EXCEPT !.sameLife = FALSE, !.fresh = @ /\ TabSees(library').fresh]
  BY DEF LibraryInv, Restarts
<1>2. library' \in Libraries
  BY <1>1, LibraryAssumption DEF LibraryShape, NoLibrary, Libraries
<1>3. tab' \in [revision : Nat, fresh : BOOLEAN, sameLife : BOOLEAN] /\ tab'.sameLife = FALSE
  <2>1. (tab.fresh /\ TabSees(library').fresh) \in BOOLEAN
    OBVIOUS
  <2> QED BY <1>1, <2>1 DEF LibraryShape
<1>4. LibraryShape'
  <2>1. broken' \in BOOLEAN
    BY <1>1
  <2> QED BY <1>1, <1>2, <1>3, <2>1 DEF LibraryShape
<1>5. WriteInv'
  BY <1>1, NoWriteIsNone DEF WriteInv
<1>6. KnownInv'
  BY <1>1 DEF KnownInv, SameItems
<1>7. TabInv'
  BY <1>3 DEF TabInv
<1> QED BY <1>4, <1>5, <1>6, <1>7 DEF LibraryInv
-----------------------------------------------------------------------------
LEMMA LibrarySteps ==
  ASSUME LibraryInv, [LibraryNext]_libraryVars
  PROVE  LibraryInv' /\ TabIsCurrent
<1>n. change' = NoWrite \/ (change' = change /\ Unlocked) \/ ~Unlocked => TabIsCurrent
  BY NoWriteIsNone DEF TabIsCurrent, Unlocked
<1>1. CASE Reads
  <2>1. Refreshes /\ tab' = TabSees(Refreshed) /\ change' = change /\ Unlocked
    BY <1>1 DEF Reads, Refreshes
  <2> QED BY <1>n, <2>1, ReadKeeps, ReadsKeep
<1>2. CASE TabLoads
  <2>1. Refreshes /\ tab' = TabAt(Refreshed.revision) /\ change' = change /\ Unlocked
    BY <1>2 DEF TabLoads, Refreshes
  <2>2. library' = Refreshed /\ library'.revision \in Nat
    BY <2>1, RefreshKeeps DEF Libraries
  <2>3. tab' = [revision |-> library'.revision, fresh |-> TRUE, sameLife |-> TRUE] /\ library'.revision <= library'.revision
    BY <2>1, <2>2 DEF TabAt
  <2>4. tab' \in [revision : Nat, fresh : BOOLEAN, sameLife : BOOLEAN] /\ TabInv'
    BY <2>2, <2>3 DEF TabInv
  <2> QED BY <1>n, <2>1, <2>4, ReadsKeep
<1>3. CASE \E by \in {Tab, Others} : Changes(by)
  <2>1. PICK by \in {Tab, Others} : Changes(by)
    BY <1>3
  <2>2. PICK next \in Items : Commits(by, next)
    BY <2>1, ChangesCommit
  <2> QED BY <2>2, CommitsKeeps
<1>4. CASE Renames
  BY <1>4, <1>n, RenamesKeep, NoWriteIsNone DEF Renames, Unlocked
<1>5. CASE RenameFails
  BY <1>5, <1>n, RenameFailsKeeps DEF RenameFails
<1>6. CASE Publishes
  BY <1>6, <1>n, PublishesKeeps DEF Publishes
<1>7. CASE Edits
  BY <1>7, <1>n, EditsKeep DEF Edits
<1>8. CASE Restarts
  BY <1>8, <1>n, RestartsKeeps DEF Restarts
<1>9. CASE UNCHANGED libraryVars
  <2>1. LibraryInv'
    BY <1>9 DEF libraryVars, LibraryInv, LibraryShape, WriteInv, KnownInv, TabInv
  <2> QED BY <1>9, <1>n, <2>1 DEF libraryVars
<1> QED BY <1>1, <1>2, <1>3, <1>4, <1>5, <1>6, <1>7, <1>8, <1>9 DEF LibraryNext, Changes

LEMMA LibraryInvHolds == LibrarySpec => []LibraryInv
<1>1. LibraryInit => LibraryInv
  BY LibraryInvStarts
<1>2. LibraryInv /\ [LibraryNext]_libraryVars => LibraryInv'
  BY LibrarySteps
<1> QED BY <1>1, <1>2, PTL DEF LibrarySpec

(* Between two requests the process has what the file has, or sees that it   *)
(* does not, for any tree and whatever writes, edits and restarts came       *)
(* before (refresh_locked, commit_locked).                                   *)
THEOREM FileIsKnownAlways == LibrarySpec => []FileIsKnown
<1>1. LibraryInv => FileIsKnown
  <2> SUFFICES ASSUME LibraryInv, Unlocked, known, ~slipped
               PROVE  IF onDisk = Unreadable THEN broken
                      ELSE ~broken /\ [onDisk EXCEPT !.revision = 0] = [library EXCEPT !.revision = 0]
    BY DEF FileIsKnown
  <2>1. IF onDisk = Unreadable THEN broken ELSE ~broken /\ SameItems(onDisk, library)
    BY NoWriteIsNone DEF LibraryInv, KnownInv, Unlocked
  <2>2. library \in Items /\ (onDisk # Unreadable => onDisk \in Items)
    BY LibrariesAreItems DEF LibraryInv, LibraryShape
  <2> QED BY <2>1, <2>2, SameButRevision
<1> QED BY <1>1, LibraryInvHolds, PTL

(* A tab never changes a library that it has not seen, however many tabs,    *)
(* edits and reloads there are (check_if_match_locked).                      *)
THEOREM EditorsSeeWhatTheyChange == LibrarySpec => EditorsKeepUpdates
<1>1. LibraryInv /\ [LibraryNext]_libraryVars => [TabIsCurrent]_libraryVars
  BY LibrarySteps
<1>2. LibrarySpec => [][TabIsCurrent]_libraryVars
  BY <1>1, LibraryInvHolds, PTL DEF LibrarySpec
<1>3. TabIsCurrent <=> (Unlocked /\ change'.step = "writes" /\ change'.by = Tab /\ tab.sameLife => tab'.fresh)
  BY DEF TabIsCurrent
<1> QED BY <1>2, <1>3, PTL DEF EditorsKeepUpdates
-----------------------------------------------------------------------------
(* The line of a folder: the least set with it that is closed upwards.       *)
Above(l, s) == s \cup ({l.folders[j].parent : j \in s} \ {Top})

Climbs(f, n, l, i) == f = [k \in 0..n |-> IF k = 0 THEN {i} \cap Folders(l) ELSE Above(l, f[k - 1])]

Most == Cardinality(FolderIds)

LEMMA MostIsNat == Most \in Nat
BY LibraryAssumption, FS_CardinalityType DEF Most

LEMMA ClimbsExist ==
  ASSUME NEW l, NEW i, NEW N \in Nat
  PROVE  \E f : Climbs(f, N, l, i)
<1> DEFINE S == {n \in Nat : \E f : Climbs(f, n, l, i)}
<1>1. 0 \in S
  <2> DEFINE f == [k \in 0..0 |-> {i} \cap Folders(l)]
  <2>1. Climbs(f, 0, l, i)
    BY DEF Climbs
  <2> QED BY <2>1
<1>2. ASSUME NEW n \in Nat, n \in S PROVE n + 1 \in S
  <2>1. PICK f : Climbs(f, n, l, i)
    BY <1>2
  <2> DEFINE g == [k \in 0..(n + 1) |-> IF k = n + 1 THEN Above(l, f[n]) ELSE f[k]]
  <2>2. \A k \in 0..n : f[k] = IF k = 0 THEN {i} \cap Folders(l) ELSE Above(l, f[k - 1])
    BY <2>1 DEF Climbs
  <2>3. ASSUME NEW k \in 0..(n + 1)
        PROVE  g[k] = IF k = 0 THEN {i} \cap Folders(l) ELSE Above(l, g[k - 1])
    <3>1. CASE k = n + 1
      <4>1. g[k] = Above(l, f[n]) /\ g[k - 1] = f[n] /\ k # 0
        BY <3>1
      <4> HIDE DEF g
      <4> QED BY <3>1, <4>1
    <3>2. CASE k # n + 1
      <4>1. k \in 0..n /\ g[k] = f[k] /\ (k # 0 => g[k - 1] = f[k - 1])
        BY <3>2
      <4> HIDE DEF g
      <4> QED BY <2>2, <4>1
    <3> QED BY <3>1, <3>2
  <2>4. Climbs(g, n + 1, l, i)
    <3>1. g = [k \in 0..(n + 1) |-> g[k]]
      OBVIOUS
    <3> HIDE DEF g
    <3> QED BY <2>3, <3>1 DEF Climbs
  <2> HIDE DEF g
  <2> QED BY <2>4
<1> HIDE DEF S
<1>3. Nat \subseteq S
  BY <1>1, <1>2, Induct
<1> QED BY <1>3 DEF S

LEMMA LineClimbs ==
  ASSUME NEW l, NEW i
  PROVE  \E f : /\ Line(l, i) = f[Most] /\ f[0] = {i} \cap Folders(l)
                /\ \A k \in Nat : k + 1 <= Most => f[k + 1] = Above(l, f[k])
<1> DEFINE line == CHOOSE f : Climbs(f, Most, l, i)
<1>1. Line(l, i) = line[Most]
  BY DEF Line, Climbs, Above, Most
<1>2. Climbs(line, Most, l, i)
  BY MostIsNat, ClimbsExist
<1> HIDE DEF line
<1>3. \A k \in 0..Most : line[k] = IF k = 0 THEN {i} \cap Folders(l) ELSE Above(l, line[k - 1])
  BY <1>2 DEF Climbs
<1>4. line[0] = {i} \cap Folders(l)
  BY <1>3, MostIsNat
<1>5. ASSUME NEW k \in Nat, k + 1 <= Most PROVE line[k + 1] = Above(l, line[k])
  <2>1. k + 1 \in 0..Most /\ k + 1 # 0 /\ (k + 1) - 1 = k
    BY <1>5, MostIsNat
  <2> QED BY <1>3, <2>1
<1> QED BY <1>1, <1>4, <1>5

Rooted(l)    == \A i \in Folders(l) : l.folders[i].parent \in Folders(l) \cup {Top}
Closed(l, S) == \A j \in S : l.folders[j].parent # Top => l.folders[j].parent \in S

LEMMA LineIsLeast ==
  ASSUME NEW l, NEW i, NEW S, {i} \cap Folders(l) \subseteq S, Closed(l, S)
  PROVE  Line(l, i) \subseteq S
<1>1. PICK f : /\ Line(l, i) = f[Most] /\ f[0] = {i} \cap Folders(l)
               /\ \A k \in Nat : k + 1 <= Most => f[k + 1] = Above(l, f[k])
  BY LineClimbs
<1> DEFINE T == {n \in Nat : n <= Most => f[n] \subseteq S}
<1>2. 0 \in T
  BY <1>1
<1>3. ASSUME NEW n \in Nat, n \in T PROVE n + 1 \in T
  <2> SUFFICES ASSUME n + 1 <= Most PROVE f[n + 1] \subseteq S
    OBVIOUS
  <2>1. f[n] \subseteq S
    BY <1>3, MostIsNat
  <2>2. f[n + 1] = Above(l, f[n])
    BY <1>1
  <2> QED BY <2>1, <2>2 DEF Above, Closed
<1> HIDE DEF T
<1>4. Most \in T
  BY <1>2, <1>3, Induct, MostIsNat
<1> QED BY <1>1, <1>4, MostIsNat DEF T

LEMMA LineIsClosed ==
  ASSUME NEW l, Rooted(l), NEW i
  PROVE  {i} \cap Folders(l) \subseteq Line(l, i) /\ Line(l, i) \subseteq Folders(l) /\ Closed(l, Line(l, i))
<1>1. PICK f : /\ Line(l, i) = f[Most] /\ f[0] = {i} \cap Folders(l)
               /\ \A k \in Nat : k + 1 <= Most => f[k + 1] = Above(l, f[k])
  BY LineClimbs
<1>2. Line(l, i) \subseteq Folders(l)
  BY LineIsLeast DEF Rooted, Closed
<1>3. CASE i \notin Folders(l)
  <2>1. {i} \cap Folders(l) \subseteq {} /\ Closed(l, {})
    BY <1>3 DEF Closed
  <2>2. Line(l, i) \subseteq {}
    BY <2>1, LineIsLeast
  <2> QED BY <1>2, <1>3, <2>2 DEF Closed
<1>4. CASE i \in Folders(l)
  <2> DEFINE Fits(n) == i \in f[n] /\ f[n] \subseteq Folders(l) /\ (Closed(l, f[n]) \/ Cardinality(f[n]) >= n + 1)
             T == {n \in Nat : n <= Most => Fits(n)}
  <2>1. 0 \in T
    <3>1. f[0] = {i} /\ Cardinality({i}) = 1
      BY <1>1, <1>4, FS_Singleton
    <3> QED BY <1>4, <3>1
  <2>2. ASSUME NEW n \in Nat, n \in T PROVE n + 1 \in T
    <3> SUFFICES ASSUME n + 1 <= Most
                 PROVE  /\ i \in f[n + 1] /\ f[n + 1] \subseteq Folders(l)
                        /\ Closed(l, f[n + 1]) \/ Cardinality(f[n + 1]) >= n + 2
      OBVIOUS
    <3>1. i \in f[n] /\ f[n] \subseteq Folders(l) /\ (Closed(l, f[n]) \/ Cardinality(f[n]) >= n + 1)
      BY <2>2, MostIsNat
    <3>2. f[n + 1] = Above(l, f[n])
      BY <1>1
    <3>3. i \in f[n + 1] /\ f[n + 1] \subseteq Folders(l) /\ f[n] \subseteq f[n + 1]
      BY <3>1, <3>2 DEF Above, Rooted
    <3>4. CASE Closed(l, f[n])
      <4>1. f[n + 1] = f[n]
        BY <3>2, <3>4 DEF Above, Closed
      <4> QED BY <3>3, <3>4, <4>1
    <3>5. CASE ~Closed(l, f[n])
      <4>1. f[n + 1] # f[n]
        BY <3>2, <3>5 DEF Above, Closed
      <4>2. IsFiniteSet(f[n + 1])
        BY <3>3, LibraryAssumption, FS_Subset DEF Folders
      <4>3. IsFiniteSet(f[n]) /\ Cardinality(f[n]) <= Cardinality(f[n + 1]) /\ Cardinality(f[n]) # Cardinality(f[n + 1])
        BY <3>3, <4>1, <4>2, FS_Subset
      <4>4. Cardinality(f[n]) \in Nat /\ Cardinality(f[n + 1]) \in Nat
        BY <4>2, <4>3, FS_CardinalityType
      <4> QED BY <3>1, <3>3, <3>5, <4>3, <4>4
    <3> QED BY <3>4, <3>5
  <2> HIDE DEF T
  <2>3. Most \in T
    BY <2>1, <2>2, Induct, MostIsNat
  <2>4. i \in f[Most] /\ f[Most] \subseteq FolderIds /\ (Closed(l, f[Most]) \/ Cardinality(f[Most]) >= Most + 1)
    BY <2>3, MostIsNat DEF T, Folders
  <2>5. Cardinality(f[Most]) <= Most
    BY <2>4, LibraryAssumption, FS_Subset DEF Most
  <2>6. Cardinality(f[Most]) \in Nat
    BY <2>4, LibraryAssumption, FS_Subset, FS_CardinalityType
  <2>7. Closed(l, f[Most])
    BY <2>4, <2>5, <2>6, MostIsNat
  <2> QED BY <1>1, <1>2, <2>4, <2>7
<1> QED BY <1>3, <1>4
-----------------------------------------------------------------------------
(* Lines in a tree.                                                          *)
Tree(l) == Rooted(l) /\ \A i \in Folders(l) : i \notin Line(l, l.folders[i].parent)

LEMMA LineOfNone ==
  ASSUME NEW l, NEW i, i \notin Folders(l)
  PROVE  Line(l, i) = {}
<1>1. {i} \cap Folders(l) \subseteq {} /\ Closed(l, {})
  BY DEF Closed
<1>2. Line(l, i) \subseteq {}
  BY <1>1, LineIsLeast
<1> QED BY <1>2

LEMMA TopHasNone == ASSUME NEW l PROVE Line(l, Top) = {}
BY LineOfNone, LibraryAssumption DEF Folders

LEMMA LineGoesOn ==
  ASSUME NEW l, Rooted(l), NEW i, NEW j \in Line(l, i)
  PROVE  Line(l, j) \subseteq Line(l, i)
BY LineIsClosed, LineIsLeast

LEMMA LineUnfolds ==
  ASSUME NEW l, Rooted(l), NEW i \in Folders(l)
  PROVE  Line(l, i) = {i} \cup Line(l, l.folders[i].parent)
<1> DEFINE p == l.folders[i].parent
<1>1. p \in Folders(l) \cup {Top}
  BY DEF Rooted
<1>2. i \in Line(l, i) /\ Closed(l, Line(l, i))
  BY LineIsClosed
<1>3. Line(l, p) \subseteq Line(l, i)
  <2>1. CASE p = Top
    BY <2>1, TopHasNone
  <2>2. CASE p # Top
    BY <1>2, <2>2, LineGoesOn DEF Closed
  <2> QED BY <2>1, <2>2
<1>4. Closed(l, {i} \cup Line(l, p))
  BY <1>1, LineIsClosed DEF Closed
<1>5. Line(l, i) \subseteq {i} \cup Line(l, p)
  BY <1>4, LineIsLeast
<1> QED BY <1>2, <1>3, <1>5

LEMMA NoLoop ==
  ASSUME NEW l, Tree(l), NEW x, NEW y, x \in Line(l, y), y \in Line(l, x)
  PROVE  x = y
<1> SUFFICES ASSUME x # y PROVE FALSE
  OBVIOUS
<1>0. Rooted(l)
  BY DEF Tree
<1>1. y \in Folders(l)
  BY <1>0, LineIsClosed
<1>2. x \in Line(l, l.folders[y].parent)
  BY <1>0, <1>1, LineUnfolds
<1>3. y \in Line(l, l.folders[y].parent)
  BY <1>0, <1>2, LineGoesOn
<1> QED BY <1>1, <1>3 DEF Tree

(* Of two folders above one, one is above the other.                         *)
LEMMA OneWay ==
  ASSUME NEW l, Rooted(l), NEW j, NEW c \in Line(l, j), NEW y \in Line(l, j)
  PROVE  c \in Line(l, y) \/ y \in Line(l, c)
<1> DEFINE S == {x \in Line(l, j) : c \in Line(l, x) \/ x \in Line(l, c)}
<1>1. {j} \cap Folders(l) \subseteq S
  BY LineIsClosed
<1>2. ASSUME NEW x \in S, l.folders[x].parent # Top PROVE l.folders[x].parent \in S
  <2>1. x \in Folders(l) /\ l.folders[x].parent \in Line(l, j)
    BY <1>2, LineIsClosed DEF Closed
  <2>2. CASE x \in Line(l, c)
    <3>1. l.folders[x].parent \in Line(l, c)
      BY <1>2, <2>2, LineIsClosed DEF Closed
    <3> QED BY <2>1, <3>1
  <2>3. CASE c \in Line(l, x) /\ c # x
    <3>1. c \in Line(l, l.folders[x].parent)
      BY <2>1, <2>3, LineUnfolds
    <3> QED BY <2>1, <3>1
  <2>4. CASE c = x
    <3>1. x \in Line(l, c)
      BY <2>1, <2>4, LineIsClosed
    <3> QED BY <2>2, <3>1
  <2> QED BY <2>2, <2>3, <2>4
<1>3. Line(l, j) \subseteq S
  <2>1. Closed(l, S)
    BY <1>2 DEF Closed
  <2> HIDE DEF S
  <2> QED BY <1>1, <2>1, LineIsLeast
<1> QED BY <1>3

(* A line whose folders keep their parents is the same in another tree.      *)
LEMMA LineStays ==
  ASSUME NEW l, Rooted(l), NEW m, Rooted(m), NEW j, j \in Folders(m) => j \in Folders(l),
         \A x \in Line(l, j) : x \in Folders(m) /\ m.folders[x].parent = l.folders[x].parent
  PROVE  Line(m, j) = Line(l, j)
<1>1. {j} \cap Folders(l) \subseteq Line(l, j) /\ Closed(l, Line(l, j))
  BY LineIsClosed
<1>2. Closed(m, Line(l, j)) /\ {j} \cap Folders(m) \subseteq Line(l, j)
  BY <1>1 DEF Closed
<1>3. Line(m, j) \subseteq Line(l, j)
  BY <1>2, LineIsLeast
<1>4. Closed(m, Line(m, j)) /\ {j} \cap Folders(m) \subseteq Line(m, j)
  BY LineIsClosed
<1>5. Closed(l, Line(m, j)) /\ {j} \cap Folders(l) \subseteq Line(m, j)
  BY <1>1, <1>3, <1>4 DEF Closed
<1>6. Line(l, j) \subseteq Line(m, j)
  BY <1>5, LineIsLeast
<1> QED BY <1>3, <1>6

LEMMA DepthIsNat ==
  ASSUME NEW l, Rooted(l), NEW i
  PROVE  IsFiniteSet(Line(l, i)) /\ Depth(l, i) \in Nat
<1>1. Line(l, i) \subseteq FolderIds
  BY LineIsClosed DEF Folders
<1>2. IsFiniteSet(Line(l, i))
  BY <1>1, LibraryAssumption, FS_Subset
<1> QED BY <1>2, FS_CardinalityType DEF Depth

LEMMA DepthGrows ==
  ASSUME NEW l, Tree(l), NEW i \in Folders(l)
  PROVE  Depth(l, i) = Depth(l, l.folders[i].parent) + 1
<1>0. Rooted(l) /\ i \notin Line(l, l.folders[i].parent)
  BY DEF Tree
<1>1. Line(l, i) = Line(l, l.folders[i].parent) \cup {i}
  BY <1>0, LineUnfolds
<1>2. IsFiniteSet(Line(l, l.folders[i].parent))
  BY <1>0, DepthIsNat
<1> QED BY <1>0, <1>1, <1>2, FS_AddElement DEF Depth
-----------------------------------------------------------------------------
(* A folder c, new or with everything in it, goes below p.                   *)
Grafted(l, m, c, p) ==
  /\ Folders(m) = Folders(l) \cup {c} /\ m.folders[c].parent = p
  /\ p \in Folders(l) \cup {Top} /\ c \notin Line(l, p)
  /\ \A j \in Folders(l) \ {c} : m.folders[j].parent = l.folders[j].parent

LEMMA GraftIsRooted ==
  ASSUME NEW l, Tree(l), NEW m, NEW c, NEW p, Grafted(l, m, c, p)
  PROVE  Rooted(m)
BY DEF Tree, Rooted, Grafted

LEMMA GraftElsewhere ==
  ASSUME NEW l, Tree(l), NEW m, NEW c, NEW p, Grafted(l, m, c, p), NEW j, j # c, c \notin Line(l, j)
  PROVE  Line(m, j) = Line(l, j)
<1>1. Rooted(l) /\ Rooted(m)
  BY GraftIsRooted DEF Tree
<1>2. j \in Folders(m) => j \in Folders(l)
  BY DEF Grafted
<1>3. \A x \in Line(l, j) : x \in Folders(m) /\ m.folders[x].parent = l.folders[x].parent
  BY <1>1, LineIsClosed DEF Grafted
<1> QED BY <1>1, <1>2, <1>3, LineStays

LEMMA GraftItself ==
  ASSUME NEW l, Tree(l), NEW m, NEW c, c # Top, NEW p, Grafted(l, m, c, p)
  PROVE  Line(m, c) = {c} \cup Line(l, p) /\ Line(m, p) = Line(l, p)
<1>1. Rooted(m) /\ Rooted(l)
  BY GraftIsRooted DEF Tree
<1>2. p # c
  BY <1>1, LineIsClosed DEF Grafted
<1>3. Line(m, p) = Line(l, p)
  BY <1>2, GraftElsewhere DEF Grafted
<1>4. Line(m, c) = {c} \cup Line(m, m.folders[c].parent)
  BY <1>1, LineUnfolds DEF Grafted
<1> QED BY <1>3, <1>4 DEF Grafted

(* What is below c goes with it.                                             *)
LEMMA GraftBelow ==
  ASSUME NEW l, Tree(l), NEW m, NEW c, c # Top, NEW p, Grafted(l, m, c, p), NEW j \in Folders(l), c \in Line(l, j)
  PROVE  Line(m, j) \subseteq (Line(l, j) \ Line(l, c)) \cup Line(m, c)
<1> DEFINE S == (Line(l, j) \ Line(l, c)) \cup Line(m, c)
<1>0. Rooted(l) /\ Rooted(m) /\ c \in Folders(l)
  BY GraftIsRooted, LineIsClosed DEF Tree
<1>1. c \in Line(m, c) /\ Closed(m, Line(m, c))
  BY <1>0, LineIsClosed DEF Grafted
<1>2. j \in S
  <2>1. j \in Line(l, j)
    BY <1>0, LineIsClosed
  <2>2. j \in Line(l, c) => j = c
    BY NoLoop
  <2> QED BY <1>1, <2>1, <2>2
<1>3. ASSUME NEW y \in Line(l, j) \ Line(l, c), m.folders[y].parent # Top PROVE m.folders[y].parent \in S
  <2>1. y \in Folders(l) /\ y # c
    BY <1>0, <1>3, LineIsClosed
  <2>2. m.folders[y].parent = l.folders[y].parent
    BY <2>1 DEF Grafted
  <2>3. l.folders[y].parent \in Line(l, j)
    BY <1>0, <1>3, <2>2, LineIsClosed DEF Closed
  <2>4. c \in Line(l, l.folders[y].parent)
    <3>1. c \in Line(l, y)
      BY <1>0, <1>3, OneWay
    <3> QED BY <1>0, <2>1, <3>1, LineUnfolds
  <2>5. l.folders[y].parent \in Line(l, c) => l.folders[y].parent = c
    BY <2>4, NoLoop
  <2> QED BY <1>1, <2>2, <2>3, <2>5
<1>4. Closed(m, S)
  BY <1>1, <1>3 DEF Closed
<1> HIDE DEF S
<1>5. Line(m, j) \subseteq S
  BY <1>2, <1>4, LineIsLeast
<1> QED BY <1>5 DEF S

LEMMA GraftIsTree ==
  ASSUME NEW l, Tree(l), NEW m, NEW c, c # Top, NEW p, Grafted(l, m, c, p)
  PROVE  Tree(m)
<1>0. Rooted(l) /\ Rooted(m) /\ Line(m, c) = {c} \cup Line(l, p) /\ Line(m, p) = Line(l, p)
  BY GraftIsRooted, GraftItself DEF Tree
<1> SUFFICES ASSUME NEW j \in Folders(m) PROVE j \notin Line(m, m.folders[j].parent)
  BY <1>0 DEF Tree
<1>1. CASE j = c
  BY <1>0, <1>1 DEF Grafted
<1>2. CASE j # c
  <2> DEFINE q == l.folders[j].parent
  <2>1. j \in Folders(l) /\ m.folders[j].parent = q /\ q \in Folders(l) \cup {Top} /\ j \notin Line(l, q)
    BY <1>0, <1>2 DEF Grafted, Tree, Rooted
  <2>2. CASE q # c /\ c \notin Line(l, q)
    BY <2>1, <2>2, GraftElsewhere
  <2>3. CASE q = c \/ c \in Line(l, q)
    <3>1. q \in Folders(l) /\ c \in Line(l, q)
      BY <1>0, <2>1, <2>3, TopHasNone, LineIsClosed
    <3>2. Line(m, q) \subseteq (Line(l, q) \ Line(l, c)) \cup {c} \cup Line(l, p)
      BY <1>0, <3>1, GraftBelow
    <3>3. j \notin Line(l, p)
      <4> SUFFICES ASSUME j \in Line(l, p) PROVE FALSE
        OBVIOUS
      <4>1. c \in Line(l, j)
        BY <1>0, <2>1, <3>1, LineUnfolds
      <4>2. c \in Line(l, p)
        BY <1>0, <4>1, LineGoesOn
      <4> QED BY <4>2 DEF Grafted
    <3> QED BY <1>2, <2>1, <3>2, <3>3
  <2> QED BY <2>2, <2>3
<1> QED BY <1>1, <1>2

LEMMA GraftIsDeep ==
  ASSUME NEW l, Tree(l), NEW m, NEW c, c # Top, NEW p, Grafted(l, m, c, p)
  PROVE  /\ Depth(m, c) = Depth(l, p) + 1
         /\ \A j \in Folders(l) : IF c \in Line(l, j) THEN Depth(m, j) <= Depth(l, p) + Depth(l, j) - Depth(l, c) + 1
                                                    ELSE j # c => Depth(m, j) = Depth(l, j)
<1>0. /\ Rooted(l) /\ Tree(m) /\ Rooted(m) /\ Line(m, c) = {c} \cup Line(l, p) /\ Line(m, p) = Line(l, p)
      /\ c \in Folders(m) /\ m.folders[c].parent = p
  BY GraftIsTree, GraftItself DEF Tree, Grafted
<1>1. Depth(m, c) = Depth(l, p) + 1
  BY <1>0, DepthGrows DEF Depth
<1>2. ASSUME NEW j \in Folders(l), c \in Line(l, j) PROVE Depth(m, j) <= Depth(l, p) + Depth(l, j) - Depth(l, c) + 1
  <2> DEFINE D == Line(l, j) \ Line(l, c)
  <2>1. Line(m, j) \subseteq D \cup Line(m, c)
    BY <1>2, GraftBelow
  <2>2. IsFiniteSet(Line(l, j)) /\ Line(l, j) \cap Line(l, c) = Line(l, c) /\ IsFiniteSet(Line(m, c))
    BY <1>0, <1>2, LineGoesOn, DepthIsNat
  <2>3. IsFiniteSet(D) /\ Cardinality(D) = Depth(l, j) - Depth(l, c)
    BY <2>2, FS_Difference DEF Depth
  <2> HIDE DEF D
  <2>4. /\ IsFiniteSet(D \cup Line(m, c)) /\ Cardinality(D \cap Line(m, c)) \in Nat
        /\ Cardinality(D \cup Line(m, c)) = Cardinality(D) + Depth(m, c) - Cardinality(D \cap Line(m, c))
    <3>1. IsFiniteSet(D \cap Line(m, c))
      BY <2>3, FS_Subset
    <3> QED BY <2>2, <2>3, <3>1, FS_Union, FS_CardinalityType DEF Depth
  <2>5. Depth(m, j) <= Cardinality(D \cup Line(m, c))
    BY <2>1, <2>4, FS_Subset DEF Depth
  <2>6. Depth(l, j) \in Nat /\ Depth(l, c) \in Nat /\ Depth(m, c) \in Nat /\ Depth(m, j) \in Nat /\ Depth(l, p) \in Nat
    BY <1>0, DepthIsNat
  <2> QED BY <1>1, <2>3, <2>4, <2>5, <2>6
<1>3. ASSUME NEW j \in Folders(l), c \notin Line(l, j), j # c PROVE Depth(m, j) = Depth(l, j)
  BY <1>3, GraftElsewhere DEF Depth
<1> QED BY <1>1, <1>2, <1>3
-----------------------------------------------------------------------------
(* The libraries that the loader accepts, and every change of one.           *)
FoldersKeepOrder(l, m) == \A i \in Folders(m) : (i \in Folders(l) => FolderInOrder(l, i)) => FolderInOrder(m, i)
QueriesKeepOrder(l, m) == \A i \in Queries(m) : (i \in Queries(l) => QueryInOrder(l, i)) => QueryInOrder(m, i)
Follows(l, m)          == Accepted(m) /\ FoldersKeepOrder(l, m) /\ QueriesKeepOrder(l, m)

LEMMA AcceptedIsTree == ASSUME NEW l, Accepted(l) PROVE Tree(l) /\ Rooted(l)
BY DEF Accepted, Tree, Rooted, RefersTo

LEMMA SameTree ==
  ASSUME NEW a, NEW b, SameItems(a, b)
  PROVE  /\ Folders(b) = Folders(a) /\ Queries(b) = Queries(a)
         /\ \A i : Line(b, i) = Line(a, i)
         /\ b.folders = a.folders /\ b.queries = a.queries
BY DEF SameItems, Folders, Queries, Line

LEMMA AcceptedSame ==
  ASSUME NEW a, NEW b, SameItems(a, b), Accepted(a)
  PROVE  Accepted(b)
BY SameTree DEF Accepted, RefersTo

LEMMA FollowsSame ==
  ASSUME NEW l, NEW a, NEW b, SameItems(a, b), Follows(l, a)
  PROVE  Follows(l, b)
<1>1. /\ Folders(b) = Folders(a) /\ Queries(b) = Queries(a) /\ \A i : Line(b, i) = Line(a, i)
      /\ b.folders = a.folders /\ b.queries = a.queries
  BY SameTree
<1>2. Accepted(b)
  BY AcceptedSame DEF Follows
<1>3. ASSUME NEW i PROVE FolderInOrder(b, i) <=> FolderInOrder(a, i)
  BY <1>1 DEF FolderInOrder, Depth, FolderNameTaken
<1>4. ASSUME NEW i PROVE QueryInOrder(b, i) <=> QueryInOrder(a, i)
  BY <1>1 DEF QueryInOrder, QueryNameTaken
<1>5. FoldersKeepOrder(l, b)
  BY <1>1, <1>3 DEF Follows, FoldersKeepOrder
<1>6. QueriesKeepOrder(l, b)
  BY <1>1, <1>4 DEF Follows, QueriesKeepOrder
<1> QED BY <1>2, <1>5, <1>6 DEF Follows

LEMMA EmptyIsAccepted == Accepted(NoLibrary)
BY DEF NoLibrary, Accepted, Folders, Queries

(* Where the folders are as they were, so is their order.                    *)
LEMMA FoldersStay ==
  ASSUME NEW l, Accepted(l), NEW m, m.folders = l.folders
  PROVE  /\ Folders(m) = Folders(l) /\ FoldersKeepOrder(l, m)
         /\ \A i, h : RefersTo(m, i, h) <=> RefersTo(l, i, h)
         /\ (\A i \in Queries(m) : RefersTo(l, m.queries[i].folder, m.queries[i].host)) => Accepted(m)
<1>1. Folders(m) = Folders(l) /\ \A i : Line(m, i) = Line(l, i)
  BY DEF Folders, Line
<1>2. \A i, h : RefersTo(m, i, h) <=> RefersTo(l, i, h)
  BY <1>1 DEF RefersTo
<1>3. FoldersKeepOrder(l, m)
  BY <1>1 DEF FoldersKeepOrder, FolderInOrder, Depth, FolderNameTaken
<1>4. (\A i \in Queries(m) : RefersTo(l, m.queries[i].folder, m.queries[i].host)) => Accepted(m)
  BY <1>1, <1>2 DEF Accepted
<1> QED BY <1>1, <1>2, <1>3, <1>4

(* The queries change; the folders do not.                                   *)
LEMMA QueryFollows ==
  ASSUME NEW l \in Items, Accepted(l), NEW c \in QueryIds, NEW q \in Query, RefersTo(l, q.folder, q.host), ~QueryNameTaken(l, q, {c})
  PROVE  Follows(l, [l EXCEPT !.queries[c] = q])
<1> DEFINE m == [l EXCEPT !.queries[c] = q]
<1>1. /\ m.folders = l.folders /\ m.queries[c] = q /\ \A i \in QueryIds \ {c} : m.queries[i] = l.queries[i]
  BY DEF Items
<1> HIDE DEF m
<1>2. Queries(m) = Queries(l) \cup {c}
  BY <1>1, NoItemAssumption DEF Queries
<1>3. Accepted(m) /\ FoldersKeepOrder(l, m)
  <2>1. ASSUME NEW i \in Queries(m) PROVE RefersTo(l, m.queries[i].folder, m.queries[i].host)
    BY <1>1, <1>2 DEF Accepted, Queries
  <2> QED BY <1>1, <2>1, FoldersStay
<1>4. QueriesKeepOrder(l, m)
  <2> SUFFICES ASSUME NEW i \in Queries(m), i \in Queries(l) => QueryInOrder(l, i) PROVE QueryInOrder(m, i)
    BY DEF QueriesKeepOrder
  <2>1. CASE i = c
    BY <1>1, <1>2, <2>1 DEF QueryInOrder, QueryNameTaken, Queries
  <2>2. CASE i # c
    <3>1. i \in Queries(l) /\ m.queries[i] = l.queries[i] /\ ~QueryNameTaken(l, l.queries[i], {i})
      BY <1>1, <1>2, <2>2 DEF QueryInOrder, Queries
    <3>2. ~QueryNameTaken(m, l.queries[i], {i})
      <4> SUFFICES ASSUME NEW j \in Queries(m) \ {i}, m.queries[j].host = l.queries[i].host,
                          m.queries[j].folder = l.queries[i].folder, m.queries[j].name = l.queries[i].name
                   PROVE  FALSE
        BY DEF QueryNameTaken
      <4>1. CASE j = c
        BY <1>1, <2>2, <3>1, <4>1 DEF QueryNameTaken
      <4>2. CASE j # c
        BY <1>1, <1>2, <3>1, <4>2 DEF QueryNameTaken, Queries
      <4> QED BY <4>1, <4>2
    <3> QED BY <3>1, <3>2 DEF QueryInOrder
  <2> QED BY <2>1, <2>2
<1>5. Follows(l, m)
  BY <1>3, <1>4 DEF Follows
<1> QED BY <1>5 DEF m

LEMMA NoQueryFollows ==
  ASSUME NEW l \in Items, Accepted(l), NEW c \in QueryIds
  PROVE  Follows(l, [l EXCEPT !.queries[c] = NoItem])
<1> DEFINE m == [l EXCEPT !.queries[c] = NoItem]
<1>1. /\ m.folders = l.folders /\ m.queries[c] = NoItem /\ \A i \in QueryIds \ {c} : m.queries[i] = l.queries[i]
  BY DEF Items
<1> HIDE DEF m
<1>2. Queries(m) = Queries(l) \ {c} /\ \A i \in Queries(m) : m.queries[i] = l.queries[i]
  BY <1>1 DEF Queries
<1>3. Accepted(m) /\ FoldersKeepOrder(l, m)
  <2>1. ASSUME NEW i \in Queries(m) PROVE RefersTo(l, m.queries[i].folder, m.queries[i].host)
    BY <1>2 DEF Accepted
  <2> QED BY <1>1, <2>1, FoldersStay
<1>4. QueriesKeepOrder(l, m)
  BY <1>2 DEF QueriesKeepOrder, QueryInOrder, QueryNameTaken
<1>5. Follows(l, m)
  BY <1>3, <1>4 DEF Follows
<1> QED BY <1>5 DEF m

(* A folder is made, named or moved: a new one, or one that goes elsewhere,  *)
(* has been measured.                                                        *)
LEMMA FolderFollows ==
  ASSUME NEW l \in Items, Accepted(l), NEW c \in FolderIds, NEW f \in Folder, RefersTo(l, f.parent, f.host),
         c \notin Line(l, f.parent), c \in Folders(l) => f.host = l.folders[c].host,
         \/ c \in Folders(l) /\ f.parent = l.folders[c].parent
         \/ FolderFits(l, f.parent, c) /\ SubtreeFits(l, f.parent, c),
         ~FolderNameTaken(l, f, {c})
  PROVE  Follows(l, [l EXCEPT !.folders[c] = f])
<1> DEFINE m == [l EXCEPT !.folders[c] = f]
<1>1. /\ m.queries = l.queries /\ m.folders[c] = f /\ \A i \in FolderIds \ {c} : m.folders[i] = l.folders[i]
  BY DEF Items
<1> HIDE DEF m
<1>2. Folders(m) = Folders(l) \cup {c} /\ Queries(m) = Queries(l) /\ Folders(l) \subseteq FolderIds /\ c # Top
  BY <1>1, NoItemAssumption, LibraryAssumption DEF Folders, Queries
<1>3. Grafted(l, m, c, f.parent)
  BY <1>1, <1>2 DEF Grafted, RefersTo
<1>4. Tree(l) /\ Rooted(l)
  BY AcceptedIsTree
<1>5. Tree(m) /\ Rooted(m)
  BY <1>2, <1>3, <1>4, GraftIsTree DEF Tree
<1>6. ASSUME NEW i, NEW h, RefersTo(l, i, h) PROVE RefersTo(m, i, h)
  BY <1>1, <1>2, <1>6 DEF RefersTo
<1>7. Accepted(m)
  <2>1. ASSUME NEW i \in Folders(m) PROVE RefersTo(m, m.folders[i].parent, m.folders[i].host)
    <3>1. CASE i = c
      BY <1>1, <1>6, <3>1
    <3>2. CASE i # c
      BY <1>1, <1>2, <1>6, <3>2 DEF Accepted
    <3> QED BY <3>1, <3>2
  <2>2. ASSUME NEW i \in Queries(m) PROVE RefersTo(m, m.queries[i].folder, m.queries[i].host)
    BY <1>1, <1>2, <1>6 DEF Accepted
  <2> QED BY <1>5, <2>1, <2>2 DEF Accepted, Tree
<1>8. ASSUME NEW i \in Folders(m), i \in Folders(l) => Depth(l, i) <= MaxDepth PROVE Depth(m, i) <= MaxDepth
  <2>0. /\ Depth(m, i) \in Nat /\ Depth(l, i) \in Nat /\ Depth(l, c) \in Nat /\ Depth(l, f.parent) \in Nat /\ MaxDepth \in Nat
    BY <1>4, <1>5, DepthIsNat, LibraryAssumption
  <2>1. c \in Folders(l) /\ f.parent = l.folders[c].parent => Depth(l, c) = Depth(l, f.parent) + 1
    BY <1>4, DepthGrows
  <2>2. CASE i = c
    <3>1. Depth(m, c) = Depth(l, f.parent) + 1
      BY <1>2, <1>3, <1>4, GraftIsDeep
    <3> QED BY <1>8, <2>0, <2>1, <2>2, <3>1 DEF FolderFits
  <2>3. CASE i # c
    <3>0. i \in Folders(l)
      BY <1>2, <2>3
    <3>1. i \in Folders(l) /\ Depth(l, i) <= MaxDepth
      BY <1>8, <3>0
    <3>2. IF c \in Line(l, i) THEN Depth(m, i) <= Depth(l, f.parent) + Depth(l, i) - Depth(l, c) + 1
                             ELSE Depth(m, i) = Depth(l, i)
      BY <1>2, <1>3, <1>4, <2>3, <3>0, GraftIsDeep
    <3>3. c \in Line(l, i) => Depth(l, f.parent) + Depth(l, i) - Depth(l, c) + 1 <= MaxDepth
      <4>1. CASE c \in Folders(l) /\ f.parent = l.folders[c].parent
        BY <2>0, <2>1, <3>1, <4>1
      <4>2. CASE SubtreeFits(l, f.parent, c)
        BY <3>1, <4>2 DEF SubtreeFits, Subtree
      <4> QED BY <4>1, <4>2
    <3> QED BY <2>0, <3>1, <3>2, <3>3
  <2> QED BY <2>2, <2>3
<1>9. ASSUME NEW i \in Folders(m), i \in Folders(l) => ~FolderNameTaken(l, l.folders[i], {i})
      PROVE  ~FolderNameTaken(m, m.folders[i], {i})
  <2>1. CASE i = c
    BY <1>1, <1>2, <2>1 DEF FolderNameTaken, Folders
  <2>2. CASE i # c
    <3>1. i \in Folders(l) /\ m.folders[i] = l.folders[i] /\ ~FolderNameTaken(l, l.folders[i], {i})
      BY <1>1, <1>2, <1>9, <2>2
    <3> SUFFICES ASSUME NEW j \in Folders(m) \ {i}, m.folders[j].host = l.folders[i].host,
                        m.folders[j].parent = l.folders[i].parent, m.folders[j].name = l.folders[i].name
                 PROVE  FALSE
      BY <3>1 DEF FolderNameTaken
    <3>2. CASE j = c
      BY <1>1, <2>2, <3>1, <3>2 DEF FolderNameTaken
    <3>3. CASE j # c
      BY <1>1, <1>2, <3>1, <3>3 DEF FolderNameTaken
    <3> QED BY <3>2, <3>3
  <2> QED BY <2>1, <2>2
<1>10. FoldersKeepOrder(l, m)
  BY <1>8, <1>9 DEF FoldersKeepOrder, FolderInOrder
<1>11. QueriesKeepOrder(l, m)
  BY <1>1, <1>2 DEF QueriesKeepOrder, QueryInOrder, QueryNameTaken
<1>12. Follows(l, m)
  BY <1>7, <1>10, <1>11 DEF Follows
<1> QED BY <1>12 DEF m

(* A folder goes with all that is below it.                                  *)
LEMMA DeletionFollows ==
  ASSUME NEW l \in Items, Accepted(l), NEW i \in Folders(l), NEW Q, Q = {q \in Queries(l) : l.queries[q].folder \in Subtree(l, i)}
  PROVE  Follows(l, [l EXCEPT !.folders = [j \in FolderIds |-> IF j \in Subtree(l, i) THEN NoItem ELSE @[j]],
                              !.queries = [q \in QueryIds |-> IF q \in Q THEN NoItem ELSE @[q]]])
<1> DEFINE F == [j \in FolderIds |-> IF j \in Subtree(l, i) THEN NoItem ELSE l.folders[j]]
           G == [q \in QueryIds |-> IF q \in Q THEN NoItem ELSE l.queries[q]]
           m == [l EXCEPT !.folders = F, !.queries = G]
<1>1. m.folders = F /\ m.queries = G
  BY DEF Items
<1>2. \A j \in FolderIds : F[j] = IF j \in Subtree(l, i) THEN NoItem ELSE l.folders[j]
  OBVIOUS
<1>3. \A q \in QueryIds : G[q] = IF q \in Q THEN NoItem ELSE l.queries[q]
  OBVIOUS
<1> HIDE DEF m, F, G
<1>4. /\ Folders(m) = Folders(l) \ Subtree(l, i) /\ Queries(m) = Queries(l) \ Q
      /\ \A j \in Folders(m) : m.folders[j] = l.folders[j]
      /\ \A q \in Queries(m) : m.queries[q] = l.queries[q]
  BY <1>1, <1>2, <1>3 DEF Folders, Queries
<1>5. Tree(l) /\ Rooted(l)
  BY AcceptedIsTree
<1>6. ASSUME NEW j \in Folders(m) PROVE i \notin Line(l, j) /\ l.folders[j].parent \in Folders(m) \cup {Top}
  <2>1. j \in Folders(l) /\ i \notin Line(l, j)
    BY <1>4 DEF Subtree
  <2>2. i \notin Line(l, l.folders[j].parent)
    BY <1>5, <2>1, LineUnfolds
  <2> QED BY <1>4, <1>5, <2>1, <2>2 DEF Rooted, Subtree
<1>7. Rooted(m)
  BY <1>4, <1>6 DEF Rooted
<1>8. ASSUME NEW j \in Folders(m) \cup {Top} PROVE Line(m, j) = Line(l, j)
  <2>1. CASE j = Top
    BY <2>1, TopHasNone
  <2>2. CASE j \in Folders(m)
    <3>1. ASSUME NEW x \in Line(l, j) PROVE x \in Folders(m)
      BY <1>4, <1>5, <1>6, <2>2, LineIsClosed, LineGoesOn DEF Subtree
    <3> QED BY <1>4, <1>5, <1>7, <3>1, LineStays
  <2> QED BY <2>1, <2>2
<1>9. Accepted(m)
  <2>1. ASSUME NEW j \in Folders(m)
        PROVE  RefersTo(m, m.folders[j].parent, m.folders[j].host) /\ j \notin Line(m, m.folders[j].parent)
    <3>1. /\ m.folders[j] = l.folders[j] /\ l.folders[j].parent \in Folders(m) \cup {Top}
          /\ RefersTo(l, l.folders[j].parent, l.folders[j].host) /\ j \notin Line(l, l.folders[j].parent)
      BY <1>4, <1>6 DEF Accepted
    <3>2. Line(m, l.folders[j].parent) = Line(l, l.folders[j].parent)
      BY <1>8, <3>1
    <3> QED BY <1>4, <3>1, <3>2 DEF RefersTo
  <2>2. ASSUME NEW q \in Queries(m) PROVE RefersTo(m, m.queries[q].folder, m.queries[q].host)
    <3>1. /\ m.queries[q] = l.queries[q] /\ l.queries[q].folder \notin Subtree(l, i)
          /\ RefersTo(l, l.queries[q].folder, l.queries[q].host)
      BY <1>4 DEF Accepted
    <3> QED BY <1>4, <3>1 DEF RefersTo
  <2> QED BY <2>1, <2>2 DEF Accepted
<1>10. FoldersKeepOrder(l, m)
  <2> SUFFICES ASSUME NEW j \in Folders(m), j \in Folders(l) => FolderInOrder(l, j) PROVE FolderInOrder(m, j)
    BY DEF FoldersKeepOrder
  <2>1. FolderInOrder(l, j) /\ m.folders[j] = l.folders[j] /\ Line(m, j) = Line(l, j)
    BY <1>4, <1>8
  <2>2. ~FolderNameTaken(m, l.folders[j], {j})
    BY <1>4, <2>1 DEF FolderInOrder, FolderNameTaken
  <2> QED BY <2>1, <2>2 DEF FolderInOrder, Depth
<1>11. QueriesKeepOrder(l, m)
  BY <1>4 DEF QueriesKeepOrder, QueryInOrder, QueryNameTaken
<1>12. Follows(l, m)
  BY <1>9, <1>10, <1>11 DEF Follows
<1> QED BY <1>12 DEF m, F, G
-----------------------------------------------------------------------------
(* The loader accepts the library, the file and what is written to it.       *)
SoundInv ==
  /\ LibraryInv
  /\ Accepted(library)
  /\ onDisk # Unreadable => Accepted(onDisk)
  /\ change # NoWrite => Follows(library, change.next)

LEMMA RefreshedIsAccepted == ASSUME SoundInv PROVE Refreshed \in Items /\ Accepted(Refreshed)
<1>1. /\ Refreshed \in Items
      /\ Refreshed = library \/ (onDisk # Unreadable /\ SameItems(Refreshed, onDisk))
  BY RefreshedFacts DEF SoundInv
<1>2. CASE Refreshed = library
  BY <1>1, <1>2 DEF SoundInv
<1>3. CASE onDisk # Unreadable /\ SameItems(Refreshed, onDisk)
  BY <1>1, <1>3, AcceptedSame DEF SoundInv, SameItems
<1> QED BY <1>1, <1>2, <1>3

LEMMA CreateFolderFollows ==
  ASSUME SoundInv, NEW by, NEW f \in Folder, CreateFolder(by, f)
  PROVE  \E next \in Items : Follows(Refreshed, next) /\ Commits(by, next)
<1> DEFINE l == Refreshed
<1>1. l \in Items /\ Accepted(l)
  BY RefreshedIsAccepted
<1>2. PICK c \in FolderIds \ Folders(l) :
        /\ RefersTo(l, f.parent, f.host) /\ Depth(l, f.parent) + 1 <= MaxDepth
        /\ ~FolderNameTaken(l, f, {}) /\ Commits(by, [l EXCEPT !.folders[c] = f])
  BY DEF CreateFolder
<1> HIDE DEF l
<1>4. Rooted(l)
  BY <1>1, AcceptedIsTree
<1>5. \A j : c \notin Line(l, j)
  BY <1>2, <1>4, LineIsClosed
<1>6. FolderFits(l, f.parent, c) /\ SubtreeFits(l, f.parent, c) /\ ~FolderNameTaken(l, f, {c})
  BY <1>2, <1>5 DEF FolderFits, SubtreeFits, Subtree, FolderNameTaken
<1>7. Follows(l, [l EXCEPT !.folders[c] = f])
  BY <1>1, <1>2, <1>5, <1>6, FolderFollows
<1>8. [l EXCEPT !.folders[c] = f] \in Items
  BY <1>1, FolderReplaced
<1> QED BY <1>2, <1>7, <1>8 DEF l

LEMMA UpdateFolderFollows ==
  ASSUME SoundInv, NEW by, NEW c \in FolderIds, NEW name \in LibraryNames, NEW parent \in FolderIds \cup {Top},
         UpdateFolder(by, c, name, parent)
  PROVE  \E next \in Items : Follows(Refreshed, next) /\ Commits(by, next)
<1> DEFINE l == Refreshed
           g == l.folders[c]
           f == [g EXCEPT !.name = name, !.parent = parent]
<1>1. l \in Items /\ Accepted(l) /\ c \in Folders(l)
  BY RefreshedIsAccepted DEF UpdateFolder
<1>2. /\ parent # g.parent =>
            RefersTo(l, parent, f.host) /\ parent \notin Subtree(l, c) /\ SubtreeFits(l, parent, c)
      /\ ~FolderNameTaken(l, f, {c}) /\ Commits(by, [l EXCEPT !.folders[c] = f])
  BY DEF UpdateFolder
<1>3. f \in Folder /\ f.host = g.host /\ f.parent = parent
  <2>1. g \in Folder
    BY <1>1 DEF Folders, Items
  <2> QED BY <2>1 DEF Folder
<1> HIDE DEF f, l
<1>4. Tree(l) /\ Rooted(l) /\ RefersTo(l, g.parent, g.host) /\ c \notin Line(l, g.parent)
  BY <1>1, AcceptedIsTree DEF Accepted
<1>5. RefersTo(l, parent, f.host)
  BY <1>2, <1>3, <1>4
<1>6. c \notin Line(l, parent)
  <2>1. CASE parent = g.parent
    BY <1>4, <2>1
  <2>2. CASE parent = Top
    BY <2>2, TopHasNone
  <2>3. CASE parent # g.parent /\ parent # Top
    BY <1>2, <1>5, <2>3 DEF RefersTo, Subtree
  <2> QED BY <2>1, <2>2, <2>3
<1>7. ASSUME SubtreeFits(l, parent, c) PROVE FolderFits(l, parent, c)
  <2>1. c \in Subtree(l, c)
    BY <1>1, <1>4, LineIsClosed DEF Subtree
  <2>2. Depth(l, parent) + Depth(l, c) - Depth(l, c) + 1 <= MaxDepth
    BY <1>7, <2>1 DEF SubtreeFits
  <2>3. Depth(l, c) \in Nat /\ Depth(l, parent) \in Nat /\ MaxDepth \in Nat
    BY <1>4, DepthIsNat, LibraryAssumption
  <2> QED BY <2>2, <2>3 DEF FolderFits
<1>8. parent = g.parent \/ (FolderFits(l, parent, c) /\ SubtreeFits(l, parent, c))
  BY <1>2, <1>7
<1>9. Follows(l, [l EXCEPT !.folders[c] = f])
  BY <1>1, <1>2, <1>3, <1>5, <1>6, <1>8, FolderFollows
<1>10. [l EXCEPT !.folders[c] = f] \in Items
  BY <1>1, <1>3, FolderReplaced
<1> QED BY <1>2, <1>9, <1>10 DEF l

LEMMA DeleteFolderFollows ==
  ASSUME SoundInv, NEW by, NEW i, NEW recursive, DeleteFolder(by, i, recursive)
  PROVE  \E next \in Items : Follows(Refreshed, next) /\ Commits(by, next)
<1> DEFINE l == Refreshed
           F == Subtree(l, i)
           Q == {q \in Queries(l) : l.queries[q].folder \in Subtree(l, i)}
           m == [l EXCEPT !.folders = [j \in FolderIds |-> IF j \in F THEN NoItem ELSE @[j]],
                          !.queries = [q \in QueryIds |-> IF q \in Q THEN NoItem ELSE @[q]]]
<1>1. l \in Items /\ Accepted(l) /\ i \in Folders(l) /\ Commits(by, m)
  BY RefreshedIsAccepted DEF DeleteFolder
<1>2. Follows(l, m)
  BY <1>1, DeletionFollows
<1> HIDE DEF F, Q, l
<1>3. m \in Items
  BY <1>1, ItemsRemoved, Zenon
<1> HIDE DEF m
<1> QED BY <1>1, <1>2, <1>3 DEF l

LEMMA QueryChangeFollows ==
  ASSUME SoundInv, NEW by,
         \/ \E q \in Query : CreateQuery(by, q)
         \/ \E i \in QueryIds, name \in LibraryNames, folder \in FolderIds \cup {Top} : UpdateQuery(by, i, name, folder)
         \/ \E i \in QueryIds : DeleteQuery(by, i)
  PROVE  \E next \in Items : Follows(Refreshed, next) /\ Commits(by, next)
<1> DEFINE l == Refreshed
<1>1. l \in Items /\ Accepted(l)
  BY RefreshedIsAccepted
<1>2. CASE \E q \in Query : CreateQuery(by, q)
  <2>1. PICK q \in Query, c \in QueryIds : /\ RefersTo(l, q.folder, q.host) /\ ~QueryNameTaken(l, q, {})
                                           /\ Commits(by, [l EXCEPT !.queries[c] = q])
    BY <1>2 DEF CreateQuery
  <2> HIDE DEF l
  <2>3. ~QueryNameTaken(l, q, {c})
    BY <2>1 DEF QueryNameTaken
  <2>4. Follows(l, [l EXCEPT !.queries[c] = q]) /\ [l EXCEPT !.queries[c] = q] \in Items
    BY <1>1, <2>1, <2>3, QueryFollows, QueryReplaced
  <2> QED BY <2>1, <2>4 DEF l
<1>3. CASE \E i \in QueryIds, name \in LibraryNames, folder \in FolderIds \cup {Top} : UpdateQuery(by, i, name, folder)
  <2>1. PICK i \in QueryIds, name \in LibraryNames, folder \in FolderIds \cup {Top} : UpdateQuery(by, i, name, folder)
    BY <1>3
  <2> DEFINE q == [l.queries[i] EXCEPT !.name = name, !.folder = folder]
  <2>2. /\ i \in Queries(l) /\ RefersTo(l, folder, q.host) /\ ~QueryNameTaken(l, q, {i})
        /\ Commits(by, [l EXCEPT !.queries[i] = q])
    BY <2>1 DEF UpdateQuery
  <2>3. q \in Query /\ q.folder = folder
    <3>1. l.queries[i] \in Query
      BY <1>1, <2>2 DEF Queries, Items
    <3> QED BY <3>1 DEF Query
  <2> HIDE DEF q, l
  <2>4. Follows(l, [l EXCEPT !.queries[i] = q]) /\ [l EXCEPT !.queries[i] = q] \in Items
    BY <1>1, <2>2, <2>3, QueryFollows, QueryReplaced
  <2> QED BY <2>2, <2>4 DEF l
<1>4. CASE \E i \in QueryIds : DeleteQuery(by, i)
  <2>1. PICK i \in QueryIds : Commits(by, [l EXCEPT !.queries[i] = NoItem])
    BY <1>4 DEF DeleteQuery
  <2> HIDE DEF l
  <2>2. Follows(l, [l EXCEPT !.queries[i] = NoItem]) /\ [l EXCEPT !.queries[i] = NoItem] \in Items
    BY <1>1, <2>1, NoQueryFollows, QueryReplaced
  <2> QED BY <2>1, <2>2 DEF l
<1> QED BY <1>2, <1>3, <1>4

LEMMA ChangesFollow ==
  ASSUME SoundInv, NEW by \in {Tab, Others}, Changes(by)
  PROVE  \E next \in Items : Follows(Refreshed, next) /\ Commits(by, next)
<1>1. CASE \E f \in Folder : CreateFolder(by, f)
  BY <1>1, CreateFolderFollows
<1>2. CASE \E i \in FolderIds, name \in LibraryNames, parent \in FolderIds \cup {Top} : UpdateFolder(by, i, name, parent)
  BY <1>2, UpdateFolderFollows
<1>3. CASE \E i \in FolderIds, recursive \in BOOLEAN : DeleteFolder(by, i, recursive)
  BY <1>3, DeleteFolderFollows
<1> QED BY <1>1, <1>2, <1>3, QueryChangeFollows DEF Changes
-----------------------------------------------------------------------------
LEMMA SoundInvStarts == LibraryInit => SoundInv
BY LibraryInvStarts DEF LibraryInit, SoundInv

LEMMA SoundInvSteps ==
  ASSUME SoundInv, [LibraryNext]_libraryVars
  PROVE  SoundInv'
<1>0. LibraryInv /\ LibraryInv' /\ (change = NoWrite \/ (change \in Writes /\ Follows(library, change.next)))
  BY LibrarySteps DEF SoundInv, LibraryInv, LibraryShape
<1>r. Accepted(Refreshed)
  BY RefreshedIsAccepted
<1>1. CASE Reads \/ TabLoads
  BY <1>0, <1>1, <1>r DEF Reads, TabLoads, Refreshes, Unlocked, SoundInv
<1>2. CASE \E by \in {Tab, Others} : Changes(by)
  <2>1. PICK by \in {Tab, Others} : Changes(by)
    BY <1>2
  <2>2. PICK next \in Items : Follows(Refreshed, next) /\ Commits(by, next)
    BY <2>1, ChangesFollow
  <2> DEFINE w == [next EXCEPT !.revision = Refreshed.revision + 1]
  <2>3. SameItems(next, w)
    BY DEF Items, SameItems
  <2>4. change' = [step |-> "writes", by |-> by, next |-> w] /\ Refreshes
    BY <2>2 DEF Commits
  <2> HIDE DEF w
  <2>5. Follows(Refreshed, w)
    BY <2>2, <2>3, FollowsSame
  <2> QED BY <1>0, <1>r, <2>4, <2>5 DEF Refreshes, SoundInv
<1>3. CASE Renames
  <2>1. change \in Writes /\ Follows(library, change.next)
    BY <1>0, <1>3, NoWriteIsNone DEF Renames
  <2>2. change'.next = change.next /\ onDisk' = change.next /\ library' = library
    BY <1>3, <2>1 DEF Renames, Writes
  <2> QED BY <1>0, <2>1, <2>2 DEF SoundInv, Follows
<1>4. CASE RenameFails
  BY <1>0, <1>4 DEF RenameFails, SoundInv
<1>5. CASE Publishes
  <2>1. Accepted(change.next)
    BY <1>0, <1>5, NoWriteIsNone DEF Publishes, Follows
  <2> QED BY <1>0, <1>5, <2>1 DEF Publishes, SoundInv
<1>6. CASE Edits
  <2>1. onDisk' # Unreadable => Accepted(onDisk')
    BY <1>6, EmptyIsAccepted DEF Edits
  <2> QED BY <1>0, <1>6, <2>1 DEF Edits, SoundInv
<1>7. CASE Restarts
  BY <1>0, <1>7, EmptyIsAccepted DEF Restarts, SoundInv
<1>8. CASE UNCHANGED libraryVars
  BY <1>0, <1>8 DEF libraryVars, SoundInv
<1> QED BY <1>1, <1>2, <1>3, <1>4, <1>5, <1>6, <1>7, <1>8 DEF LibraryNext, Changes

(* TreeIsSound: from any file that the loader accepts, and through any       *)
(* changes, edits and restarts, the library stays one that the loader        *)
(* accepts, without a loop of folders or an item in a folder that is gone or *)
(* of another host, and no change puts an item below the depth limit or next *)
(* to one of its name, for any number of folders and any limit (ensure_depth,*)
(* update_folder, delete_folder).                                            *)
THEOREM TreeIsAlwaysSound == LibrarySpec => []TreeIsSound
<1>1. SoundInv /\ [LibraryNext]_libraryVars => SoundInv'
  BY SoundInvSteps
<1>2. SoundInv => TreeIsSound
  BY DEF SoundInv, Follows, FoldersKeepOrder, QueriesKeepOrder, TreeIsSound
<1> QED BY SoundInvStarts, <1>1, <1>2, PTL DEF LibrarySpec
-----------------------------------------------------------------------------
(* The tab has a revision of the library; the bounds of the model bound both. *)
Bounded == tab.revision <= MaxRevision /\ events \in 0..MaxEvents

LEMMA TabFields ==
  ASSUME LibraryShape
  PROVE  /\ \A l : TabSees(l).revision = tab.revision
         /\ \A b : [tab EXCEPT !.fresh = b].revision = tab.revision
         /\ \A b, c : [tab EXCEPT !.sameLife = b, !.fresh = c].revision = tab.revision
         /\ \A r : TabAt(r).revision = r
<1>1. tab \in [revision : Nat, fresh : BOOLEAN, sameLife : BOOLEAN]
  BY DEF LibraryShape
<1>2. \A b : [tab EXCEPT !.fresh = b].revision = tab.revision
  BY <1>1
<1>3. \A b, c : [tab EXCEPT !.sameLife = b, !.fresh = c].revision = tab.revision
  BY <1>1
<1>4. \A l : TabSees(l).revision = tab.revision
  BY <1>2 DEF TabSees
<1> QED BY <1>2, <1>3, <1>4 DEF TabAt

LEMMA BoundedSteps == LibraryInv /\ Bounded /\ [LibraryNext]_libraryVars => Bounded'
<1> SUFFICES ASSUME LibraryInv, Bounded, [LibraryNext]_libraryVars
             PROVE  Bounded'
  OBVIOUS
<1>0. LibraryShape /\ LibraryShape'
  BY LibrarySteps DEF LibraryInv
<1>1. library'.revision <= MaxRevision /\ library'.revision \in Nat /\ tab.revision \in Nat /\ MaxRevision \in Nat /\ MaxEvents \in Nat
  BY <1>0, LibraryAssumption DEF LibraryShape, Libraries
<1>2. /\ \A l : TabSees(l).revision = tab.revision
      /\ \A b : [tab EXCEPT !.fresh = b].revision = tab.revision
      /\ \A b, c : [tab EXCEPT !.sameLife = b, !.fresh = c].revision = tab.revision
      /\ \A r : TabAt(r).revision = r
  BY <1>0, TabFields
<1>3. ASSUME NEW by, NEW next, Commits(by, next) PROVE tab'.revision = tab.revision /\ UNCHANGED events
  BY <1>2, <1>3 DEF Commits, Refreshes
<1>4. ASSUME NEW by \in {Tab, Others},
             \/ \E f \in Folder : CreateFolder(by, f)
             \/ \E i \in FolderIds, name \in LibraryNames, parent \in FolderIds \cup {Top} : UpdateFolder(by, i, name, parent)
             \/ \E i \in FolderIds, recursive \in BOOLEAN : DeleteFolder(by, i, recursive)
             \/ \E q \in Query : CreateQuery(by, q)
             \/ \E i \in QueryIds, name \in LibraryNames, folder \in FolderIds \cup {Top} : UpdateQuery(by, i, name, folder)
             \/ \E i \in QueryIds : DeleteQuery(by, i)
      PROVE  Bounded'
  <2>1. \E next : Commits(by, next)
    BY <1>4, Zenon DEF CreateFolder, UpdateFolder, DeleteFolder, CreateQuery, UpdateQuery, DeleteQuery
  <2> QED BY <1>3, <2>1 DEF Bounded
<1>5. CASE Reads
  BY <1>2, <1>5 DEF Reads, Refreshes, Bounded
<1>6. CASE TabLoads
  BY <1>1, <1>2, <1>6 DEF TabLoads, Refreshes, Bounded
<1>7. CASE Renames \/ RenameFails
  BY <1>7 DEF Renames, RenameFails, Bounded
<1>8. CASE Publishes
  BY <1>1, <1>2, <1>8 DEF Publishes, Bounded
<1>9. CASE Edits
  BY <1>1, <1>9 DEF Edits, Bounded
<1>10. CASE Restarts
  <2>1. tab'.revision = tab.revision
    BY <1>0, <1>10 DEF Restarts, LibraryShape
  <2> QED BY <1>1, <1>10, <2>1 DEF Restarts, Bounded
<1>11. CASE UNCHANGED libraryVars
  BY <1>11 DEF libraryVars, Bounded
<1> QED BY <1>4, <1>5, <1>6, <1>7, <1>8, <1>9, <1>10, <1>11 DEF LibraryNext

(* The type invariant of the library: what is in memory, in the file and on  *)
(* its way there are trees of the items that there can be (query_library.cpp). *)
THEOREM LibraryTypeCorrect == LibrarySpec => []LibraryTypeOK
<1> DEFINE Typed == LibraryInv /\ Bounded
<1>1. LibraryInit => Typed
  BY LibraryInvStarts, LibraryAssumption DEF LibraryInit, Bounded
<1>2. Typed /\ [LibraryNext]_libraryVars => Typed'
  BY LibrarySteps, BoundedSteps
<1>3. ASSUME Typed PROVE LibraryTypeOK
  <2>1. tab \in [revision : 0..MaxRevision, fresh : BOOLEAN, sameLife : BOOLEAN]
    BY <1>3, LibraryAssumption DEF LibraryInv, LibraryShape, Bounded
  <2> QED BY <1>3, <2>1 DEF LibraryTypeOK, LibraryInv, LibraryShape, Bounded, Writes
<1> QED BY <1>1, <1>2, <1>3, PTL DEF LibrarySpec
=============================================================================
