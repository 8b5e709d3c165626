-------------------------- MODULE DashboardProofs --------------------------
(***************************************************************************)
(* Theorems about Dashboard for any instances of its pages: the file        *)
(* browser, the live log, and the types of all pages.                       *)
(***************************************************************************)
EXTENDS PagesProofs

-----------------------------------------------------------------------------
(* The file browser.  Unless the checkout changed by a commit of which this   *)
(* browser does not learn, a pushed commit is about to make it list again, or *)
(* the listing under way and the entries are of the checkout as it is.        *)

EntryTypes == [name : STRING, dir : BOOLEAN]
Texts(k) == [of : Checkouts[k].Paths, typed : BOOLEAN]
ListingCalls == [path : Seq(STRING), live : {TRUE}, reply : {Unserved, Failed} \cup SUBSET EntryTypes]
CommitCalls(k) ==
  [op : {"save", "create", "delete", "rename"}, path : Seq(STRING), to : Seq(STRING),
   text : {Nothing} \cup Texts(k), live : BOOLEAN, reply : {Unserved, "pushed", Failed}, closes : BOOLEAN]

\* A save that will put its file back into the editor.
SaveUnderWay == \E c \in commits : c.live /\ c.op = "save"

FileTypes(k) ==
  /\ mounted \in {"here", "away", "crashed"}
  /\ path \in Seq(STRING) /\ entries \subseteq EntryTypes
  /\ open \in {Nothing} \cup [path : Checkouts[k].Paths, text : Texts(k)]
  /\ (open # Nothing \/ SaveUnderWay) => draft \in Texts(k) /\ msg \in Checkouts[k].Paths
  /\ busy \in BOOLEAN /\ listed \in BOOLEAN /\ untold \in BOOLEAN
  /\ dialog \in {[kind |-> "none"], [kind |-> "newfile"]} \cup [kind : {"rename", "delete"}, name : STRING]
  /\ listings \subseteq ListingCalls /\ reads \subseteq Seq(STRING)
  /\ commits \subseteq CommitCalls(k)
  /\ \A c \in commits : c.op = "save" => c.path \in Checkouts[k].Paths /\ c.text \in Texts(k)
  /\ tree \subseteq Checkouts[k].Paths

\* The lock.
OneCommit ==
  /\ \A c, d \in commits : c.live /\ d.live => c = d
  /\ busy <=> \E c \in commits : c.live
  /\ busy => dialog = [kind |-> "none"]

\* A browser that is gone has nothing under way.
GoneIsIdle == mounted # "here" => path = <<>> /\ listings = {} /\ ~busy

ListsPath == \A l \in listings : l.path = path

NothingToTell == ~untold /\ \A c \in commits : c.live => c.reply # "pushed"

ListingCurrent(k) ==
  NothingToTell =>
    /\ \A l \in listings : l.reply \in {Unserved, Failed, Browser(k)!Names(path)}
    /\ listed => entries = Browser(k)!Names(path)

FilesInv(k) ==
  FileTypes(k) /\ OneCommit /\ GoneIsIdle /\ ListsPath /\ ListingCurrent(k)

\* What ListDir returns.
LEMMA NamesTyped ==
  ASSUME NEW k \in DOMAIN Checkouts, NEW d \in Seq(STRING), tree \subseteq Checkouts[k].Paths
  PROVE  Browser(k)!Names(d) \subseteq EntryTypes
<1> SUFFICES ASSUME NEW e \in Browser(k)!Names(d) PROVE e \in EntryTypes
  OBVIOUS
<1>0. PICK p \in Browser(k)!Under(d) :
        e = [name |-> p[Len(d) + 1], dir |-> SubSeq(p, 1, Len(d) + 1) \notin tree]
  BY DEF Browser!Names
<1>1. p \in Seq(STRING)
  BY CheckoutsAssumption DEF Browser!Under
<1>2. Len(d) <= Len(p) /\ SubSeq(p, 1, Len(d)) = d /\ d # p
  BY DEF Browser!Under, Browser!IsStrictPrefix, Browser!IsPrefix
<1>3. SubSeq(p, 1, Len(p)) = p
  BY <1>1
<1>4. Len(d) # Len(p)
  BY <1>2, <1>3
<1>5. Len(d) + 1 \in 1 .. Len(p)
  BY <1>1, <1>2, <1>4
<1>6. p[Len(d) + 1] \in STRING
  BY <1>1, <1>5
<1> QED BY <1>0, <1>6 DEF EntryTypes

LEMMA InitFiles ==
  ASSUME NEW k \in DOMAIN Checkouts, Browser(k)!Init
  PROVE  FilesInv(k)
<1> USE DEF Browser!Init, Browser!Ask, Browser!NoDialog
<1>1. [path |-> <<>>, live |-> TRUE, reply |-> Unserved] \in ListingCalls
  BY DEF ListingCalls
<1>2. FileTypes(k)
  <2>1. path \in Seq(STRING) /\ entries \subseteq EntryTypes /\ listings \subseteq ListingCalls
    BY <1>1
  <2>2. open = Nothing /\ ~SaveUnderWay /\ tree \subseteq Checkouts[k].Paths
    BY CheckoutsAssumption DEF SaveUnderWay
  <2>3. dialog \in {[kind |-> "none"]} /\ reads = {} /\ commits = {}
    OBVIOUS
  <2>4. mounted = "here" /\ busy = FALSE /\ listed = FALSE /\ untold = FALSE
    OBVIOUS
  <2> QED BY ONLY <2>1, <2>2, <2>3, <2>4 DEF FileTypes
<1>3. OneCommit /\ GoneIsIdle /\ ListsPath /\ ListingCurrent(k)
  BY DEF OneCommit, GoneIsIdle, ListsPath, ListingCurrent
<1> QED BY <1>2, <1>3 DEF FilesInv

\* The effect runs: what is listed is the path, and to come.
LEMMA ListStep ==
  ASSUME NEW k, path' \in Seq(STRING), Browser(k)!List(path')
  PROVE  /\ listings' \subseteq ListingCalls /\ listed' = FALSE /\ untold' = FALSE
         /\ ListsPath' /\ ListingCurrent(k)'
<1>1. listings' = {[path |-> path', live |-> TRUE, reply |-> Unserved]} /\ listed' = FALSE /\ untold' = FALSE
  BY DEF Browser!List, Browser!Stopped, Browser!Ask
<1>2. [path |-> path', live |-> TRUE, reply |-> Unserved] \in ListingCalls
  BY DEF ListingCalls
<1>3. \A l \in listings' : l.path = path' /\ l.reply = Unserved
  BY <1>1
<1>4. ListsPath' /\ ListingCurrent(k)'
  BY <1>1, <1>3 DEF ListsPath, ListingCurrent
<1> QED BY <1>1, <1>2, <1>4

\* The component is gone.
LEMMA UnmountStep ==
  ASSUME NEW k \in DOMAIN Checkouts, FilesInv(k), Browser(k)!Unmount, mounted' \in {"away", "crashed"}
  PROVE  FilesInv(k)'
<1>1. /\ path' = <<>> /\ entries' = {} /\ open' = Nothing /\ busy' = FALSE /\ dialog' = [kind |-> "none"]
      /\ listings' = {} /\ reads' = {} /\ listed' = FALSE /\ untold' = FALSE /\ tree' = tree
  BY DEF Browser!Unmount, Browser!NoDialog
<1>2. \A v \in commits' :
        /\ v \in CommitCalls(k) /\ ~v.live
        /\ v.op = "save" => v.path \in Checkouts[k].Paths /\ v.text \in Texts(k)
  <2> SUFFICES ASSUME NEW v \in commits'
               PROVE  /\ v \in CommitCalls(k) /\ ~v.live
                      /\ v.op = "save" => v.path \in Checkouts[k].Paths /\ v.text \in Texts(k)
    OBVIOUS
  <2>1. PICK c \in commits : v = [c EXCEPT !.live = FALSE]
    BY DEF Browser!Unmount
  <2>2. c \in CommitCalls(k) /\ (c.op = "save" => c.path \in Checkouts[k].Paths /\ c.text \in Texts(k))
    BY DEF FilesInv, FileTypes
  <2> QED BY <2>1, <2>2 DEF CommitCalls
<1>3. ~SaveUnderWay'
  BY <1>2 DEF SaveUnderWay
<1>4. tree \subseteq Checkouts[k].Paths
  BY DEF FilesInv, FileTypes
<1>5. FileTypes(k)'
  <2>1. path' \in Seq(STRING) /\ open' \in {Nothing} /\ entries' \subseteq EntryTypes
        /\ listings' \subseteq ListingCalls /\ reads' \subseteq Seq(STRING)
    BY <1>1
  <2>2. dialog' \in {[kind |-> "none"]} /\ commits' \subseteq CommitCalls(k)
    BY <1>1, <1>2
  <2> QED BY <1>1, <1>2, <1>3, <1>4, <2>1, <2>2 DEF FileTypes
<1>6. OneCommit' /\ GoneIsIdle' /\ ListsPath' /\ ListingCurrent(k)'
  BY <1>1, <1>2 DEF OneCommit, GoneIsIdle, ListsPath, ListingCurrent
<1> QED BY <1>5, <1>6 DEF FilesInv

\* Nothing that the listing is about changes, but that a commit may end.
LEMMA ListingKept ==
  ASSUME NEW k, ListsPath, ListingCurrent(k),
         UNCHANGED <<path, entries, listings, listed, tree>>, NothingToTell' => NothingToTell
  PROVE  ListsPath' /\ ListingCurrent(k)'
<1>1. Browser(k)!Names(path)' = Browser(k)!Names(path)
  BY DEF Browser!Names, Browser!Under
<1> QED BY <1>1 DEF ListsPath, ListingCurrent

\* Coming, going and looking.
LEMMA LookStep ==
  ASSUME NEW k \in DOMAIN Checkouts, FilesInv(k),
         \/ Browser(k)!Leave \/ Browser(k)!Return \/ Browser(k)!Go \/ Browser(k)!OpenFile
         \/ Browser(k)!Type \/ Browser(k)!OpenDialog \/ Browser(k)!Cancel
  PROVE  FilesInv(k)'
<1>0. FileTypes(k) /\ OneCommit /\ GoneIsIdle /\ ListsPath /\ ListingCurrent(k)
  BY DEF FilesInv
<1>1. CASE Browser(k)!Leave
  BY <1>1, UnmountStep DEF Browser!Leave
<1>2. CASE Browser(k)!Return
  <2>1. mounted # "here" /\ mounted' = "here" /\ Browser(k)!List(<<>>)
        /\ UNCHANGED <<path, entries, open, draft, msg, busy, dialog, reads, commits, tree>>
    BY <1>2 DEF Browser!Return, Browser!editor
  <2>2. path' = <<>> /\ path' \in Seq(STRING)
    BY <1>0, <2>1 DEF GoneIsIdle
  <2>3. /\ listings' \subseteq ListingCalls /\ listed' = FALSE /\ untold' = FALSE
        /\ ListsPath' /\ ListingCurrent(k)'
    BY <2>1, <2>2, ListStep
  <2>4. FileTypes(k)'
    BY <1>0, <2>1, <2>3 DEF FileTypes, SaveUnderWay
  <2> QED BY <1>0, <2>1, <2>3, <2>4 DEF FilesInv, OneCommit, GoneIsIdle
<1>3. CASE Browser(k)!Go
  <2>1. mounted = "here" /\ open' = Nothing
        /\ UNCHANGED <<mounted, entries, draft, msg, busy, dialog, reads, commits, tree>>
    BY <1>3 DEF Browser!Go, Browser!AtPage
  <2>2. path' \in Seq(STRING)
    <3>1. CASE path' \in {SubSeq(path, 1, i) : i \in 0 .. Len(path)}
      <4>1. PICK i \in 0 .. Len(path) : path' = SubSeq(path, 1, i)
        BY <3>1
      <4>2. path \in Seq(STRING) /\ i \in Int /\ i <= Len(path)
        BY <1>0, <4>1 DEF FileTypes
      <4> QED BY <4>1, <4>2
    <3>2. CASE path' \in {Append(path, e.name) : e \in {e \in entries : e.dir}}
      <4>1. PICK e \in entries : path' = Append(path, e.name)
        BY <3>2
      <4>2. path \in Seq(STRING) /\ e.name \in STRING
        BY <1>0, <4>1 DEF FileTypes, EntryTypes
      <4> QED BY <4>1, <4>2
    <3> QED BY <1>3, <3>1, <3>2 DEF Browser!Go
  <2>3. CASE path' # path
    <3>1. Browser(k)!List(path')
      BY <1>3, <2>3 DEF Browser!Go
    <3>2. /\ listings' \subseteq ListingCalls /\ listed' = FALSE /\ untold' = FALSE
          /\ ListsPath' /\ ListingCurrent(k)'
      BY <2>2, <3>1, ListStep
    <3>3. FileTypes(k)'
      BY <1>0, <2>1, <2>2, <3>2 DEF FileTypes, SaveUnderWay
    <3> QED BY <1>0, <2>1, <3>2, <3>3 DEF FilesInv, OneCommit, GoneIsIdle
  <2>4. CASE path' = path
    <3>1. UNCHANGED <<listings, listed, untold>>
      BY <1>3, <2>4 DEF Browser!Go
    <3>2. FileTypes(k)'
      BY <1>0, <2>1, <2>2, <3>1 DEF FileTypes, SaveUnderWay
    <3>3. ListsPath' /\ ListingCurrent(k)'
      BY <1>0, <2>1, <2>4, <3>1, ListingKept DEF NothingToTell
    <3> QED BY <1>0, <2>1, <3>2, <3>3 DEF FilesInv, OneCommit, GoneIsIdle
  <2> QED BY <2>3, <2>4
<1>4. CASE Browser(k)!OpenFile
  <2>1. UNCHANGED <<mounted, path, entries, open, draft, msg, busy, dialog, listings, commits, listed, untold, tree>>
    BY <1>4 DEF Browser!OpenFile, Browser!editor
  <2>2. PICK e \in entries : reads' = reads \cup {Append(path, e.name)}
    BY <1>4 DEF Browser!OpenFile
  <2>3. path \in Seq(STRING) /\ e.name \in STRING
    BY <1>0 DEF FileTypes, EntryTypes
  <2>4. reads' \subseteq Seq(STRING)
    BY <1>0, <2>2, <2>3 DEF FileTypes
  <2>5. FileTypes(k)'
    BY <1>0, <2>1, <2>4 DEF FileTypes, SaveUnderWay
  <2> QED BY <1>0, <2>1, <2>5, ListingKept DEF FilesInv, OneCommit, GoneIsIdle, NothingToTell
<1>5. CASE Browser(k)!Type
  <2>1. UNCHANGED <<mounted, path, entries, open, msg, busy, dialog, listings, reads, commits, listed, untold, tree>>
        /\ open # Nothing /\ draft' = [draft EXCEPT !.typed = ~@]
    BY <1>5 DEF Browser!Type, Browser!Editable, Browser!calls
  <2>2. draft' \in Texts(k)
    BY <1>0, <2>1 DEF FileTypes, Texts
  <2>3. FileTypes(k)'
    BY <1>0, <2>1, <2>2 DEF FileTypes, SaveUnderWay
  <2> QED BY <1>0, <2>1, <2>3, ListingKept DEF FilesInv, OneCommit, GoneIsIdle, NothingToTell
<1>6. CASE Browser(k)!OpenDialog
  <2>1. UNCHANGED <<mounted, path, entries, open, draft, msg, busy, listings, reads, commits, listed, untold, tree>>
        /\ ~busy
    BY <1>6 DEF Browser!OpenDialog, Browser!RowsEnabled, Browser!editor, Browser!calls
  <2>2. dialog' \in {[kind |-> "newfile"]} \cup [kind : {"rename", "delete"}, name : STRING]
    <3>1. \A e \in entries : e.name \in STRING
      BY <1>0 DEF FileTypes, EntryTypes
    <3> QED BY <1>6, <3>1 DEF Browser!OpenDialog
  <2>3. FileTypes(k)'
    BY <1>0, <2>1, <2>2 DEF FileTypes, SaveUnderWay
  <2> QED BY <1>0, <2>1, <2>3, ListingKept DEF FilesInv, OneCommit, GoneIsIdle, NothingToTell
<1>7. CASE Browser(k)!Cancel
  <2>1. UNCHANGED <<mounted, path, entries, open, draft, msg, busy, listings, reads, commits, listed, untold, tree>>
        /\ dialog' = [kind |-> "none"]
    BY <1>7 DEF Browser!Cancel, Browser!CloseDialog, Browser!NoDialog, Browser!editor
  <2>2. FileTypes(k)'
    BY <1>0, <2>1 DEF FileTypes, SaveUnderWay
  <2> QED BY <1>0, <2>1, <2>2, ListingKept DEF FilesInv, OneCommit, GoneIsIdle, NothingToTell
<1> QED BY <1>1, <1>2, <1>3, <1>4, <1>5, <1>6, <1>7

\* A commit starts: only from a browser that has none.
LEMMA CommitStarts ==
  ASSUME NEW k \in DOMAIN Checkouts, FilesInv(k), ~busy, mounted = "here",
         NEW op \in {"save", "create", "delete", "rename"}, NEW p \in Seq(STRING), NEW to \in Seq(STRING),
         NEW text \in {Nothing} \cup Texts(k),
         op = "save" => /\ p \in Checkouts[k].Paths /\ text \in Texts(k)
                        /\ draft \in Texts(k) /\ msg \in Checkouts[k].Paths,
         Browser(k)!Commit(op, p, to, text), dialog' = [kind |-> "none"],
         UNCHANGED <<mounted, path, entries, open, draft, msg, listings, reads, listed, untold, tree>>
  PROVE  FilesInv(k)'
<1>0. FileTypes(k) /\ OneCommit /\ GoneIsIdle /\ ListsPath /\ ListingCurrent(k)
  BY DEF FilesInv
<1> DEFINE c == [op |-> op, path |-> p, to |-> to, text |-> text, live |-> TRUE, reply |-> Unserved,
                 closes |-> open # Nothing /\ open.path = p]
<1>1. busy' = TRUE /\ commits' = commits \cup {c}
  BY DEF Browser!Commit
<1>2. c \in CommitCalls(k) /\ c.live = TRUE /\ c.op = op /\ c.path = p /\ c.text = text
  <2>1. (open # Nothing /\ open.path = p) \in BOOLEAN
    OBVIOUS
  <2> QED BY <2>1 DEF CommitCalls
<1> HIDE DEF c
<1>3. \A d \in commits : ~d.live
  BY <1>0 DEF OneCommit
<1>4. SaveUnderWay' => op = "save"
  BY <1>1, <1>2, <1>3 DEF SaveUnderWay
<1>5. FileTypes(k)'
  <2>1. (open' # Nothing \/ SaveUnderWay') => draft' \in Texts(k) /\ msg' \in Checkouts[k].Paths
    BY <1>0, <1>4 DEF FileTypes
  <2>2. commits' \subseteq CommitCalls(k)
    BY <1>0, <1>1, <1>2 DEF FileTypes
  <2>3. \A d \in commits' : d.op = "save" => d.path \in Checkouts[k].Paths /\ d.text \in Texts(k)
    BY <1>0, <1>1, <1>2 DEF FileTypes
  <2> QED BY <1>0, <1>1, <2>1, <2>2, <2>3 DEF FileTypes
<1>6. OneCommit' /\ GoneIsIdle'
  BY <1>0, <1>1, <1>2, <1>3 DEF OneCommit, GoneIsIdle
<1>7. NothingToTell' => NothingToTell
  BY <1>1 DEF NothingToTell
<1> QED BY <1>0, <1>5, <1>6, <1>7, ListingKept DEF FilesInv

LEMMA CommitStep ==
  ASSUME NEW k \in DOMAIN Checkouts, FilesInv(k), Browser(k)!Save \/ Browser(k)!Confirm
  PROVE  FilesInv(k)'
<1>0. FileTypes(k) /\ OneCommit /\ GoneIsIdle /\ ListsPath /\ ListingCurrent(k)
  BY DEF FilesInv
<1>1. CASE Browser(k)!Save
  <2>1. /\ open # Nothing /\ ~busy /\ mounted = "here" /\ dialog' = [kind |-> "none"]
        /\ Browser(k)!Commit("save", open.path, open.path, draft)
        /\ UNCHANGED <<mounted, path, entries, open, draft, msg, listings, reads, listed, untold, tree>>
    BY <1>1 DEF Browser!Save, Browser!AtPage, Browser!Editable, Browser!NoDialog, Browser!editor
  <2>2. open.path \in Checkouts[k].Paths /\ draft \in Texts(k) /\ msg \in Checkouts[k].Paths
    BY <1>0, <2>1 DEF FileTypes
  <2>3. open.path \in Seq(STRING)
    BY <2>2, CheckoutsAssumption
  <2> QED BY <2>1, <2>2, <2>3, CommitStarts
<1>2. CASE Browser(k)!Confirm
  <2>1. /\ mounted = "here" /\ dialog # [kind |-> "none"] /\ dialog' = [kind |-> "none"]
        /\ UNCHANGED <<mounted, path, entries, open, draft, msg, listings, reads, listed, untold, tree>>
    BY <1>2 DEF Browser!Confirm, Browser!CloseDialog, Browser!NoDialog, Browser!editor
  <2>2. ~busy /\ path \in Seq(STRING)
    BY <1>0, <2>1 DEF OneCommit, FileTypes
  <2>3. dialog.kind \in {"delete", "rename"} => dialog.name \in STRING
    BY <1>0 DEF FileTypes
  <2>4. CASE dialog.kind = "delete"
             /\ Browser(k)!Commit("delete", Append(path, dialog.name), Append(path, dialog.name), Nothing)
    <3>1. Append(path, dialog.name) \in Seq(STRING)
      BY <2>2, <2>3, <2>4
    <3> QED BY <2>1, <2>2, <2>4, <3>1, CommitStarts
  <2>5. ASSUME NEW n \in Checkouts[k].Prompted,
               Browser(k)!Commit("create", Append(path, n), Append(path, n), Nothing)
        PROVE  FilesInv(k)'
    <3>1. Append(path, n) \in Seq(STRING)
      BY <2>2, CheckoutsAssumption
    <3> QED BY <2>1, <2>2, <2>5, <3>1, CommitStarts
  <2>6. ASSUME NEW n \in Checkouts[k].Prompted, dialog.kind = "rename",
               Browser(k)!Commit("rename", Append(path, dialog.name), Append(path, n), Nothing)
        PROVE  FilesInv(k)'
    <3>1. Append(path, n) \in Seq(STRING) /\ Append(path, dialog.name) \in Seq(STRING)
      BY <2>2, <2>3, <2>6, CheckoutsAssumption
    <3> QED BY <2>1, <2>2, <2>6, <3>1, CommitStarts
  <2>7. CASE UNCHANGED <<busy, commits>>
    <3>1. FileTypes(k)'
      BY <1>0, <2>1, <2>7 DEF FileTypes, SaveUnderWay
    <3> QED BY <1>0, <2>1, <2>7, <3>1, ListingKept DEF FilesInv, OneCommit, GoneIsIdle, NothingToTell
  <2> QED BY <1>2, <2>4, <2>5, <2>6, <2>7 DEF Browser!Confirm
<1> QED BY <1>1, <1>2

\* Listings: an answer is of the path, and an empty one unmounts.
LEMMA ListingStep ==
  ASSUME NEW k \in DOMAIN Checkouts, FilesInv(k), NEW l \in listings,
         Browser(k)!ServeListing(l) \/ Browser(k)!ShowListing(l)
  PROVE  FilesInv(k)'
<1>0. FileTypes(k) /\ OneCommit /\ GoneIsIdle /\ ListsPath /\ ListingCurrent(k)
  BY DEF FilesInv
<1>1. l \in ListingCalls /\ l.path = path /\ path \in Seq(STRING) /\ tree \subseteq Checkouts[k].Paths
  BY <1>0 DEF FileTypes, ListsPath
<1>2. CASE Browser(k)!ServeListing(l)
  <2>1. UNCHANGED <<mounted, path, entries, open, draft, msg, busy, dialog, reads, commits, listed, untold, tree>>
    BY <1>2 DEF Browser!ServeListing, Browser!editor
  <2>2. PICK reply \in {Failed, Browser(k)!Names(path)} :
          listings' = (listings \ {l}) \cup {[l EXCEPT !.reply = reply]}
    BY <1>1, <1>2 DEF Browser!ServeListing
  <2> DEFINE m == [l EXCEPT !.reply = reply]
  <2>3. m \in ListingCalls /\ m.path = path /\ m.reply = reply
    <3>1. reply \in {Failed} \cup SUBSET EntryTypes
      BY <1>1, NamesTyped
    <3> QED BY <1>1, <3>1 DEF ListingCalls
  <2> HIDE DEF m
  <2>4. listings' \subseteq listings \cup {m}
    BY <2>2 DEF m
  <2>5. FileTypes(k)'
    <3>1. listings' \subseteq ListingCalls
      BY <1>0, <2>3, <2>4 DEF FileTypes
    <3> QED BY <1>0, <2>1, <3>1 DEF FileTypes, SaveUnderWay
  <2>6. Browser(k)!Names(path)' = Browser(k)!Names(path)
    BY <2>1 DEF Browser!Names, Browser!Under
  <2>7. mounted = "here"
    BY <1>0 DEF GoneIsIdle
  <2>8. ListsPath' /\ OneCommit' /\ GoneIsIdle'
    BY <1>0, <2>1, <2>3, <2>4, <2>7 DEF ListsPath, OneCommit, GoneIsIdle
  <2>9. ListingCurrent(k)'
    BY <1>0, <2>1, <2>3, <2>4, <2>6 DEF ListingCurrent, NothingToTell
  <2> QED BY <2>5, <2>8, <2>9 DEF FilesInv
<1>3. CASE Browser(k)!ShowListing(l)
  <2>1. CASE l.reply = {}
    <3>1. mounted' = "crashed" /\ Browser(k)!Unmount
      BY <1>3, <2>1 DEF Browser!ShowListing
    <3> QED BY <3>1, UnmountStep
  <2>2. CASE l.reply # {}
    <3>1. /\ UNCHANGED <<mounted, path, open, draft, msg, busy, dialog, reads, commits, untold, tree>>
          /\ l.reply # Unserved /\ listings' = listings \ {l}
          /\ entries' = IF l.reply = Failed THEN entries ELSE l.reply
          /\ listed' = (l.reply # Failed)
      BY <1>3, <2>2 DEF Browser!ShowListing, Browser!editor
    <3>2. entries' \subseteq EntryTypes
      BY <1>0, <1>1, <3>1 DEF FileTypes, ListingCalls
    <3>3. FileTypes(k)'
      BY <1>0, <3>1, <3>2 DEF FileTypes, SaveUnderWay
    <3>4. Browser(k)!Names(path)' = Browser(k)!Names(path)
      BY <3>1 DEF Browser!Names, Browser!Under
    <3>5. ListsPath' /\ OneCommit' /\ GoneIsIdle'
      BY <1>0, <3>1 DEF ListsPath, OneCommit, GoneIsIdle
    <3>6. ListingCurrent(k)'
      BY <1>0, <3>1, <3>4 DEF ListingCurrent, NothingToTell
    <3> QED BY <3>3, <3>5, <3>6 DEF FilesInv
  <2> QED BY <2>1, <2>2
<1> QED BY <1>2, <1>3

LEMMA FileStep ==
  ASSUME NEW k \in DOMAIN Checkouts, FilesInv(k), NEW p \in reads, Browser(k)!ShowFile(p)
  PROVE  FilesInv(k)'
<1>0. FileTypes(k) /\ OneCommit /\ GoneIsIdle /\ ListsPath /\ ListingCurrent(k)
  BY DEF FilesInv
<1>1. UNCHANGED <<mounted, path, entries, busy, dialog, listings, commits, listed, untold, tree>>
      /\ reads' \subseteq reads
  BY DEF Browser!ShowFile
<1>2. FileTypes(k)'
  <2>1. CASE UNCHANGED <<open, draft, msg>>
    BY <1>0, <1>1, <2>1 DEF FileTypes, SaveUnderWay
  <2>2. CASE /\ p \in tree /\ open' = [path |-> p, text |-> [of |-> p, typed |-> FALSE]]
             /\ draft' = [of |-> p, typed |-> FALSE] /\ msg' = p
    <3>1. p \in Checkouts[k].Paths
      BY <1>0, <2>2 DEF FileTypes
    <3>2. [of |-> p, typed |-> FALSE] \in Texts(k)
      BY <3>1 DEF Texts
    <3>3. open' \in [path : Checkouts[k].Paths, text : Texts(k)] /\ draft' \in Texts(k)
          /\ msg' \in Checkouts[k].Paths
      BY <2>2, <3>1, <3>2
    <3> QED BY <1>0, <1>1, <3>3 DEF FileTypes
  <2> QED BY <2>1, <2>2 DEF Browser!ShowFile, Browser!editor, Browser!Text
<1> QED BY <1>0, <1>1, <1>2, ListingKept DEF FilesInv, OneCommit, GoneIsIdle, NothingToTell

\* The agent answers a commit.  A changed checkout is told of by the commit's
\* success, or never.
LEMMA ServeCommitStep ==
  ASSUME NEW k \in DOMAIN Checkouts, FilesInv(k), NEW c \in commits, Browser(k)!ServeCommit(c)
  PROVE  FilesInv(k)'
<1>0. FileTypes(k) /\ OneCommit /\ GoneIsIdle /\ ListsPath /\ ListingCurrent(k)
  BY DEF FilesInv
<1>1. UNCHANGED <<mounted, path, entries, open, draft, msg, busy, dialog, listings, reads, listed>>
      /\ c.reply = Unserved
  BY DEF Browser!ServeCommit, Browser!editor
<1>2. PICK reply \in {"pushed", Failed} :
        /\ tree' \subseteq Checkouts[k].Paths
        /\ reply # Failed => tree' \in Browser(k)!Committed(c)
        /\ untold' = (untold \/ (tree' # tree /\ (reply = Failed \/ ~c.live)))
        /\ commits' = (commits \ {c}) \cup IF c.live THEN {[c EXCEPT !.reply = reply]} ELSE {}
  BY DEF Browser!ServeCommit
<1>3. c \in CommitCalls(k) /\ (c.op = "save" => c.path \in Checkouts[k].Paths /\ c.text \in Texts(k))
  BY <1>0 DEF FileTypes
<1> DEFINE d == [c EXCEPT !.reply = reply]
<1>4. /\ d \in CommitCalls(k) /\ d.live = c.live /\ d.op = c.op /\ d.path = c.path /\ d.text = c.text
      /\ d.reply = reply
  BY <1>3 DEF CommitCalls
<1>5. commits' = (commits \ {c}) \cup IF c.live THEN {d} ELSE {}
  BY <1>2
<1> HIDE DEF d
<1>6. FileTypes(k)'
  <2>1. commits' \subseteq CommitCalls(k)
    BY <1>0, <1>4, <1>5 DEF FileTypes
  <2>2. \A e \in commits' : e.op = "save" => e.path \in Checkouts[k].Paths /\ e.text \in Texts(k)
    BY <1>0, <1>3, <1>4, <1>5 DEF FileTypes
  <2>3. SaveUnderWay' => SaveUnderWay
    BY <1>4, <1>5 DEF SaveUnderWay
  <2>4. untold' \in BOOLEAN
    BY <1>0, <1>2 DEF FileTypes
  <2> QED BY <1>0, <1>1, <1>2, <2>1, <2>2, <2>3, <2>4 DEF FileTypes
<1>7. OneCommit' /\ GoneIsIdle' /\ ListsPath'
  <2>1. (\E e \in commits' : e.live) <=> \E e \in commits : e.live
    BY <1>4, <1>5
  <2>2. \A e, f \in commits' : e.live /\ f.live => e = f
    BY <1>0, <1>4, <1>5 DEF OneCommit
  <2> QED BY <1>0, <1>1, <2>1, <2>2 DEF OneCommit, GoneIsIdle, ListsPath
<1>8. ListingCurrent(k)'
  <2>1. CASE tree' = tree
    <3>1. untold' = untold
      BY <1>0, <1>2, <2>1 DEF FileTypes
    <3>2. c.reply # "pushed"
      BY <1>1, MarkersAssumption
    <3>3. NothingToTell' => NothingToTell
      BY <1>5, <3>1, <3>2 DEF NothingToTell
    <3> QED BY <1>0, <1>1, <2>1, <3>3, ListingKept
  <2>2. CASE tree' # tree
    <3>1. reply = Failed \/ ~c.live => untold'
      BY <1>2, <2>2
    <3>2. c.live => d \in commits' /\ d.live
      BY <1>4, <1>5
    <3>3. ~NothingToTell'
      BY <1>2, <1>4, <3>1, <3>2 DEF NothingToTell
    <3> QED BY <3>3 DEF ListingCurrent
  <2> QED BY <2>1, <2>2
<1> QED BY <1>6, <1>7, <1>8 DEF FilesInv

\* The browser hears of its commit: a success makes it list again.
LEMMA CommitDoneStep ==
  ASSUME NEW k \in DOMAIN Checkouts, FilesInv(k), NEW c \in commits, Browser(k)!CommitDone(c)
  PROVE  FilesInv(k)'
<1>0. FileTypes(k) /\ OneCommit /\ GoneIsIdle /\ ListsPath /\ ListingCurrent(k)
  BY DEF FilesInv
<1>1. UNCHANGED <<mounted, path, entries, draft, msg, dialog, reads, tree>>
      /\ c.live /\ c.reply # Unserved /\ commits' = commits \ {c} /\ busy' = FALSE
  BY DEF Browser!CommitDone
<1>2. \A d \in commits' : ~d.live
  BY <1>0, <1>1 DEF OneCommit
<1>3. ~SaveUnderWay'
  BY <1>2 DEF SaveUnderWay
<1>4. /\ open' \in {Nothing} \cup [path : Checkouts[k].Paths, text : Texts(k)]
      /\ open' # Nothing => draft' \in Texts(k) /\ msg' \in Checkouts[k].Paths
  <2>1. c.op = "save" => /\ c.path \in Checkouts[k].Paths /\ c.text \in Texts(k)
                         /\ draft \in Texts(k) /\ msg \in Checkouts[k].Paths
    BY <1>0, <1>1 DEF FileTypes, SaveUnderWay
  <2>2. open' \in {open, Nothing} \/ (c.op = "save" /\ open' = [path |-> c.path, text |-> c.text])
    BY DEF Browser!CommitDone
  <2> QED BY <1>0, <1>1, <2>1, <2>2 DEF FileTypes
<1>5. OneCommit' /\ GoneIsIdle'
  <2>1. mounted = "here"
    BY <1>0, <1>1 DEF OneCommit, GoneIsIdle
  <2> QED BY <1>1, <1>2, <2>1 DEF OneCommit, GoneIsIdle
<1>6. /\ listings' \subseteq ListingCalls /\ listed' \in BOOLEAN /\ untold' \in BOOLEAN
      /\ ListsPath' /\ ListingCurrent(k)'
  <2>1. CASE c.reply = "pushed"
    <3>1. Browser(k)!List(path') /\ path' \in Seq(STRING)
      BY <1>0, <1>1, <2>1 DEF Browser!CommitDone, Browser!Reload, FileTypes
    <3> QED BY <3>1, ListStep
  <2>2. CASE c.reply # "pushed"
    <3>1. UNCHANGED <<listings, listed, untold>>
      BY <2>2 DEF Browser!CommitDone, Browser!Reload
    <3>2. NothingToTell' => NothingToTell
      BY <1>1, <2>2, <3>1 DEF NothingToTell
    <3> QED BY <1>0, <1>1, <3>1, <3>2, ListingKept DEF FileTypes
  <2> QED BY <2>1, <2>2
<1>7. FileTypes(k)'
  <2>1. commits' \subseteq CommitCalls(k)
        /\ \A d \in commits' : d.op = "save" => d.path \in Checkouts[k].Paths /\ d.text \in Texts(k)
    BY <1>0, <1>1 DEF FileTypes
  <2> QED BY <1>0, <1>1, <1>3, <1>4, <1>6, <2>1 DEF FileTypes
<1> QED BY <1>5, <1>6, <1>7 DEF FilesInv

LEMMA FilesStep ==
  ASSUME NEW k \in DOMAIN Checkouts, FilesInv(k), Browser(k)!Next
  PROVE  FilesInv(k)'
BY LookStep, CommitStep, ListingStep, FileStep, ServeCommitStep, CommitDoneStep DEF Browser!Next

LEMMA FilesStutter ==
  ASSUME NEW k \in DOMAIN Checkouts, FilesInv(k), UNCHANGED Browser(k)!vars
  PROVE  FilesInv(k)'
<1>1. UNCHANGED <<mounted, path, entries, open, draft, msg, busy, dialog, listings, reads, commits,
                  listed, untold, tree>>
  BY DEF Browser!vars, Browser!editor, Browser!calls
<1>2. FileTypes(k)'
  BY <1>1 DEF FilesInv, FileTypes, SaveUnderWay
<1> QED BY <1>1, <1>2, ListingKept DEF FilesInv, OneCommit, GoneIsIdle, NothingToTell

AllFiles == \A k \in DOMAIN Checkouts : OnFiles(k) => FilesInv(k)

LEMMA AlwaysFiles == Spec => []AllFiles
<1>1. Init => AllFiles
  BY InitPages, InitFiles DEF AllFiles
<1>2. AllFiles /\ [Next]_vars => AllFiles'
  <2> SUFFICES ASSUME AllFiles, [Next]_vars, NEW k \in DOMAIN Checkouts, OnFiles(k)'
               PROVE  FilesInv(k)'
    BY DEF AllFiles
  <2>1. OnFiles(k)
    BY OnePage DEF OnFiles
  <2>2. FilesInv(k) /\ [Browser(k)!Next]_(Browser(k)!vars)
    BY <2>1, OneBrowser DEF AllFiles
  <2> QED BY <2>2, FilesStep, FilesStutter
<1> QED BY <1>1, <1>2, PTL DEF Spec

\* The types of the file browser.
LEMMA FileTypeOK ==
  ASSUME NEW k \in DOMAIN Checkouts, FileTypes(k)
  PROVE  Browser(k)!TypeOK
<1>1. open # Nothing => /\ open.path \in Checkouts[k].Paths /\ open.text \in Texts(k)
                        /\ draft \in Texts(k) /\ msg \in Checkouts[k].Paths
  BY DEF FileTypes
<1>2. open # Nothing => /\ open.path \in Checkouts[k].Paths /\ msg \in Checkouts[k].Paths
                        /\ Browser(k)!IsText(open.text) /\ Browser(k)!IsText(draft)
  BY <1>1 DEF Texts, Browser!IsText
<1>3. \A e \in entries : e.name \in STRING /\ e.dir \in BOOLEAN
  BY DEF FileTypes, EntryTypes
<1>4. dialog.kind \in {"none", "newfile", "delete", "rename"}
  BY DEF FileTypes
<1>5. \A l \in listings : l.path \in Seq(STRING) /\ l.live \in BOOLEAN
  BY DEF FileTypes, ListingCalls
<1>6. \A c \in commits : c.op \in Browser(k)!Ops /\ c.live \in BOOLEAN
  BY DEF FileTypes, CommitCalls, Browser!Ops
<1> QED BY <1>2, <1>3, <1>4, <1>5, <1>6 DEF FileTypes, Browser!TypeOK

\* Dashboard.Listed: at most one commit of this browser is under way, busy tells of
\* it, and no dialog can start another; once the listing last asked for is shown, the
\* entries are those of the directory in the crumbs (FileBrowser.tsx), for whatever
\* files, directories and number of calls under way.
THEOREM DashboardListed == Spec => []Listed
<1>1. AllFiles => Listed
  <2> SUFFICES ASSUME AllFiles, NEW k \in DOMAIN Checkouts, OnFiles(k)
               PROVE  Browser(k)!BusyIsLock /\ Browser(k)!Listed
    BY DEF Listed
  <2>1. FilesInv(k)
    BY DEF AllFiles
  <2> DEFINE mine == {c \in commits : c.live}
  <2>2. \A c, d \in mine : c = d
    BY <2>1 DEF FilesInv, OneCommit
  <2>3. Cardinality(mine) <= 1
    <3>1. CASE mine = {}
      BY <3>1, FS_EmptySet
    <3>2. CASE mine # {}
      <4>1. PICK c : c \in mine
        BY <3>2
      <4>2. mine = {c}
        BY <2>2, <4>1
      <4>3. Cardinality({c}) = 1
        BY FS_Singleton
      <4> QED BY <4>2, <4>3
    <3> QED BY <3>1, <3>2
  <2>4. Browser(k)!Cardinality(mine) <= 1
    BY <2>3 DEF Browser!Cardinality, Cardinality
  <2>5. Browser(k)!BusyIsLock
    BY <2>1, <2>4 DEF FilesInv, OneCommit, Browser!BusyIsLock, Browser!NoDialog
  <2>6. Browser(k)!Listed
    <3> SUFFICES ASSUME mounted = "here", listed, ~busy, ~untold
                 PROVE  entries = Browser(k)!Names(path)
      BY DEF Browser!Listed
    <3>1. NothingToTell
      BY <2>1 DEF FilesInv, OneCommit, NothingToTell
    <3> QED BY <2>1, <3>1 DEF FilesInv, ListingCurrent
  <2> QED BY <2>5, <2>6
<1> QED BY <1>1, AlwaysFiles, PTL

-----------------------------------------------------------------------------
(* The rows of a set, oldest first (LogStream).  A row's place among them is   *)
(* the number of those before it.                                              *)

Before(S, r) == {j \in S : j < r}

LEMMA BeforeGrows ==
  ASSUME NEW S \in SUBSET Nat, IsFiniteSet(S), NEW r \in S, NEW s \in S, r < s
  PROVE  Cardinality(Before(S, r)) < Cardinality(Before(S, s))
<1>1. IsFiniteSet(Before(S, r)) /\ IsFiniteSet(Before(S, s))
  BY FS_Subset DEF Before
<1>2. r \notin Before(S, r) /\ Before(S, r) \cup {r} \in SUBSET Before(S, s)
  <2>1. r \in Nat /\ s \in Nat /\ ~(r < r)
    OBVIOUS
  <2>2. ASSUME NEW j \in S, j < r PROVE j < s
    BY <2>1, <2>2
  <2> QED BY <2>1, <2>2 DEF Before
<1>3. Cardinality(Before(S, r) \cup {r}) = Cardinality(Before(S, r)) + 1
  BY <1>1, <1>2, FS_AddElement
<1>4. Cardinality(Before(S, r) \cup {r}) <= Cardinality(Before(S, s))
  BY <1>1, <1>2, FS_Subset
<1>5. Cardinality(Before(S, r)) \in Nat /\ Cardinality(Before(S, s)) \in Nat
  BY <1>1, FS_CardinalityType
<1> QED BY <1>3, <1>4, <1>5

LEMMA OnePlace ==
  ASSUME NEW S \in SUBSET Nat, IsFiniteSet(S), NEW r \in S, NEW s \in S,
         Cardinality(Before(S, r)) = Cardinality(Before(S, s))
  PROVE  r = s
<1>1. IsFiniteSet(Before(S, r)) /\ IsFiniteSet(Before(S, s))
  BY FS_Subset DEF Before
<1>2. Cardinality(Before(S, r)) \in Nat /\ Cardinality(Before(S, s)) \in Nat
  BY <1>1, FS_CardinalityType
<1>3. ~(r < s) /\ ~(s < r)
  BY <1>2, BeforeGrows
<1>4. r \in Nat /\ s \in Nat
  OBVIOUS
<1> QED BY <1>3, <1>4

\* Every place is taken by a row.
LEMMA PlaceTaken ==
  ASSUME NEW S \in SUBSET Nat, IsFiniteSet(S), NEW i \in 1 .. Cardinality(S)
  PROVE  \E r \in S : Cardinality(Before(S, r)) = i - 1
<1> DEFINE n == Cardinality(S)
           place == [r \in S |-> Cardinality(Before(S, r)) + 1]
<1>1. n \in Nat /\ IsFiniteSet(1 .. n) /\ Cardinality(1 .. n) = n
  BY FS_CardinalityType, FS_Interval
<1>2. ASSUME NEW r \in S PROVE Cardinality(Before(S, r)) \in Nat /\ Cardinality(Before(S, r)) < n
  <2>1. Before(S, r) \in SUBSET S /\ Before(S, r) # S /\ IsFiniteSet(Before(S, r))
    BY FS_Subset DEF Before
  <2>2. Cardinality(Before(S, r)) <= Cardinality(S) /\ Cardinality(S) # Cardinality(Before(S, r))
    BY <2>1, FS_Subset
  <2>3. Cardinality(Before(S, r)) \in Nat
    BY <2>1, FS_CardinalityType
  <2> QED BY <1>1, <2>2, <2>3
<1>3. place \in [S -> 1 .. n]
  BY <1>1, <1>2
<1>4. ASSUME NEW r \in S, NEW s \in S, place[r] = place[s] PROVE r = s
  <2>1. Cardinality(Before(S, r)) = Cardinality(Before(S, s))
    BY <1>2, <1>4
  <2> QED BY <2>1, OnePlace
<1>5. place \in Injection(S, 1 .. n)
  BY <1>3, <1>4 DEF Injection, IsInjective
<1>6. place \in Surjection(S, 1 .. n)
  BY <1>1, <1>5, FS_Injection
<1>7. PICK r \in S : place[r] = i
  BY <1>6 DEF Surjection
<1> QED BY <1>2, <1>7

\* The rows of a set are shown in their order, and all.
LEMMA OldestFirstSorts ==
  ASSUME NEW S \in SUBSET Nat, IsFiniteSet(S)
  PROVE  LET q == Log!OldestFirst(S) IN
         /\ q \in Seq(Nat) /\ Len(q) = Cardinality(S)
         /\ \A i \in 1 .. Len(q) : q[i] \in S
         /\ \A i, j \in 1 .. Len(q) : i < j => q[i] < q[j]
         /\ \A r \in S : \E i \in 1 .. Len(q) : r = q[i]
<1> DEFINE q == Log!OldestFirst(S)
           n == Cardinality(S)
<1>1. n \in Nat
  BY FS_CardinalityType
<1>2. q = [i \in 1 .. n |-> CHOOSE r \in S : Cardinality(Before(S, r)) = i - 1]
  BY DEF Log!OldestFirst, Before, Log!Cardinality, Cardinality
<1> HIDE DEF q
<1>3. ASSUME NEW i \in 1 .. n PROVE q[i] \in S /\ Cardinality(Before(S, q[i])) = i - 1
  BY <1>2, PlaceTaken
<1>4. q \in [1 .. n -> Nat]
  BY <1>2, <1>3
<1>5. q \in Seq(Nat) /\ Len(q) = n
  BY <1>1, <1>4
<1>6. ASSUME NEW i \in 1 .. n, NEW j \in 1 .. n, i < j PROVE q[i] < q[j]
  <2>1. CASE q[j] < q[i]
    <3>1. j - 1 < i - 1
      BY <1>3, <2>1, BeforeGrows
    <3> QED BY <1>1, <1>6, <3>1
  <2>2. CASE q[j] = q[i]
    BY <1>1, <1>3, <1>6, <2>2
  <2>3. q[i] \in Nat /\ q[j] \in Nat
    BY <1>3
  <2> QED BY <2>1, <2>2, <2>3
<1>7. ASSUME NEW r \in S PROVE \E i \in 1 .. n : r = q[i]
  <2>1. Before(S, r) \in SUBSET S /\ Before(S, r) # S /\ IsFiniteSet(Before(S, r))
    BY FS_Subset DEF Before
  <2>2. Cardinality(Before(S, r)) \in Nat /\ Cardinality(Before(S, r)) < n
    BY <1>1, <2>1, FS_Subset, FS_CardinalityType
  <2>3. PICK i \in 1 .. n : i - 1 = Cardinality(Before(S, r))
    BY <1>1, <2>2
  <2>4. q[i] \in S /\ Cardinality(Before(S, q[i])) = Cardinality(Before(S, r))
    BY <1>3, <2>3
  <2>5. r = q[i]
    <3>1. \A x, y \in S : Cardinality(Before(S, x)) = Cardinality(Before(S, y)) => x = y
      BY OnePlace
    <3> QED BY <2>4, <3>1
  <2> QED BY <2>3, <2>5
<1> QED BY <1>3, <1>5, <1>6, <1>7 DEF q

\* An ascending sequence is that of its rows.
LEMMA AscendingIsOldestFirst ==
  ASSUME NEW s \in Seq(Nat), \A i, j \in 1 .. Len(s) : i < j => s[i] < s[j],
         NEW S, S = {s[i] : i \in 1 .. Len(s)}
  PROVE  s = Log!OldestFirst(S) /\ IsFiniteSet(S)
<1> DEFINE n == Len(s)
<1>1. n \in Nat /\ S \in SUBSET Nat /\ \A i \in 1 .. n : s[i] \in S /\ s[i] \in Nat
  OBVIOUS
<1>2. ASSUME NEW m \in 0 .. n
      PROVE  /\ IsFiniteSet({s[i] : i \in 1 .. m})
             /\ Cardinality({s[i] : i \in 1 .. m}) = m
  <2> DEFINE f == [i \in 1 .. m |-> s[i]]
             R == {s[i] : i \in 1 .. m}
  <2>0. m \in Nat /\ 1 \in Int /\ m \in Int /\ m - 1 + 1 = m /\ (1 > m => m = 0)
    BY <1>1
  <2>1. IsFiniteSet(1 .. m) /\ Cardinality(1 .. m) = m
    BY <2>0, FS_Interval
  <2>2. f \in [1 .. m -> R] /\ \A i, j \in 1 .. m : i # j => f[i] # f[j]
    <3>1. ASSUME NEW i \in 1 .. m, NEW j \in 1 .. m, i # j PROVE s[i] # s[j]
      <4>1. i \in 1 .. n /\ j \in 1 .. n /\ i \in Int /\ j \in Int /\ (i < j \/ j < i)
        BY <1>1, <3>1
      <4>2. s[i] \in Nat /\ s[j] \in Nat /\ (s[i] < s[j] \/ s[j] < s[i])
        BY <1>1, <4>1
      <4> QED BY <4>2
    <3> QED BY <3>1
  <2>3. f \in Bijection(1 .. m, R)
    BY <2>2 DEF Bijection, Injection, Surjection, IsInjective
  <2>4. ExistsBijection(1 .. m, R)
    BY <2>3 DEF ExistsBijection
  <2> QED BY <2>1, <2>4, FS_Bijection
<1>3. IsFiniteSet(S) /\ Cardinality(S) = n
  <2>1. n \in 0 .. n /\ S = {s[i] : i \in 1 .. n}
    BY <1>1
  <2> QED BY <1>2, <2>1
<1>4. ASSUME NEW i \in 1 .. n PROVE Cardinality(Before(S, s[i])) = i - 1
  <2>1. Before(S, s[i]) = {s[j] : j \in 1 .. i - 1}
    <3>1. ASSUME NEW j \in 1 .. n, s[j] < s[i] PROVE j \in 1 .. i - 1
      <4>1. ~(i < j) /\ i # j
        BY <1>1, <3>1
      <4> QED BY <1>1, <4>1
    <3>2. ASSUME NEW j \in 1 .. i - 1 PROVE j \in 1 .. n /\ s[j] < s[i]
      BY <1>1
    <3> QED BY <3>1, <3>2 DEF Before
  <2>2. i - 1 \in 0 .. n
    BY <1>1
  <2> QED BY <1>2, <2>1, <2>2
<1> DEFINE q == Log!OldestFirst(S)
<1>5. q = [i \in 1 .. n |-> CHOOSE r \in S : Cardinality(Before(S, r)) = i - 1]
  <2>1. q = [i \in 1 .. Cardinality(S) |-> CHOOSE r \in S : Cardinality(Before(S, r)) = i - 1]
    BY DEF Log!OldestFirst, Before, Log!Cardinality, Cardinality
  <2> QED BY <1>3, <2>1
<1> HIDE DEF q
<1>6. ASSUME NEW i \in 1 .. n PROVE q[i] = s[i]
  <2>1. q[i] \in S /\ Cardinality(Before(S, q[i])) = i - 1
    BY <1>1, <1>4, <1>5
  <2>2. s[i] \in S /\ Cardinality(Before(S, s[i])) = Cardinality(Before(S, q[i]))
    BY <1>1, <1>4, <2>1
  <2>3. \A x, y \in S : Cardinality(Before(S, x)) = Cardinality(Before(S, y)) => x = y
    BY <1>1, <1>3, OnePlace
  <2> QED BY <2>1, <2>2, <2>3
<1>7. s \in [1 .. n -> Nat]
  OBVIOUS
<1> QED BY <1>3, <1>5, <1>6, <1>7 DEF q

-----------------------------------------------------------------------------
(* The live log.  A tick asks for the selection on display, and the rows that  *)
(* answer it are of that selection.                                            *)

Shown == Log!RowsOf(selection)

RowsOnly(s, R) == s \in Seq(Nat) /\ \A i \in 1 .. Len(s) : s[i] \in R

TickCalls == [for : Selections, after : Nat, reply : {Unanswered} \cup Seq(Nat)]

LogTypes ==
  /\ mounted \in {"here", "away"} /\ selection \in Selections /\ paused \in BOOLEAN
  /\ RowsOnly(lines, Shown) /\ Len(lines) <= LogCap
  /\ cursor \in Nat /\ first \in BOOLEAN /\ disturbed \in BOOLEAN
  /\ ticks \in Seq(TickCalls) /\ logged \in Seq(Tags)

Asked ==
  \A n \in 1 .. Len(ticks) :
    ticks[n].for = selection /\ (ticks[n].reply # Unanswered => RowsOnly(ticks[n].reply, Shown))

\* Rows in order, and all of R between the oldest and the newest.
Segment(s, R) ==
  /\ \A i, j \in 1 .. Len(s) : i < j => s[i] < s[j]
  /\ \A r \in R : s[1] <= r /\ r <= s[Len(s)] => \E i \in 1 .. Len(s) : r = s[i]

\* Rows that continue those up to a cursor.
Continues(s, after, R) ==
  /\ Segment(s, R)
  /\ after > 0 => /\ after < s[1]
                  /\ \A r \in R : after < r => s[1] <= r

\* While ticks do not overlap, the one under way asks for what comes next.
InStep ==
  ~disturbed =>
    /\ Len(ticks) <= 1
    /\ first => lines = <<>>
    /\ lines = <<>> => cursor = 0
    /\ lines # <<>> => Segment(lines, Shown) /\ cursor = lines[Len(lines)]
    /\ \A n \in 1 .. Len(ticks) :
         /\ ticks[n].after = cursor
         /\ ticks[n].reply \notin {Unanswered, <<>>} => Continues(ticks[n].reply, cursor, Shown)

LogInv == LogTypes /\ Asked /\ InStep

LEMMA InitLog == Log!Init => LogInv
<1> SUFFICES ASSUME Log!Init PROVE LogInv
  OBVIOUS
<1>0. /\ mounted = "here" /\ selection \in Selections /\ paused = FALSE
      /\ lines = <<>> /\ cursor = 0 /\ first = TRUE /\ ticks = <<>> /\ logged = <<>> /\ disturbed = FALSE
  BY LogAssumption DEF Log!Init
<1>1. LogTypes
  <2>1. lines \in Seq(Nat) /\ Len(lines) = 0 /\ 0 <= LogCap /\ ticks \in Seq(TickCalls) /\ logged \in Seq(Tags)
    BY <1>0, LogAssumption
  <2>2. RowsOnly(lines, Shown)
    BY <2>1 DEF RowsOnly
  <2> QED BY <1>0, <2>1, <2>2 DEF LogTypes
<1>2. Asked /\ InStep
  BY DEF Log!Init, Asked, InStep
<1> QED BY <1>1, <1>2 DEF LogInv

\* What a tick is answered with.
LEMMA SinceAnswers ==
  ASSUME NEW after \in Nat, logged \in Seq(Tags), selection \in Selections
  PROVE  LET q == Log!Since(selection, after) IN
         RowsOnly(q, Shown) /\ (q # <<>> => Continues(q, after, Shown))
<1> DEFINE fresh == {i \in Shown : i > after}
           oldest == {i \in fresh : Cardinality({j \in fresh : j < i}) < Limit}
           newest == {i \in fresh : Cardinality({j \in fresh : j > i}) < Limit}
           picked == IF after > 0 THEN oldest ELSE newest
           q == Log!OldestFirst(picked)
<1>1. Log!Since(selection, after) = q
  BY DEF Log!Since, Log!Cardinality, Cardinality, Shown
<1>2. /\ Shown \subseteq 1 .. Len(logged) /\ Len(logged) \in Nat
      /\ IsFiniteSet(Shown) /\ Shown \in SUBSET Nat
  <2>1. Shown \subseteq 1 .. Len(logged) /\ Len(logged) \in Nat
    BY DEF Shown, Log!RowsOf, Log!Rows
  <2>2. IsFiniteSet(1 .. Len(logged))
    BY <2>1, FS_Interval
  <2>3. IsFiniteSet(Shown)
    BY <2>1, <2>2, FS_Subset
  <2>4. 1 .. Len(logged) \subseteq Nat
    BY <2>1
  <2> QED BY <2>1, <2>3, <2>4
<1> HIDE DEF fresh
<1>3. fresh \in SUBSET Nat /\ IsFiniteSet(fresh) /\ fresh \subseteq Shown
      /\ \A r : r \in fresh <=> r \in Shown /\ r > after
  BY <1>2, FS_Subset DEF fresh
<1> HIDE DEF oldest, newest, picked
<1>4. picked \in SUBSET fresh /\ picked \in SUBSET Nat /\ IsFiniteSet(picked)
  BY <1>3, FS_Subset DEF picked, oldest, newest
<1> HIDE DEF q
<1>5. /\ q \in Seq(Nat) /\ Len(q) = Cardinality(picked)
      /\ \A i \in 1 .. Len(q) : q[i] \in picked
      /\ \A i, j \in 1 .. Len(q) : i < j => q[i] < q[j]
      /\ \A r \in picked : \E i \in 1 .. Len(q) : r = q[i]
  BY <1>4, OldestFirstSorts DEF q
<1>6. RowsOnly(q, Shown)
  BY <1>3, <1>4, <1>5 DEF RowsOnly
<1>7. ASSUME NEW r \in fresh, NEW s \in oldest, r <= s PROVE r \in oldest
  <2>1. {j \in fresh : j < r} \in SUBSET {j \in fresh : j < s}
    <3>1. r \in Nat /\ s \in Nat
      BY <1>3, <1>7 DEF oldest
    <3>2. ASSUME NEW j \in fresh, j < r PROVE j < s
      BY <1>3, <1>7, <3>1, <3>2
    <3> QED BY <3>2
  <2>2. IsFiniteSet({j \in fresh : j < s})
    BY <1>3, FS_Subset
  <2>3. Cardinality({j \in fresh : j < r}) <= Cardinality({j \in fresh : j < s})
    BY <2>1, <2>2, FS_Subset
  <2>4. Cardinality({j \in fresh : j < r}) \in Nat /\ Cardinality({j \in fresh : j < s}) \in Nat
    BY <2>1, <2>2, FS_Subset, FS_CardinalityType
  <2>5. Cardinality({j \in fresh : j < s}) < Limit
    BY <1>7 DEF oldest
  <2> QED BY <2>3, <2>4, <2>5, LogAssumption DEF oldest
<1>8. ASSUME NEW r \in fresh, NEW s \in newest, s <= r PROVE r \in newest
  <2>1. {j \in fresh : j > r} \in SUBSET {j \in fresh : j > s}
    <3>1. r \in Nat /\ s \in Nat
      BY <1>3, <1>8 DEF newest
    <3>2. ASSUME NEW j \in fresh, j > r PROVE j > s
      BY <1>3, <1>8, <3>1, <3>2
    <3> QED BY <3>2
  <2>2. IsFiniteSet({j \in fresh : j > s})
    BY <1>3, FS_Subset
  <2>3. Cardinality({j \in fresh : j > r}) <= Cardinality({j \in fresh : j > s})
    BY <2>1, <2>2, FS_Subset
  <2>4. Cardinality({j \in fresh : j > r}) \in Nat /\ Cardinality({j \in fresh : j > s}) \in Nat
    BY <2>1, <2>2, FS_Subset, FS_CardinalityType
  <2>5. Cardinality({j \in fresh : j > s}) < Limit
    BY <1>8 DEF newest
  <2> QED BY <2>3, <2>4, <2>5, LogAssumption DEF newest
<1>9. ASSUME q # <<>> PROVE Continues(q, after, Shown)
  <2>1. Len(q) \in Nat /\ Len(q) # 0 /\ 1 \in 1 .. Len(q) /\ Len(q) \in 1 .. Len(q)
    BY <1>5, <1>9
  <2>2. q[1] \in picked /\ q[Len(q)] \in picked /\ q[1] \in Nat /\ q[Len(q)] \in Nat /\ q[1] > after
    BY <1>3, <1>4, <1>5, <2>1
  <2>3. ASSUME NEW r \in Shown, q[1] <= r, r <= q[Len(q)]
        PROVE  r \in picked
    <3>1. r \in fresh
      BY <1>2, <1>3, <2>2, <2>3
    <3>2. CASE after > 0
      BY <1>7, <2>2, <2>3, <3>1, <3>2 DEF picked
    <3>3. CASE ~(after > 0)
      BY <1>8, <2>2, <2>3, <3>1, <3>3 DEF picked
    <3> QED BY <3>2, <3>3
  <2>4. Segment(q, Shown)
    BY <1>5, <2>3 DEF Segment
  <2>5. ASSUME after > 0, NEW r \in Shown, after < r PROVE q[1] <= r
    <3>1. r \in fresh /\ r \in Nat
      BY <1>2, <1>3, <2>5
    <3>2. CASE q[1] <= r
      BY <3>2
    <3>3. CASE r < q[1]
      <4>1. r \in picked
        BY <1>7, <2>2, <2>5, <3>1, <3>3 DEF picked
      <4>2. PICK i \in 1 .. Len(q) : r = q[i]
        BY <1>5, <4>1
      <4>3. i = 1 \/ 1 < i
        BY <2>1
      <4> QED BY <1>5, <2>1, <2>2, <3>1, <3>3, <4>2, <4>3
    <3> QED BY <2>2, <3>1, <3>2, <3>3
  <2> QED BY <2>2, <2>4, <2>5 DEF Continues
<1> QED BY <1>1, <1>6, <1>9

\* The process logs a row: it is newer than any that was.
LEMMA RowLogged ==
  ASSUME LogTypes, Log!Log
  PROVE  /\ logged' \in Seq(Tags) /\ selection' = selection
         /\ Shown \subseteq 1 .. Len(logged) /\ Shown \subseteq Shown'
         /\ \A r \in Shown' : r \in Shown \/ r > Len(logged)
<1>1. PICK t \in Tags : logged' = Append(logged, t)
  BY DEF Log!Log
<1>2. logged \in Seq(Tags) /\ selection' = selection
  BY DEF LogTypes, Log!Log, Log!view
<1>3. /\ logged' \in Seq(Tags) /\ Len(logged') = Len(logged) + 1 /\ Len(logged) \in Nat
      /\ \A i \in 1 .. Len(logged) : logged'[i] = logged[i]
  BY <1>1, <1>2
<1>4. /\ \A r : r \in Shown <=> r \in 1 .. Len(logged) /\ logged[r] \in Shows[selection]
      /\ \A r : r \in Shown' <=> r \in 1 .. Len(logged') /\ logged'[r] \in Shows[selection]
  BY <1>2 DEF Shown, Log!RowsOf, Log!Rows
<1> QED BY <1>2, <1>3, <1>4

LEMMA SegmentKept ==
  ASSUME NEW R, NEW Q, NEW n \in Nat, R \subseteq 1 .. n, R \subseteq Q, \A r \in Q : r \in R \/ r > n,
         NEW s, RowsOnly(s, R), Q \subseteq Nat
  PROVE  /\ RowsOnly(s, Q)
         /\ s # <<>> /\ Segment(s, R) => Segment(s, Q)
         /\ \A after \in Nat : s # <<>> /\ Continues(s, after, R) => Continues(s, after, Q)
<1>1. RowsOnly(s, Q)
  BY DEF RowsOnly
<1>2. ASSUME s # <<>>, Segment(s, R) PROVE Segment(s, Q)
  <2>1. s \in Seq(Nat) /\ Len(s) \in 1 .. Len(s)
    BY <1>2 DEF RowsOnly
  <2>2. s[Len(s)] \in 1 .. n
    BY <2>1 DEF RowsOnly
  <2>3. ASSUME NEW r \in Q, s[1] <= r, r <= s[Len(s)] PROVE r \in R
    BY <2>2, <2>3
  <2> QED BY <1>2, <2>3 DEF Segment
<1>3. ASSUME NEW after \in Nat, s # <<>>, Continues(s, after, R) PROVE Continues(s, after, Q)
  <2>1. Segment(s, Q)
    BY <1>2, <1>3 DEF Continues
  <2>2. s \in Seq(Nat) /\ 1 \in 1 .. Len(s)
    BY <1>3 DEF RowsOnly
  <2>3. s[1] \in 1 .. n
    BY <2>2 DEF RowsOnly
  <2> QED BY <1>3, <2>1, <2>3 DEF Continues
<1> QED BY <1>1, <1>2, <1>3

LEMMA LogStep ==
  ASSUME LogInv, Log!Log
  PROVE  LogInv'
<1>0. LogTypes /\ Asked /\ InStep
  BY DEF LogInv
<1>1. UNCHANGED <<mounted, selection, paused, lines, cursor, first, ticks, disturbed>>
  BY DEF Log!Log, Log!view
<1>2. /\ logged' \in Seq(Tags) /\ Shown \subseteq 1 .. Len(logged) /\ Shown \subseteq Shown'
      /\ \A r \in Shown' : r \in Shown \/ r > Len(logged)
  BY <1>0, RowLogged
<1>3. Len(logged) \in Nat /\ Shown' \subseteq Nat
  <2>1. Len(logged) \in Nat /\ Len(logged') \in Nat
    BY <1>0, <1>2 DEF LogTypes
  <2> QED BY <2>1 DEF Shown, Log!RowsOf, Log!Rows
<1>4. ASSUME NEW s, RowsOnly(s, Shown)
      PROVE  /\ RowsOnly(s, Shown')
             /\ s # <<>> /\ Segment(s, Shown) => Segment(s, Shown')
             /\ \A after \in Nat : s # <<>> /\ Continues(s, after, Shown) => Continues(s, after, Shown')
  BY <1>2, <1>3, <1>4, SegmentKept
<1> HIDE DEF Shown
<1>5. LogTypes'
  <2>1. RowsOnly(lines', Shown')
    BY <1>0, <1>1, <1>4 DEF LogTypes
  <2> QED BY <1>0, <1>1, <1>2, <2>1 DEF LogTypes
<1>6. Asked'
  BY <1>0, <1>1, <1>4 DEF Asked
<1>7. InStep'
  <2>1. cursor \in Nat /\ RowsOnly(lines, Shown)
    BY <1>0 DEF LogTypes
  <2>2. \A n \in 1 .. Len(ticks) : ticks[n].reply # Unanswered => RowsOnly(ticks[n].reply, Shown)
    BY <1>0 DEF Asked
  <2> QED BY <1>0, <1>1, <1>4, <2>1, <2>2 DEF InStep
<1> QED BY <1>5, <1>6, <1>7 DEF LogInv

\* The effect runs, or its cleanup: no tick is under way.
LEMMA EffectStep ==
  ASSUME LogInv, Log!Select \/ Log!Pause \/ Log!Leave \/ Log!Return
  PROVE  LogInv'
<1>0. LogTypes /\ Asked /\ InStep
  BY DEF LogInv
<1>1. CASE Log!Select \/ Log!Leave
  <2>1. /\ mounted' \in {"here", "away"} /\ selection' \in Selections /\ paused' \in BOOLEAN
        /\ lines' = <<>> /\ cursor' = 0 /\ disturbed' = FALSE /\ first' = TRUE /\ ticks' = <<>>
        /\ logged' = logged
    BY <1>0, <1>1, LogAssumption DEF LogTypes, Log!Select, Log!Leave, Log!Reset, Log!Stopped
  <2>2. RowsOnly(lines', Shown') /\ Len(lines') <= LogCap /\ ticks' \in Seq(TickCalls)
    BY <2>1, LogAssumption DEF RowsOnly
  <2>3. LogTypes'
    BY <1>0, <2>1, <2>2 DEF LogTypes
  <2>4. Asked' /\ InStep'
    BY <2>1 DEF Asked, InStep
  <2> QED BY <2>3, <2>4 DEF LogInv
<1>2. CASE Log!Pause \/ Log!Return
  <2>1. /\ mounted' \in {"here", "away"} /\ paused' \in BOOLEAN
        /\ UNCHANGED <<selection, lines, cursor, logged>>
        /\ \/ ticks' = <<>> /\ first' = TRUE /\ disturbed' = TRUE
           \/ UNCHANGED <<first, ticks, disturbed>>
    BY <1>0, <1>2 DEF LogTypes, Log!Pause, Log!Return, Log!Stopped
  <2>2. Shown' = Shown
    BY <2>1 DEF Shown, Log!RowsOf, Log!Rows
  <2>3. LogTypes'
    <3>1. RowsOnly(lines', Shown') /\ Len(lines') <= LogCap
      BY <1>0, <2>1, <2>2 DEF LogTypes
    <3>2. ticks' \in Seq(TickCalls) /\ first' \in BOOLEAN /\ disturbed' \in BOOLEAN
      <4>1. <<>> \in Seq(TickCalls)
        OBVIOUS
      <4>2. ticks \in Seq(TickCalls) /\ first \in BOOLEAN /\ disturbed \in BOOLEAN
        BY <1>0 DEF LogTypes
      <4> QED BY <2>1, <4>1, <4>2
    <3> QED BY <1>0, <2>1, <3>1, <3>2 DEF LogTypes
  <2>4. CASE ticks' = <<>> /\ disturbed' = TRUE
    BY <2>3, <2>4 DEF LogInv, Asked, InStep
  <2>5. CASE UNCHANGED <<first, ticks, disturbed>>
    BY <1>0, <2>1, <2>2, <2>3, <2>5 DEF LogInv, Asked, InStep
  <2> QED BY <2>1, <2>4, <2>5
<1> QED BY <1>1, <1>2

\* Ticks are sent, answered by the server, and lost.
LEMMA TickStep ==
  ASSUME LogInv, Log!Tick \/ Log!Serve \/ Log!Lose
  PROVE  LogInv'
<1>0. LogTypes /\ Asked /\ InStep
  BY DEF LogInv
<1>1. UNCHANGED <<mounted, selection, paused, lines, cursor, first, logged>>
  BY DEF Log!Tick, Log!Serve, Log!Lose, Log!view
<1>2. Shown' = Shown
  BY <1>1 DEF Shown, Log!RowsOf, Log!Rows
<1>3. ticks \in Seq(TickCalls) /\ Len(ticks) \in Nat /\ cursor \in Nat /\ selection \in Selections
      /\ logged \in Seq(Tags) /\ disturbed \in BOOLEAN
  BY <1>0 DEF LogTypes
<1> HIDE DEF Shown
<1>4. CASE Log!Tick
  <2> DEFINE c == [for |-> selection, after |-> Log!AskAfter, reply |-> Unanswered]
  <2>1. ticks' = Append(ticks, c) /\ disturbed' = (disturbed \/ ticks # <<>>)
    BY <1>4 DEF Log!Tick
  <2>2. c \in TickCalls /\ c.for = selection /\ c.after = Log!AskAfter /\ c.reply = Unanswered
    BY <1>3 DEF TickCalls, Log!AskAfter
  <2> HIDE DEF c
  <2>3. /\ ticks' \in Seq(TickCalls) /\ Len(ticks') = Len(ticks) + 1 /\ ticks'[Len(ticks) + 1] = c
        /\ \A n \in 1 .. Len(ticks) : ticks'[n] = ticks[n]
    BY <1>3, <2>1, <2>2
  <2>4. LogTypes'
    BY <1>0, <1>1, <1>2, <2>1, <2>3 DEF LogTypes
  <2>5. Asked'
    <3> SUFFICES ASSUME NEW n \in 1 .. Len(ticks')
                 PROVE  ticks'[n].for = selection'
                        /\ (ticks'[n].reply # Unanswered => RowsOnly(ticks'[n].reply, Shown'))
      BY DEF Asked
    <3>1. CASE n = Len(ticks) + 1
      BY <1>1, <2>2, <2>3, <3>1
    <3>2. CASE n \in 1 .. Len(ticks)
      BY <1>0, <1>1, <1>2, <2>3, <3>2 DEF Asked
    <3> QED BY <1>3, <2>3, <3>1, <3>2
  <2>6. InStep'
    <3> SUFFICES ASSUME ~disturbed' PROVE InStep'
      BY DEF InStep
    <3>1. ~disturbed /\ Len(ticks) = 0 /\ (first => cursor = 0)
      BY <1>0, <1>3, <2>1 DEF InStep
    <3>2. Len(ticks') = 1 /\ ticks'[1] = c /\ c.after = cursor
      BY <2>2, <2>3, <3>1 DEF Log!AskAfter
    <3>3. \A n \in 1 .. Len(ticks') : ticks'[n].after = cursor' /\ ticks'[n].reply = Unanswered
      BY <1>1, <2>2, <3>2
    <3> QED BY <1>0, <1>1, <1>2, <3>1, <3>2, <3>3 DEF InStep
  <2> QED BY <2>4, <2>5, <2>6 DEF LogInv
<1>5. CASE Log!Serve
  <2>0. DOMAIN ticks = 1 .. Len(ticks)
    BY <1>3
  <2>1. PICK i \in 1 .. Len(ticks) :
          ticks' = [ticks EXCEPT ![i].reply = Log!Since(ticks[i].for, ticks[i].after)]
    BY <1>5, <2>0 DEF Log!Serve
  <2>2. disturbed' = disturbed
    BY <1>5 DEF Log!Serve
  <2>3. ticks[i] \in TickCalls /\ ticks[i].for = selection /\ ticks[i].after \in Nat
    <3>1. ticks[i] \in TickCalls
      BY <1>3
    <3> QED BY <1>0, <3>1 DEF Asked, TickCalls
  <2> DEFINE q == Log!Since(selection, ticks[i].after)
             c == [ticks[i] EXCEPT !.reply = q]
  <2>4. RowsOnly(q, Shown) /\ (q # <<>> => Continues(q, ticks[i].after, Shown))
    BY <1>3, <2>3, SinceAnswers
  <2> HIDE DEF q
  <2>5. c \in TickCalls /\ c.for = selection /\ c.after = ticks[i].after /\ c.reply = q
    BY <2>3, <2>4 DEF TickCalls, RowsOnly
  <2>6. ticks' = [ticks EXCEPT ![i] = c]
    BY <2>1, <2>3 DEF q
  <2> HIDE DEF c
  <2>7. ticks' \in Seq(TickCalls) /\ Len(ticks') = Len(ticks)
        /\ \A n \in 1 .. Len(ticks) : ticks'[n] = IF n = i THEN c ELSE ticks[n]
    BY <1>3, <2>5, <2>6
  <2>8. LogTypes'
    BY <1>0, <1>1, <1>2, <2>2, <2>7 DEF LogTypes
  <2>9. Asked'
    BY <1>0, <1>1, <1>2, <2>4, <2>5, <2>7 DEF Asked
  <2>10. InStep'
    <3> SUFFICES ASSUME ~disturbed' PROVE InStep'
      BY DEF InStep
    <3>1. \A n \in 1 .. Len(ticks') :
            /\ ticks'[n].after = cursor'
            /\ ticks'[n].reply \notin {Unanswered, <<>>} => Continues(ticks'[n].reply, cursor', Shown')
      BY <1>0, <1>1, <1>2, <2>2, <2>4, <2>5, <2>7 DEF InStep
    <3> QED BY <1>0, <1>1, <1>2, <2>2, <2>7, <3>1 DEF InStep
  <2> QED BY <2>8, <2>9, <2>10 DEF LogInv
<1>6. CASE Log!Lose
  <2>0. DOMAIN ticks = 1 .. Len(ticks)
    BY <1>3
  <2>1. PICK i \in 1 .. Len(ticks) : ticks' = SubSeq(ticks, 1, i - 1) \o SubSeq(ticks, i + 1, Len(ticks))
    BY <1>6, <2>0 DEF Log!Lose, Log!RemoveAt
  <2>2. disturbed' = disturbed
    BY <1>6 DEF Log!Lose
  <2>3. /\ ticks' \in Seq(TickCalls) /\ Len(ticks') = Len(ticks) - 1
        /\ \A n \in 1 .. Len(ticks) - 1 : ticks'[n] = IF n < i THEN ticks[n] ELSE ticks[n + 1]
    BY <1>3, <2>1, Removed
  <2>4. \A n \in 1 .. Len(ticks') : \E m \in 1 .. Len(ticks) : ticks'[n] = ticks[m]
    BY <1>3, <2>3
  <2>5. LogTypes'
    BY <1>0, <1>1, <1>2, <2>2, <2>3 DEF LogTypes
  <2>6. Asked'
    BY <1>0, <1>1, <1>2, <2>4 DEF Asked
  <2>7. InStep'
    BY <1>0, <1>1, <1>2, <1>3, <2>2, <2>3, <2>4 DEF InStep
  <2> QED BY <2>5, <2>6, <2>7 DEF LogInv
<1> QED BY <1>4, <1>5, <1>6

\* The newest lines stay, and they are a segment when all were.
LEMMA CappedKeeps ==
  ASSUME NEW R, R \subseteq Nat, NEW z, RowsOnly(z, R)
  PROVE  LET c == Log!Capped(z) IN
         /\ RowsOnly(c, R) /\ Len(c) <= LogCap
         /\ z # <<>> => c # <<>> /\ c[Len(c)] = z[Len(z)]
         /\ z # <<>> /\ Segment(z, R) => Segment(c, R)
<1> DEFINE c == Log!Capped(z)
<1>0. z \in Seq(Nat) /\ Len(z) \in Nat /\ LogCap \in Nat /\ LogCap > 0
      /\ \A i \in 1 .. Len(z) : z[i] \in R /\ z[i] \in Nat
  BY LogAssumption DEF RowsOnly
<1>1. PICK k \in Nat : /\ c \in Seq(Nat) /\ Len(z) = Len(c) + k /\ Len(c) <= LogCap
                       /\ \A i \in 1 .. Len(c) : c[i] = z[k + i]
                       /\ Len(z) > 0 => Len(c) > 0
  <2>1. CASE Len(z) > LogCap
    <3>1. c = SubSeq(z, Len(z) - LogCap + 1, Len(z))
      BY <2>1 DEF Log!Capped
    <3> DEFINE k == Len(z) - LogCap
    <3>2. k \in Nat /\ k + 1 \in 1 .. Len(z) /\ k < Len(z)
      BY <1>0, <2>1
    <3>3. SubSeq(z, k + 1, Len(z)) \in Seq(Nat) /\ Len(SubSeq(z, k + 1, Len(z))) = Len(z) - k
          /\ \A i \in 1 .. Len(z) - k : SubSeq(z, k + 1, Len(z))[i] = z[k + i]
      <4> HIDE DEF k
      <4> QED BY <1>0, <3>2
    <3>4. c \in Seq(Nat) /\ Len(c) = Len(z) - k /\ \A i \in 1 .. Len(c) : c[i] = z[k + i]
      BY <3>1, <3>3
    <3>5. Len(c) = LogCap /\ Len(z) = Len(c) + k /\ Len(c) > 0
      BY <1>0, <3>4
    <3> HIDE DEF k, c
    <3>6. Len(c) <= LogCap
      BY <1>0, <3>5
    <3> QED BY <3>2, <3>4, <3>5, <3>6
  <2>2. CASE ~(Len(z) > LogCap)
    <3>1. c = z
      BY <2>2 DEF Log!Capped
    <3> HIDE DEF c
    <3>2. Len(z) = Len(c) + 0 /\ \A i \in 1 .. Len(c) : c[i] = z[0 + i]
      BY <1>0, <3>1
    <3>3. c \in Seq(Nat) /\ Len(c) <= LogCap /\ (Len(z) > 0 => Len(c) > 0)
      BY <1>0, <2>2, <3>1
    <3> QED BY <3>2, <3>3
  <2> QED BY <2>1, <2>2
<1> HIDE DEF c
<1>2. Len(c) \in Nat /\ \A i \in 1 .. Len(c) : k + i \in 1 .. Len(z)
  BY <1>0, <1>1
<1>3. RowsOnly(c, R)
  BY <1>0, <1>1, <1>2 DEF RowsOnly
<1>4. ASSUME z # <<>>
      PROVE  c # <<>> /\ c[Len(c)] = z[Len(z)] /\ Len(c) \in 1 .. Len(c) /\ 1 \in 1 .. Len(c)
  <2>1. Len(z) > 0
    BY <1>0, <1>4
  <2>2. Len(c) > 0 /\ c # <<>>
    BY <1>1, <1>2, <2>1
  <2>3. Len(c) \in 1 .. Len(c) /\ k + Len(c) = Len(z)
    BY <1>0, <1>1, <1>2, <2>2
  <2> QED BY <1>1, <1>2, <2>2, <2>3
<1>5. ASSUME z # <<>>, Segment(z, R) PROVE Segment(c, R)
  <2>1. ASSUME NEW i \in 1 .. Len(c), NEW j \in 1 .. Len(c), i < j PROVE c[i] < c[j]
    <3>1. k + i \in 1 .. Len(z) /\ k + j \in 1 .. Len(z) /\ k + i < k + j
      BY <1>2, <2>1
    <3> QED BY <1>1, <1>5, <3>1 DEF Segment
  <2>2. ASSUME NEW r \in R, c[1] <= r, r <= c[Len(c)] PROVE \E i \in 1 .. Len(c) : r = c[i]
    <3>1. c[1] = z[k + 1] /\ k + 1 \in 1 .. Len(z) /\ 1 \in 1 .. Len(z)
      BY <1>0, <1>1, <1>2, <1>4, <1>5
    <3>2. z[1] <= z[k + 1]
      <4>1. k = 0 \/ 1 < k + 1
        BY <1>1
      <4> QED BY <1>0, <1>5, <3>1, <4>1 DEF Segment
    <3>3. z[1] <= r /\ r <= z[Len(z)]
      <4>1. z[1] \in Nat /\ z[k + 1] \in Nat /\ r \in Nat
        BY <1>0, <3>1
      <4> QED BY <1>4, <1>5, <2>2, <3>1, <3>2, <4>1
    <3>4. PICK m \in 1 .. Len(z) : r = z[m]
      BY <1>5, <3>3 DEF Segment
    <3>5. ~(m < k + 1)
      <4>1. CASE m < k + 1
        <5>1. z[m] < z[k + 1]
          BY <1>5, <3>1, <4>1 DEF Segment
        <5>2. z[m] \in Nat /\ z[k + 1] \in Nat
          BY <1>0, <3>1
        <5> QED BY <2>2, <3>1, <3>4, <5>1, <5>2
      <4> QED BY <4>1
    <3>6. m - k \in 1 .. Len(c) /\ k + (m - k) = m
      BY <1>0, <1>1, <1>2, <3>5
    <3> QED BY <1>1, <3>4, <3>6
  <2> QED BY <2>1, <2>2 DEF Segment
<1> QED BY <1>1, <1>3, <1>4, <1>5 DEF c

\* An answer is appended: a segment that continues a segment.
LEMMA SegmentJoined ==
  ASSUME NEW R, R \subseteq Nat, NEW a, NEW b, RowsOnly(a, R), RowsOnly(b, R)
  PROVE  /\ RowsOnly(a \o b, R)
         /\ b # <<>> => a \o b # <<>> /\ (a \o b)[Len(a \o b)] = b[Len(b)]
         /\ a # <<>> /\ b # <<>> /\ Segment(a, R) /\ a[Len(a)] > 0 /\ Continues(b, a[Len(a)], R)
              => Segment(a \o b, R)
<1> DEFINE z == a \o b
<1>0. /\ a \in Seq(Nat) /\ Len(a) \in Nat /\ \A i \in 1 .. Len(a) : a[i] \in R /\ a[i] \in Nat
      /\ b \in Seq(Nat) /\ Len(b) \in Nat /\ \A i \in 1 .. Len(b) : b[i] \in R /\ b[i] \in Nat
  BY DEF RowsOnly
<1>1. /\ z \in Seq(Nat) /\ Len(z) = Len(a) + Len(b)
      /\ \A i \in 1 .. Len(a) : z[i] = a[i]
      /\ \A i \in 1 .. Len(b) : z[Len(a) + i] = b[i]
  BY <1>0, Joined
<1> HIDE DEF z
<1>2. \A i \in 1 .. Len(z) : \/ i \in 1 .. Len(a) /\ z[i] = a[i]
                             \/ i - Len(a) \in 1 .. Len(b) /\ z[i] = b[i - Len(a)]
  <2> SUFFICES ASSUME NEW i \in 1 .. Len(z)
               PROVE  \/ i \in 1 .. Len(a) /\ z[i] = a[i]
                      \/ i - Len(a) \in 1 .. Len(b) /\ z[i] = b[i - Len(a)]
    OBVIOUS
  <2>1. i \in 1 .. Len(a) \/ (i - Len(a) \in 1 .. Len(b) /\ Len(a) + (i - Len(a)) = i)
    BY <1>0, <1>1
  <2> QED BY <1>1, <2>1
<1>3. RowsOnly(z, R)
  BY <1>0, <1>1, <1>2 DEF RowsOnly
<1>4. ASSUME b # <<>> PROVE z # <<>> /\ z[Len(z)] = b[Len(b)] /\ Len(b) \in 1 .. Len(b) /\ 1 \in 1 .. Len(b)
  <2>1. Len(b) > 0
    BY <1>0, <1>4
  <2>2. Len(z) > 0 /\ Len(b) \in 1 .. Len(b) /\ 1 \in 1 .. Len(b)
    BY <1>0, <1>1, <2>1
  <2> QED BY <1>1, <2>2
<1>5. ASSUME a # <<>>, b # <<>>, Segment(a, R), a[Len(a)] > 0, Continues(b, a[Len(a)], R)
      PROVE  Segment(z, R)
  <2>0. /\ Segment(b, R) /\ a[Len(a)] < b[1]
        /\ \A r \in R : a[Len(a)] < r => b[1] <= r
    BY <1>5 DEF Continues
  <2>1. Len(a) \in 1 .. Len(a) /\ 1 \in 1 .. Len(a) /\ 1 \in 1 .. Len(b) /\ Len(b) \in 1 .. Len(b)
        /\ z[1] = a[1] /\ z[Len(z)] = b[Len(b)]
    BY <1>0, <1>1, <1>4, <1>5
  <2>2. ASSUME NEW i \in 1 .. Len(a) PROVE a[i] <= a[Len(a)]
    <3>1. CASE i = Len(a)
      BY <1>0, <3>1
    <3>2. CASE i # Len(a)
      <4>1. i < Len(a)
        BY <1>0, <3>2
      <4>2. a[i] < a[Len(a)]
        BY <1>5, <2>1, <4>1 DEF Segment
      <4> QED BY <1>0, <2>1, <4>2
    <3> QED BY <3>1, <3>2
  <2>3. ASSUME NEW j \in 1 .. Len(b) PROVE b[1] <= b[j]
    <3>1. j = 1 \/ 1 < j
      BY <1>0
    <3> QED BY <1>0, <2>0, <2>1, <3>1 DEF Segment
  <2>4. ASSUME NEW i \in 1 .. Len(z), NEW j \in 1 .. Len(z), i < j PROVE z[i] < z[j]
    <3>1. CASE i \in 1 .. Len(a) /\ z[i] = a[i] /\ j \in 1 .. Len(a) /\ z[j] = a[j]
      BY <1>5, <2>4, <3>1 DEF Segment
    <3>2. CASE /\ i - Len(a) \in 1 .. Len(b) /\ z[i] = b[i - Len(a)]
               /\ j - Len(a) \in 1 .. Len(b) /\ z[j] = b[j - Len(a)]
      <4>1. i - Len(a) < j - Len(a)
        BY <1>0, <2>4
      <4> QED BY <2>0, <3>2, <4>1 DEF Segment
    <3>3. CASE i \in 1 .. Len(a) /\ z[i] = a[i] /\ j - Len(a) \in 1 .. Len(b) /\ z[j] = b[j - Len(a)]
      <4>1. a[i] <= a[Len(a)] /\ b[1] <= b[j - Len(a)]
        BY <2>2, <2>3, <3>3
      <4>2. a[i] \in Nat /\ a[Len(a)] \in Nat /\ b[1] \in Nat /\ b[j - Len(a)] \in Nat
        BY <1>0, <2>1, <3>3
      <4>3. a[i] < b[j - Len(a)]
        BY <2>0, <4>1, <4>2
      <4> QED BY <3>3, <4>3
    <3>4. ~(i - Len(a) \in 1 .. Len(b) /\ j \in 1 .. Len(a))
      BY <1>0, <2>4
    <3> QED BY <1>2, <3>1, <3>2, <3>3, <3>4
  <2>5. ASSUME NEW r \in R, z[1] <= r, r <= z[Len(z)] PROVE \E i \in 1 .. Len(z) : r = z[i]
    <3>0. r \in Nat /\ a[Len(a)] \in Nat
      BY <1>0, <2>1
    <3>1. CASE r <= a[Len(a)]
      <4>1. PICK i \in 1 .. Len(a) : r = a[i]
        BY <1>5, <2>1, <2>5, <3>1 DEF Segment
      <4>2. i \in 1 .. Len(z)
        BY <1>0, <1>1
      <4> QED BY <1>1, <4>1, <4>2
    <3>2. CASE a[Len(a)] < r
      <4>1. PICK i \in 1 .. Len(b) : r = b[i]
        BY <2>0, <2>1, <2>5, <3>2 DEF Segment
      <4>2. Len(a) + i \in 1 .. Len(z)
        BY <1>0, <1>1
      <4> QED BY <1>1, <4>1, <4>2
    <3> QED BY <3>0, <3>1, <3>2
  <2> QED BY <2>4, <2>5 DEF Segment
<1> QED BY <1>3, <1>4, <1>5 DEF z

\* The answer to a tick is shown.
LEMMA AnswerStep ==
  ASSUME LogInv, Log!Answer
  PROVE  LogInv'
<1>0. LogTypes /\ Asked /\ InStep
  BY DEF LogInv
<1>1. ticks \in Seq(TickCalls) /\ Len(ticks) \in Nat /\ DOMAIN ticks = 1 .. Len(ticks) /\ cursor \in Nat
      /\ RowsOnly(lines, Shown)
  BY <1>0 DEF LogTypes
<1>2. PICK i \in 1 .. Len(ticks) :
        /\ ticks[i].reply # Unanswered
        /\ ticks' = SubSeq(ticks, 1, i - 1) \o SubSeq(ticks, i + 1, Len(ticks))
        /\ cursor' = Log!NewCursor(ticks[i])
        /\ lines' = Log!Capped(lines \o ticks[i].reply)
  BY <1>1 DEF Log!Answer, Log!RemoveAt
<1>3. UNCHANGED <<mounted, selection, paused, logged, disturbed>> /\ first' = FALSE
  BY DEF Log!Answer, Log!view
<1>4. Shown' = Shown /\ Shown \subseteq Nat
  BY <1>3 DEF Shown, Log!RowsOf, Log!Rows
<1> DEFINE rows == ticks[i].reply
           z == lines \o rows
<1>5. RowsOnly(rows, Shown) /\ ticks[i].after \in Nat
  <2>1. ticks[i] \in TickCalls
    BY <1>1
  <2> QED BY <1>0, <1>2, <2>1 DEF Asked, TickCalls
<1> HIDE DEF Shown, rows
<1>6. /\ ticks' \in Seq(TickCalls) /\ Len(ticks') = Len(ticks) - 1
      /\ \A n \in 1 .. Len(ticks') : \E m \in 1 .. Len(ticks) : ticks'[n] = ticks[m]
  <2>1. /\ ticks' \in Seq(TickCalls) /\ Len(ticks') = Len(ticks) - 1
        /\ \A n \in 1 .. Len(ticks) - 1 : ticks'[n] = IF n < i THEN ticks[n] ELSE ticks[n + 1]
    BY <1>1, <1>2, Removed
  <2>2. \A n \in 1 .. Len(ticks') : \E m \in 1 .. Len(ticks) : ticks'[n] = ticks[m]
    BY <1>1, <2>1
  <2> QED BY <2>1, <2>2
<1>7. /\ RowsOnly(z, Shown)
      /\ rows # <<>> => z # <<>> /\ z[Len(z)] = rows[Len(rows)]
      /\ lines # <<>> /\ rows # <<>> /\ Segment(lines, Shown) /\ lines[Len(lines)] > 0
         /\ Continues(rows, lines[Len(lines)], Shown) => Segment(z, Shown)
  BY <1>1, <1>4, <1>5, SegmentJoined
<1>8. lines' = Log!Capped(z)
  BY <1>2 DEF rows
<1> HIDE DEF z
<1>9. /\ RowsOnly(lines', Shown) /\ Len(lines') <= LogCap
      /\ z # <<>> => lines' # <<>> /\ lines'[Len(lines')] = z[Len(z)]
      /\ z # <<>> /\ Segment(z, Shown) => Segment(lines', Shown)
  BY <1>4, <1>7, <1>8, CappedKeeps
<1>10. cursor' = LET c == IF rows = <<>> THEN ticks[i].after ELSE rows[Len(rows)] IN
                 IF c = 0 THEN cursor ELSE c
  BY <1>2 DEF Log!NewCursor, Log!CursorOf, Log!Last, rows
<1>11. rows # <<>> => rows[Len(rows)] \in Shown
  <2>1. rows \in Seq(Nat) /\ (rows # <<>> => Len(rows) \in 1 .. Len(rows))
    BY <1>5 DEF RowsOnly
  <2> QED BY <1>5, <2>1 DEF RowsOnly
<1>12. LogTypes'
  <2>1. cursor' \in Nat
    BY <1>1, <1>4, <1>5, <1>10, <1>11
  <2> QED BY <1>0, <1>3, <1>4, <1>6, <1>9, <2>1 DEF LogTypes
<1>13. Asked'
  BY <1>0, <1>3, <1>4, <1>6 DEF Asked
<1>14. InStep'
  <2> SUFFICES ASSUME ~disturbed PROVE InStep'
    BY <1>3 DEF InStep
  <2>1. Len(ticks') = 0
    BY <1>0, <1>1, <1>6 DEF InStep
  <2>2. ticks[i].after = cursor /\ (rows # <<>> => Continues(rows, cursor, Shown))
    BY <1>0, <1>2 DEF InStep, rows
  <2>3. CASE rows = <<>>
    <3>1. z = lines /\ cursor' = cursor
      <4>1. lines \o <<>> = lines
        BY <1>1 DEF RowsOnly
      <4> QED BY <1>10, <2>2, <2>3, <4>1 DEF z
    <3>2. lines' = lines
      BY <1>0, <1>1, <1>8, <3>1, LogAssumption DEF LogTypes, RowsOnly, Log!Capped
    <3> QED BY <1>0, <1>3, <1>4, <2>1, <3>1, <3>2 DEF InStep
  <2>4. CASE rows # <<>>
    <3>1. z # <<>> /\ z[Len(z)] = rows[Len(rows)] /\ Continues(rows, cursor, Shown)
      BY <1>7, <2>2, <2>4
    <3>2. rows[Len(rows)] # 0 /\ cursor' = rows[Len(rows)]
      <4>1. rows[Len(rows)] # 0
        BY <1>11, <2>4 DEF Shown, Log!RowsOf, Log!Rows
      <4> QED BY <1>10, <2>4, <4>1
    <3>3. Segment(z, Shown)
      <4>1. CASE lines = <<>>
        <5>1. z = rows
          <6>1. <<>> \o rows = rows
            BY <1>5 DEF RowsOnly
          <6> QED BY <4>1, <6>1 DEF z
        <5> QED BY <3>1, <5>1 DEF Continues
      <4>2. CASE lines # <<>>
        <5>1. Segment(lines, Shown) /\ cursor = lines[Len(lines)]
          BY <1>0, <4>2 DEF InStep
        <5>2. lines[Len(lines)] \in Shown
          <6>1. lines \in Seq(Nat) /\ Len(lines) \in 1 .. Len(lines)
            BY <1>1, <4>2 DEF RowsOnly
          <6> QED BY <1>1, <6>1 DEF RowsOnly
        <5>3. lines[Len(lines)] > 0
          BY <5>2 DEF Shown, Log!RowsOf, Log!Rows
        <5> QED BY <1>7, <2>4, <3>1, <4>2, <5>1, <5>3
      <4> QED BY <4>1, <4>2
    <3>4. lines' # <<>> /\ Segment(lines', Shown') /\ cursor' = lines'[Len(lines')]
      BY <1>4, <1>9, <3>1, <3>2, <3>3
    <3> QED BY <1>3, <2>1, <3>4 DEF InStep
  <2> QED BY <2>3, <2>4
<1> QED BY <1>12, <1>13, <1>14 DEF LogInv

LEMMA LogStutter == LogInv /\ UNCHANGED Log!vars => LogInv'
<1> SUFFICES ASSUME LogInv, UNCHANGED Log!vars PROVE LogInv'
  OBVIOUS
<1>1. UNCHANGED <<mounted, selection, paused, lines, cursor, first, ticks, logged, disturbed>>
  BY DEF Log!vars, Log!view
<1>2. Shown' = Shown
  BY <1>1 DEF Shown, Log!RowsOf, Log!Rows
<1>3. LogTypes'
  <2>1. RowsOnly(lines', Shown')
    BY <1>1, <1>2 DEF LogInv, LogTypes
  <2> QED BY <1>1, <2>1 DEF LogInv, LogTypes
<1> QED BY <1>1, <1>2, <1>3 DEF LogInv, Asked, InStep

LEMMA LogNext == LogInv /\ [Log!Next]_(Log!vars) => LogInv'
BY LogStep, EffectStep, TickStep, AnswerStep, LogStutter DEF Log!Next

LEMMA AlwaysLog == Spec => [](OnLog => LogInv)
<1>1. Init => (OnLog => LogInv)
  BY InitPages, InitLog
<1>2. (OnLog => LogInv) /\ [Next]_vars => (OnLog => LogInv)'
  <2> SUFFICES ASSUME OnLog => LogInv, [Next]_vars, OnLog'
               PROVE  LogInv'
    OBVIOUS
  <2>1. OnLog
    BY OnePage DEF OnLog
  <2> QED BY <2>1, OnePage, LogNext
<1> QED BY <1>1, <1>2, PTL DEF Spec

\* Dashboard.LogShown: what is on display is of the selection on display, and while
\* answers come before the next tick each row is there once and in order, with none
\* missing between the oldest line and the cursor (useLogStream.ts), for any number
\* of rows, rows per answer and lines on display.
THEOREM DashboardLogShown == Spec => []LogShown
<1>1. (OnLog => LogInv) => LogShown
  <2> SUFFICES ASSUME LogInv PROVE Log!LinesOfSelection /\ Log!EachRowOnce
    BY DEF LogShown
  <2>1. RowsOnly(lines, Shown) /\ lines \in Seq(Nat) /\ DOMAIN lines = 1 .. Len(lines)
    BY DEF LogInv, LogTypes, RowsOnly
  <2>2. Log!LinesOfSelection
    BY <2>1 DEF Log!LinesOfSelection, RowsOnly, Shown
  <2>3. ASSUME ~disturbed, lines # <<>>
        PROVE  /\ lines = Log!OldestFirst({r \in Shown : lines[1] <= r /\ r <= lines[Len(lines)]})
               /\ cursor = lines[Len(lines)]
    <3> DEFINE S == {r \in Shown : lines[1] <= r /\ r <= lines[Len(lines)]}
    <3>1. Segment(lines, Shown) /\ cursor = lines[Len(lines)]
      BY <2>3 DEF LogInv, InStep
    <3>2. Len(lines) \in Nat /\ 1 \in 1 .. Len(lines) /\ Len(lines) \in 1 .. Len(lines)
      BY <2>1, <2>3
    <3>3. ASSUME NEW i \in 1 .. Len(lines)
          PROVE  lines[i] \in Shown /\ lines[1] <= lines[i] /\ lines[i] <= lines[Len(lines)]
      <4>1. lines[i] \in Shown /\ lines[i] \in Nat /\ lines[1] \in Nat /\ lines[Len(lines)] \in Nat
        BY <2>1, <3>2 DEF RowsOnly
      <4>2. CASE i = 1
        <5>1. Len(lines) = 1 \/ 1 < Len(lines)
          BY <3>2
        <5> QED BY <3>1, <3>2, <4>1, <4>2, <5>1 DEF Segment
      <4>3. CASE i = Len(lines)
        <5>1. Len(lines) = 1 \/ 1 < Len(lines)
          BY <3>2
        <5> QED BY <3>1, <3>2, <4>1, <4>3, <5>1 DEF Segment
      <4>4. CASE 1 < i /\ i < Len(lines)
        BY <3>1, <3>2, <4>1, <4>4 DEF Segment
      <4>5. i = 1 \/ i = Len(lines) \/ (1 < i /\ i < Len(lines))
        BY <3>2
      <4> QED BY <4>2, <4>3, <4>4, <4>5
    <3>4. S = {lines[i] : i \in 1 .. Len(lines)}
      BY <3>1, <3>3 DEF Segment
    <3>5. \A i, j \in 1 .. Len(lines) : i < j => lines[i] < lines[j]
      BY <3>1 DEF Segment
    <3> HIDE DEF S
    <3>6. lines = Log!OldestFirst(S)
      BY <2>1, <3>4, <3>5, AscendingIsOldestFirst
    <3> QED BY <3>1, <3>6 DEF S
  <2>4. Log!EachRowOnce
    BY <2>3 DEF Log!EachRowOnce, Log!Last, Shown
  <2> QED BY <2>2, <2>4
<1> QED BY <1>1, AlwaysLog, PTL

\* Dashboard.TypeOK: every variable of the page on screen has its type, for any
\* instances of the pages.
THEOREM DashboardTypes == Spec => []TypeOK
<1>1. LogInv => Log!TypeOK
  <2> SUFFICES ASSUME LogInv PROVE Log!TypeOK
    OBVIOUS
  <2>1. LogTypes
    BY DEF LogInv
  <2>2. lines \in Seq(Nat) /\ \A i \in DOMAIN lines : lines[i] \in Log!Rows
    BY <2>1 DEF LogTypes, RowsOnly, Shown, Log!RowsOf
  <2>3. \A i \in DOMAIN ticks : ticks[i].for \in Selections /\ ticks[i].after \in Nat
    <3>1. \A i \in DOMAIN ticks : ticks[i] \in TickCalls
      BY <2>1 DEF LogTypes
    <3> QED BY <3>1 DEF TickCalls
  <2> QED BY <2>1, <2>2, <2>3 DEF LogTypes, Log!TypeOK
<1>2. Spec => [](onScreen \in Screens)
  <2>1. Init => onScreen \in Screens
    BY DEF Init
  <2>2. onScreen \in Screens /\ [Next]_vars => (onScreen \in Screens)'
    BY OnePage DEF Screens
  <2> QED BY <2>1, <2>2, PTL DEF Spec
<1>3. /\ onScreen \in Screens /\ AllFiles /\ (OnLog => LogInv) /\ AllErrors /\ AllForms
      /\ (OnCreds => CredTypes) /\ NoTimerOnError /\ LoginInv
      => TypeOK
  <2> SUFFICES ASSUME onScreen \in Screens, AllFiles, OnLog => LogInv, AllErrors, AllForms,
                      OnCreds => CredTypes, NoTimerOnError, LoginInv
               PROVE  TypeOK
    OBVIOUS
  <2>1. \A k \in DOMAIN Checkouts : OnFiles(k) => Browser(k)!TypeOK
    BY FileTypeOK DEF AllFiles, FilesInv
  <2>2. \A k \in DOMAIN ErrorLists : OnErrors(k) => ErrorList(k)!TypeOK
    BY DEF AllErrors, ErrorsInv
  <2>3. \A k \in DOMAIN Forms : OnNotifications(k) => Notif(k)!TypeOK
    BY FormTypeOK DEF AllForms, FormInv
  <2>4. (OnCreds => Creds!TypeOK) /\ Login!TypeOK
    BY CredTypeOK DEF LoginInv
  <2> QED BY <1>1, <2>1, <2>2, <2>3, <2>4 DEF TypeOK
<1> QED BY <1>2, <1>3, AlwaysFiles, AlwaysLog, AlwaysErrors, AlwaysForms, AlwaysCreds, AlwaysNoTimer,
           AlwaysLogin, PTL
=============================================================================
