---------------------------- MODULE FileBrowser ----------------------------
(***************************************************************************)
(* The file browser of a process page (web/src/FileBrowser.tsx): it lists  *)
(* a directory of the app's checkout, opens a file in an editor, and saves, *)
(* creates, deletes and renames files, each with a commit that the agent    *)
(* pushes.  Calls are asked, served and answered in steps of their own, and *)
(* any may fail, so that an answer meets a browser that has moved on.       *)
(*                                                                         *)
(* A path is the sequence of its names.  What a function closed over when   *)
(* the user clicked travels with its call.  Definitions headed "Slip" are   *)
(* plausible mistakes; nothing here uses them.                              *)
(***************************************************************************)
EXTENDS Sequences, FiniteSets, Integers

CONSTANTS
  Paths,         \* the paths of files: bound on create and rename
  Prompted,      \* the names a user types
  EmptyFolders,  \* directories a build left behind with nothing in them
  Binary,        \* files that are shown but not edited
  FirstFiles,    \* the checkout's files at first
  MaxDepth,      \* bound: directories are looked into to this depth
  MaxReads,      \* bound: files being read at once
  MaxCommits,    \* bound: commits under way at once
  MaxAbandoned,  \* bound: commits left behind unexecuted
  Unserved, Failed, Nothing

VARIABLES
  mounted,   \* on the page, away, or replaced by the error boundary
  path, entries, open, draft, msg, busy, dialog,   \* the component's state
  listings, reads, commits,                        \* its calls
  listed,    \* history: the listing last asked for has been shown
  untold,    \* history: since it was asked for, the checkout changed by a
             \* commit whose success this browser will not learn
  tree       \* the files of the app's checkout

editor == <<open, draft, msg>>
calls == <<listings, reads, commits>>
vars == <<mounted, path, entries, editor, busy, dialog, calls, listed, untold, tree>>

-----------------------------------------------------------------------------
\* One path starts with another.  (SequencesExt, which has these, is not for the
\* modules that Dashboard takes with parameters: tlapm does not instantiate it.)
IsPrefix(d, p) == Len(d) <= Len(p) /\ SubSeq(p, 1, Len(d)) = d
IsStrictPrefix(d, p) == IsPrefix(d, p) /\ d # p

\* A text: the file it was read from, and whether the user has typed since.
Text(p, typed) == [of |-> p, typed |-> typed]
IsText(x) == x.of \in Paths /\ x.typed \in BOOLEAN

Under(d) == {p \in tree \cup EmptyFolders : IsStrictPrefix(d, p)}
IsFolder(d) == d = <<>> \/ d \in EmptyFolders \/ Under(d) # {}

\* What ListDir returns of a directory.
Names(d) == {[name |-> p[Len(d) + 1], dir |-> SubSeq(p, 1, Len(d) + 1) \notin tree] :
             p \in Under(d)}

Ops == {"save", "create", "delete", "rename"}

\* Every variable has its type.
TypeOK ==
  /\ mounted \in {"here", "away", "crashed"}
  /\ path \in Seq(STRING)
  /\ \A e \in entries : e.name \in STRING /\ e.dir \in BOOLEAN
  /\ open # Nothing =>
       /\ open.path \in Paths /\ IsText(open.text) /\ IsText(draft)
       /\ msg \in Paths
  /\ busy \in BOOLEAN /\ listed \in BOOLEAN /\ untold \in BOOLEAN
  /\ dialog.kind \in {"none", "newfile", "delete", "rename"}
  /\ \A l \in listings : l.path \in Seq(STRING) /\ l.live \in BOOLEAN
  /\ reads \subseteq Seq(STRING)
  /\ \A c \in commits : c.op \in Ops /\ c.live \in BOOLEAN
  /\ tree \subseteq Paths

-----------------------------------------------------------------------------
(* Mounting.  A component that is gone ignores the answers to its calls;    *)
(* the commits among them are executed all the same.                        *)

Ask(d) == [path |-> d, live |-> TRUE, reply |-> Unserved]
NoDialog == [kind |-> "none"]

\* Slip: the effect's cleanup does not set stop.
StopForgotten == listings

\* The listings that are still answered once the effect has run again.
Stopped == {}

\* useEffect [path, reload].
List(d) ==
  /\ listings' = Stopped \cup {Ask(d)}
  /\ listed' = FALSE /\ untold' = FALSE

Init ==
  /\ mounted = "here" /\ path = <<>> /\ entries = {}
  /\ open = Nothing /\ draft = Nothing /\ msg = Nothing
  /\ busy = FALSE /\ dialog = NoDialog
  /\ listings = {Ask(<<>>)} /\ reads = {} /\ commits = {} /\ listed = FALSE /\ untold = FALSE
  /\ tree = FirstFiles

\* Unmounted: the next browser starts afresh.
Unmount ==
  /\ path' = <<>> /\ entries' = {} /\ open' = Nothing /\ draft' = Nothing /\ msg' = Nothing
  /\ busy' = FALSE /\ dialog' = NoDialog
  /\ listings' = {} /\ reads' = {} /\ listed' = FALSE /\ untold' = FALSE
  /\ commits' = {[c EXCEPT !.live = FALSE] : c \in {c \in commits : c.reply = Unserved}}
  /\ UNCHANGED tree

Leave ==
  /\ mounted = "here" /\ mounted' = "away" /\ Unmount
  /\ Cardinality(commits') <= MaxAbandoned

\* Back on the page, or after a reload of one that crashed.
Return ==
  /\ mounted # "here" /\ mounted' = "here"
  /\ List(<<>>)
  /\ UNCHANGED <<path, entries, editor, busy, dialog, reads, commits, tree>>

-----------------------------------------------------------------------------
(* Looking.  A modal dialog covers the page. *)

AtPage == mounted = "here" /\ dialog = NoDialog

\* A directory of the list, a crumb, or ../
Go ==
  /\ AtPage
  /\ path' \in {SubSeq(path, 1, i) : i \in 0 .. Len(path)}
               \cup {Append(path, e.name) : e \in {e \in entries : e.dir}}
  /\ Len(path') <= MaxDepth
  /\ open' = Nothing
  /\ IF path' # path THEN List(path') ELSE UNCHANGED <<listings, listed, untold>>
  /\ UNCHANGED <<mounted, entries, draft, msg, busy, dialog, reads, commits, tree>>

\* onEntry of a file.  The entries may still be those of another directory.
OpenFile ==
  /\ AtPage
  /\ Cardinality(reads) < MaxReads
  /\ \E e \in entries : ~e.dir /\
       reads' = reads \cup {Append(path, e.name)}
  /\ UNCHANGED <<mounted, path, entries, editor, busy, dialog, listings, commits, listed, untold, tree>>

Editable == open # Nothing /\ open.path \notin Binary

\* CodeMirror's onChange.  The user keeps the commit message that is offered.
Type ==
  /\ AtPage /\ Editable
  /\ draft' = [draft EXCEPT !.typed = ~@]
  /\ UNCHANGED <<mounted, path, entries, open, msg, busy, dialog, calls, listed, untold, tree>>

-----------------------------------------------------------------------------
(* Committing: onSave, commitNewFile, commitDelete and commitRename. *)

\* Slip: of the buttons only save & push looks at busy.
RowsIgnoreBusy == TRUE

RowsEnabled == ~busy

OpenDialog ==
  /\ AtPage /\ RowsEnabled
  /\ \/ dialog' = [kind |-> "newfile"]
     \/ \E e \in entries : dialog' = [kind |-> "rename", name |-> e.name]
     \/ \E e \in entries : ~e.dir /\ dialog' = [kind |-> "delete", name |-> e.name]
  /\ UNCHANGED <<mounted, path, entries, editor, busy, calls, listed, untold, tree>>

CloseDialog ==
  /\ mounted = "here" /\ dialog # NoDialog /\ dialog' = NoDialog
  /\ UNCHANGED <<mounted, path, entries, editor, listings, reads, listed, untold, tree>>

Cancel == CloseDialog /\ UNCHANGED <<busy, commits>>

\* The call knows the editor's file of the moment it was made: a save puts its
\* text back under it, a delete or rename of it closes it.
Commit(op, p, to, text) ==
  /\ Cardinality(commits) < MaxCommits
  /\ busy' = TRUE
  /\ commits' = commits \cup
       {[op |-> op, path |-> p, to |-> to, text |-> text, live |-> TRUE, reply |-> Unserved,
         closes |-> open # Nothing /\ open.path = p]}

Save ==
  /\ AtPage /\ Editable /\ ~busy /\ draft # open.text
  /\ Commit("save", open.path, open.path, draft)
  /\ UNCHANGED <<mounted, path, entries, editor, dialog, listings, reads, listed, untold, tree>>

Confirm ==
  /\ CloseDialog
  /\ \/ dialog.kind = "delete" /\
        LET p == Append(path, dialog.name) IN Commit("delete", p, p, Nothing)
     \/ \E n \in Prompted :
          LET to == Append(path, n) IN
          \/ dialog.kind = "newfile" /\ Commit("create", to, to, Nothing)
          \/ /\ dialog.kind = "rename"
             /\ IF n = dialog.name THEN UNCHANGED <<busy, commits>>
                ELSE Commit("rename", Append(path, dialog.name), to, Nothing)

-----------------------------------------------------------------------------
(* The agent: ListDir and mutateAndPush. *)

ServeListing(l) ==
  /\ l.reply = Unserved
  /\ \E reply \in {IF IsFolder(l.path) THEN Names(l.path) ELSE Failed, Failed} :
       listings' = (listings \ {l}) \cup {[l EXCEPT !.reply = reply]}
  /\ UNCHANGED <<mounted, path, entries, editor, busy, dialog, reads, commits, listed, untold, tree>>

\* git mv carries a directory's files along, and moves into a directory that has
\* the new name.
Target(c) == IF IsFolder(c.to) THEN Append(c.to, c.path[Len(c.path)]) ELSE c.to
Moved(c) == {p \in tree : IsPrefix(c.path, p)}
NewPath(c, p) == Target(c) \o SubSeq(p, Len(c.path) + 1, Len(p))

\* The checkout after a commit, when it is possible.
Committed(c) ==
  CASE c.op = "save" /\ c.path \in tree -> {tree}
    [] c.op = "delete" /\ c.path \in tree -> {tree \ {c.path}}
    [] c.op = "create" /\ ~IsFolder(c.path) -> {tree \cup {c.path}}
    [] /\ c.op = "rename" /\ Moved(c) # {}
       /\ Target(c) \notin tree /\ ~IsPrefix(c.path, Target(c)) ->
         {(tree \ Moved(c)) \cup {NewPath(c, p) : p \in Moved(c)}}
    [] OTHER -> {}

\* A commit that fails is rolled back, and rollback removes the path a create or
\* rename was to make, also when a file was there before.
RolledBack(c) == IF c.op \in {"create", "rename"} THEN tree \ {c.to} ELSE tree

\* A commit is pushed or fails; that it was pushed may not reach the browser.
ServeCommit(c) ==
  /\ c.reply = Unserved
  /\ \E reply \in {"pushed", Failed} :
       /\ tree' \in Committed(c) \cup IF reply = Failed THEN {tree, RolledBack(c)} ELSE {}
       /\ tree' \subseteq Paths
       /\ untold' = (untold \/ (tree' # tree /\ (reply = Failed \/ ~c.live)))
       /\ commits' = (commits \ {c}) \cup IF c.live THEN {[c EXCEPT !.reply = reply]} ELSE {}
  /\ UNCHANGED <<mounted, path, entries, editor, busy, dialog, listings, reads, listed>>

-----------------------------------------------------------------------------
(* Answers. *)

\* A directory without entries arrives as null, and rendering it throws.
ShowListing(l) ==
  /\ l.reply # Unserved
  /\ IF l.reply = {}
       THEN mounted' = "crashed" /\ Unmount
       ELSE /\ listings' = listings \ {l}
            /\ entries' = IF l.reply = Failed THEN entries ELSE l.reply
            /\ listed' = (l.reply # Failed)
            /\ UNCHANGED <<mounted, path, editor, busy, dialog, reads, commits, untold, tree>>

\* ReadFile and its answer, which may come after those of later clicks.
ShowFile(p) ==
  /\ reads' = reads \ {p}
  /\ \/ UNCHANGED editor
     \/ /\ p \in tree
        /\ open' = [path |-> p, text |-> Text(p, FALSE)]
        /\ draft' = Text(p, FALSE) /\ msg' = p
  /\ UNCHANGED <<mounted, path, entries, busy, dialog, listings, commits, listed, untold, tree>>

\* setReload, after a success only.
Reload(c) == IF c.reply = "pushed" THEN List(path) ELSE UNCHANGED <<listings, listed, untold>>

CommitDone(c) ==
  /\ c.live /\ c.reply # Unserved
  /\ commits' = commits \ {c}
  /\ busy' = FALSE
  /\ Reload(c)
  /\ open' = CASE c.reply = Failed -> open
               [] c.op = "save" -> [path |-> c.path, text |-> c.text]
               [] OTHER -> IF c.op # "create" /\ c.closes THEN Nothing ELSE open
  /\ UNCHANGED <<mounted, path, entries, draft, msg, dialog, reads, tree>>

Next ==
  \/ Leave \/ Return
  \/ Go \/ OpenFile \/ Type
  \/ OpenDialog \/ Cancel \/ Save \/ Confirm
  \/ \E l \in listings : ServeListing(l) \/ ShowListing(l)
  \/ \E p \in reads : ShowFile(p)
  \/ \E c \in commits : ServeCommit(c) \/ CommitDone(c)

Spec == Init /\ [][Next]_vars

-----------------------------------------------------------------------------
\* busy is a lock: it is held exactly while this browser has a commit under way,
\* that is one commit, and no dialog can start another.
BusyIsLock ==
  LET mine == {c \in commits : c.live} IN
  /\ Cardinality(mine) <= 1
  /\ busy <=> mine # {}
  /\ busy => dialog = NoDialog

\* Once the listing last asked for is shown, the entries are those of the
\* directory in the crumbs, with every commit of this browser in them: neither
\* the answer for a directory just left nor one served before a commit stays.
Listed ==
  mounted = "here" /\ listed /\ ~busy /\ ~untold => entries = Names(path)
=============================================================================
