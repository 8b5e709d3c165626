----------------------------- MODULE SavedApps -----------------------------
(***************************************************************************)
(* The saved list of apps: store.Save and Load (internal/store), the       *)
(* daemon's operations that save (Save, UpdateEnv, a fleet start or         *)
(* delete, a deploy's Launch), those that do not, and a crash of the        *)
(* daemon with the boot after it.                                           *)
(*                                                                         *)
(* Handlers run side by side and no lock is held while saving, so that     *)
(* every system call of Save is a step.  Files are inodes: who has opened   *)
(* dump.json.tmp writes into it also when it has been renamed.  The file    *)
(* system itself does not fail.  Definitions headed "Slip" are plausible   *)
(* mistakes; nothing here uses them.                                       *)
(***************************************************************************)
EXTENDS Naturals

CONSTANTS
  Savers,  \* handlers and goroutines that save
  Names,   \* app names
  Specs,   \* what an app can be configured as
  Inodes,  \* of dump.json and its temporary file
  None,    \* no app, no file
  Open,    \* nothing promised
  Empty,   \* the content of a file that was truncated
  Garbled  \* the content of a file with parts of two lists

Lists == [Names -> Specs \cup {None}]

ASSUME NoneAssumption == None \notin Names \cup Specs \cup Inodes
ASSUME OpenAssumption == Open \notin Specs \cup {None}
ASSUME ContentAssumption == Empty \notin Lists /\ Garbled \notin Lists

VARIABLES
  up,        \* the daemon runs
  apps,      \* m.apps: name -> its spec
  dump,      \* the inode of dump.json
  tmp,       \* the inode of dump.json.tmp
  file,      \* inode -> its content
  saver,     \* saver -> where it is in its operation
  sound,     \* history: the save that dump.json comes from met no other
  promised   \* history: name -> what a finished operation has saved for it

vars == <<up, apps, dump, tmp, file, saver, sound, promised>>

NoApps == [n \in Names |-> None]

Contents == Lists \cup {Empty, Garbled}

Places == {"idle", "changed", "taken", "opened", "written", "renamed", "loaded"}
Saver == [pc : Places, own : Names \cup {None}, list : Lists, fd : Inodes \cup {None}, alone : BOOLEAN]
Idle == [pc |-> "idle", own |-> None, list |-> NoApps, fd |-> None, alone |-> TRUE]

\* Between Specs and the end of Save.
Busy(c) == saver[c].pc \in {"taken", "opened", "written", "renamed"}
At(c, place) == up /\ saver[c].pc = place

\* Every variable has its type.
TypeOK ==
  /\ up \in BOOLEAN /\ sound \in BOOLEAN
  /\ apps \in Lists
  /\ dump \in Inodes \cup {None} /\ tmp \in Inodes \cup {None}
  /\ file \in [Inodes -> Contents]
  /\ saver \in [Savers -> Saver]
  /\ promised \in [Names -> Specs \cup {None, Open}]

Init ==
  /\ up = TRUE /\ sound = TRUE
  /\ apps = NoApps
  /\ dump = None /\ tmp = None
  /\ file = [i \in Inodes |-> Empty]
  /\ saver = [c \in Savers |-> Idle]
  /\ promised = [n \in Names |-> Open]

\* Load: a missing file is an empty list, a broken one an error.
Saved == IF dump = None THEN NoApps ELSE file[dump]

-----------------------------------------------------------------------------
(* Changes of the list. *)

\* The manager starts, updates or deletes an app.
Change(n, s) ==
  /\ apps[n] # s
  /\ apps' = [apps EXCEPT ![n] = s]
  /\ promised' = [promised EXCEPT ![n] = Open]

\* The daemon's own Start and Delete, which save nothing, and a fleet start that
\* fails at a later app: doStart returns its error before Save.
LocalChange ==
  /\ up
  /\ \E n \in Names, s \in Specs \cup {None} : Change(n, s)
  /\ UNCHANGED <<up, dump, tmp, file, saver, sound>>

\* A fleet start or delete, UpdateEnv or a deploy's Launch, which will save.
SavedChange(c) ==
  /\ At(c, "idle")
  /\ \E n \in Names, s \in Specs \cup {None} :
       /\ Change(n, s)
       /\ saver' = [saver EXCEPT ![c] = [Idle EXCEPT !.pc = "changed", !.own = n]]
  /\ UNCHANGED <<up, dump, tmp, file, sound>>

-----------------------------------------------------------------------------
(* Save. *)

\* mgr.Specs() copies the list; Save makes its bytes.  From "idle" it is the RPC.
Take(c) ==
  /\ At(c, "idle") \/ At(c, "changed")
  /\ LET alone == \A d \in Savers \ {c} : ~Busy(d) IN
     /\ saver' = [d \in Savers |->
          IF d = c THEN [saver[c] EXCEPT !.pc = "taken", !.list = apps, !.alone = alone]
          ELSE IF Busy(d) THEN [saver[d] EXCEPT !.alone = FALSE]
          ELSE saver[d]]
     /\ sound' = (sound /\ alone)
  /\ UNCHANGED <<up, apps, dump, tmp, file, promised>>

Unused(i) == i \notin {dump, tmp} /\ \A c \in Savers : saver[c].fd # i

\* WriteFile opens dump.json.tmp and truncates it, or creates it.
OpenTmp(c) ==
  /\ At(c, "taken")
  /\ tmp = None => \E i \in Inodes : Unused(i)
  /\ LET i == IF tmp # None THEN tmp ELSE CHOOSE i \in Inodes : Unused(i) IN
     /\ tmp' = i
     /\ file' = [file EXCEPT ![i] = Empty]
     /\ saver' = [saver EXCEPT ![c].pc = "opened", ![c].fd = i]
  /\ UNCHANGED <<up, apps, dump, sound, promised>>

\* one is many without some of its apps.
Fewer(one, many) == \A n \in Names : one[n] \in {None, many[n]}

\* What a file may hold when a list has been written at its start: what was longer
\* keeps its end, and a change of specs may be longer or shorter.
Overwritten(old, list) ==
  IF old = Empty THEN {list}
  ELSE IF old = Garbled THEN {list, Garbled}
  ELSE {new \in {list, Garbled} : IF Fewer(old, list) THEN new = list
                                  ELSE Fewer(list, old) => new = Garbled}

\* The rest of WriteFile, which closes the file.
WriteTmp(c) ==
  /\ At(c, "opened")
  /\ LET i == saver[c].fd IN
     \E new \in Overwritten(file[i], saver[c].list) :
       file' = [file EXCEPT ![i] = IF i \in {dump, tmp} THEN new ELSE Empty]
  /\ saver' = [saver EXCEPT ![c].pc = "written", ![c].fd = None]
  /\ UNCHANGED <<up, apps, dump, tmp, sound, promised>>

\* A file that has lost its name is gone, once nobody has it open.
Unlinked(i) ==
  IF i = None \/ \E c \in Savers : saver[c].fd = i THEN file ELSE [file EXCEPT ![i] = Empty]

\* Slip: the temporary file is removed before it is renamed; nobody reads the error.
RemoveFirst(c) ==
  /\ At(c, "written")
  /\ tmp' = None
  /\ file' = Unlinked(tmp)
  /\ saver' = [saver EXCEPT ![c].pc = "renamed"]
  /\ sound' = (sound \/ saver[c].alone)
  /\ UNCHANGED <<up, apps, dump, promised>>

\* Rename puts whatever has the temporary name in dump.json's place, or fails
\* because there is none any more.
Rename(c) ==
  /\ At(c, "written")
  /\ IF tmp = None
       THEN UNCHANGED <<dump, tmp, file>>
       ELSE dump' = tmp /\ tmp' = None /\ file' = Unlinked(dump)
  /\ saver' = [saver EXCEPT ![c].pc = "renamed"]
  /\ sound' = (sound \/ saver[c].alone)
  /\ UNCHANGED <<up, apps, promised>>

\* The deferred os.Remove(tmp), then the answer.  All callers but the RPCs Save
\* and UpdateEnv ignore Save's error.
Return(c) ==
  /\ At(c, "renamed")
  /\ tmp' = None
  /\ file' = Unlinked(tmp)
  /\ saver' = [saver EXCEPT ![c] = Idle]
  /\ LET n == saver[c].own IN
     promised' = IF n # None /\ apps[n] = saver[c].list[n]
                   THEN [promised EXCEPT ![n] = apps[n]] ELSE promised
  /\ UNCHANGED <<up, apps, dump, sound>>

-----------------------------------------------------------------------------
(* Load. *)

\* Resurrect reads the list ...
LoadList(c) ==
  /\ At(c, "idle")
  /\ Saved \in Lists
  /\ saver' = [saver EXCEPT ![c] = [Idle EXCEPT !.pc = "loaded", !.list = Saved]]
  /\ UNCHANGED <<up, apps, dump, tmp, file, sound, promised>>

\* What becomes of the promises when apps come back from a list read earlier.
Broken(new) == [n \in Names |-> IF new[n] = apps[n] THEN promised[n] ELSE Open]

\* ... and adds the apps that are not running.
AddLoaded(c) ==
  /\ At(c, "loaded")
  /\ LET new == [n \in Names |-> IF apps[n] # None THEN apps[n] ELSE saver[c].list[n]] IN
     /\ apps' = new
     /\ promised' = Broken(new)
  /\ saver' = [saver EXCEPT ![c] = Idle]
  /\ UNCHANGED <<up, dump, tmp, file, sound>>

\* The daemon is killed; the files stay as they are.
Crash ==
  /\ up
  /\ up' = FALSE
  /\ apps' = NoApps
  /\ saver' = [c \in Savers |-> Idle]
  /\ UNCHANGED <<dump, tmp, file, sound, promised>>

\* Slip: what could be decoded of a broken file is used.
BootAnyway ==
  /\ ~up
  /\ up' = TRUE
  /\ apps' = Saved
  /\ promised' = [n \in Names |-> IF sound THEN promised[n] ELSE Open]
  /\ UNCHANGED <<dump, tmp, file, saver, sound>>

\* daemon.Run adds the saved apps, none when the list cannot be read.
Boot ==
  /\ ~up
  /\ up' = TRUE
  /\ apps' = (IF Saved \in Lists THEN Saved ELSE NoApps)
  /\ promised' = [n \in Names |-> IF sound THEN promised[n] ELSE Open]
  /\ UNCHANGED <<dump, tmp, file, saver, sound>>

-----------------------------------------------------------------------------
SaveStep(c) == Take(c) \/ OpenTmp(c) \/ WriteTmp(c) \/ Rename(c) \/ Return(c)

Next ==
  \/ \E c \in Savers : SavedChange(c) \/ SaveStep(c) \/ LoadList(c) \/ AddLoaded(c)
  \/ LocalChange \/ Crash \/ Boot

Spec == Init /\ [][Next]_vars

-----------------------------------------------------------------------------
(* Properties. *)

\* Whatever crashes when, the daemon finds a whole list, unless two saves met in
\* the one dump.json comes from.
Restorable == sound => Saved \in Lists

\* store.Save: "writes app definitions to dump.json atomically", so that saves that
\* met leave a whole list behind too.
SaveAtomic == (\A c \in Savers : ~Busy(c)) => Saved \in Lists

\* What a fleet start, a fleet delete, UpdateEnv or a deploy has saved survives:
\* the list is whole and has it and, after a crash and the boot, so have the apps,
\* until somebody changes the app.
PromiseKept ==
  /\ Restorable
  /\ sound => \A n \in Names : promised[n] # Open =>
       Saved[n] = promised[n] /\ (up => apps[n] = promised[n])
=============================================================================
