-------------------------- MODULE SavedAppsProofs --------------------------
(***************************************************************************)
(* What SavedApps keeps, for any number of savers, apps and specs.          *)
(*                                                                         *)
(* A save that met no other has the temporary file to itself: it is the     *)
(* one it opened, truncated and filled, so that what is renamed is its      *)
(* list, and its list has whatever was promised before.                     *)
(***************************************************************************)
EXTENDS SavedApps, TLAPS

DownIsIdle == ~up => \A c \in Savers : saver[c] = Idle

TmpApart == tmp # None => tmp # dump

AloneMeets == \A c, d \in Savers : Busy(c) /\ saver[c].alone /\ Busy(d) => c = d

SoundAlone == sound => \A c \in Savers : Busy(c) => saver[c].alone

\* What has become of the list of a saver that met no other.
OwnFile(c) ==
  saver[c].alone =>
    /\ saver[c].pc = "opened" => tmp # None /\ saver[c].fd = tmp /\ file[tmp] = Empty
    /\ saver[c].pc = "written" => tmp # None /\ file[tmp] = saver[c].list
    /\ saver[c].pc = "renamed" => Saved = saver[c].list

\* Its list has what was promised.
ListKeeps(c) ==
  saver[c].alone /\ Busy(c) =>
    \A n \in Names : promised[n] # Open => saver[c].list[n] = promised[n]

AppsKeep == up => \A n \in Names : promised[n] # Open => apps[n] = promised[n]

SavedKeeps == sound => \A n \in Names : promised[n] # Open => Saved[n] = promised[n]

\* The inductive invariant.
IInv ==
  /\ TypeOK
  /\ DownIsIdle
  /\ TmpApart
  /\ AloneMeets
  /\ SoundAlone
  /\ \A c \in Savers : OwnFile(c) /\ ListKeeps(c)
  /\ AppsKeep
  /\ Restorable
  /\ SavedKeeps

LEMMA InitIInv == Init => IInv
<1> SUFFICES ASSUME Init PROVE IInv
  OBVIOUS
<1>1. TypeOK
  BY NoneAssumption DEF Init, TypeOK, Lists, NoApps, Contents, Saver, Idle, Places
<1>2. \A c \in Savers : ~Busy(c) /\ saver[c].pc = "idle"
  BY DEF Init, Busy, Idle
<1>3. Saved = NoApps /\ NoApps \in Lists
  BY DEF Init, Saved, NoApps, Lists
<1> QED
  BY <1>1, <1>2, <1>3 DEF Init, IInv, DownIsIdle, TmpApart, AloneMeets, SoundAlone, OwnFile,
       ListKeeps, AppsKeep, Restorable, SavedKeeps

-----------------------------------------------------------------------------
(* Types. *)

LEMMA SavedType == TypeOK => Saved \in Contents
BY DEF TypeOK, Saved, Contents, NoApps, Lists

LEMMA UnlinkedType == ASSUME TypeOK, NEW i \in Inodes \cup {None}
                      PROVE  Unlinked(i) \in [Inodes -> Contents]
BY DEF TypeOK, Unlinked, Contents

LEMMA SaverTypes == ASSUME TypeOK, NEW c \in Savers
                    PROVE  /\ saver[c] \in Saver
                           /\ Idle \in Saver
                           /\ Lists \subseteq Contents /\ Empty \in Contents /\ NoApps \in Lists
BY DEF TypeOK, Saver, Idle, Places, Lists, NoApps, Contents

LEMMA NextTypes == TypeOK /\ [Next]_vars => TypeOK'
<1> SUFFICES ASSUME TypeOK, [Next]_vars PROVE TypeOK'
  OBVIOUS
<1>1. ASSUME NEW n \in Names, NEW s \in Specs \cup {None}, Change(n, s)
      PROVE  apps' \in Lists /\ promised' \in [Names -> Specs \cup {None, Open}]
  BY <1>1 DEF TypeOK, Change, Lists
<1>2. ASSUME LocalChange PROVE TypeOK'
  BY <1>1, <1>2 DEF TypeOK, LocalChange
<1>3. ASSUME NEW c \in Savers, SavedChange(c) PROVE TypeOK'
  <2>1. PICK n \in Names, s \in Specs \cup {None} :
           /\ Change(n, s)
           /\ saver' = [saver EXCEPT ![c] = [Idle EXCEPT !.pc = "changed", !.own = n]]
    BY <1>3 DEF SavedChange
  <2>2. [Idle EXCEPT !.pc = "changed", !.own = n] \in Saver
    BY SaverTypes DEF Saver, Places
  <2> QED
    BY <1>1, <1>3, <2>1, <2>2 DEF TypeOK, SavedChange
<1>4. ASSUME NEW c \in Savers, Take(c) PROVE TypeOK'
  <2>1. \A d \in Savers, b \in BOOLEAN :
           /\ [saver[d] EXCEPT !.pc = "taken", !.list = apps, !.alone = b] \in Saver
           /\ [saver[d] EXCEPT !.alone = FALSE] \in Saver
    BY SaverTypes DEF TypeOK, Saver, Places
  <2>2. saver' \in [Savers -> Saver]
    BY <1>4, <2>1, SaverTypes DEF Take
  <2> QED
    BY <1>4, <2>2 DEF TypeOK, Take
<1>5. ASSUME NEW c \in Savers, OpenTmp(c) PROVE TypeOK'
  <2> DEFINE i == IF tmp # None THEN tmp ELSE CHOOSE j \in Inodes : Unused(j)
  <2>1. i \in Inodes
    BY <1>5 DEF TypeOK, OpenTmp
  <2>2. [saver[c] EXCEPT !.pc = "opened", !.fd = i] \in Saver
    BY <2>1, SaverTypes DEF Saver, Places
  <2>3. saver' = [saver EXCEPT ![c] = [saver[c] EXCEPT !.pc = "opened", !.fd = i]]
    BY <1>5 DEF OpenTmp, TypeOK
  <2> QED
    BY <1>5, <2>1, <2>2, <2>3, SaverTypes DEF TypeOK, OpenTmp
<1>6. ASSUME NEW c \in Savers, WriteTmp(c) PROVE TypeOK'
  <2>1. [saver[c] EXCEPT !.pc = "written", !.fd = None] \in Saver /\ saver[c].list \in Lists
    BY SaverTypes DEF Saver, Places
  <2>2. Overwritten(file[saver[c].fd], saver[c].list) \subseteq Contents
    BY <2>1 DEF Overwritten, Contents
  <2> QED
    BY <1>6, <2>1, <2>2, SaverTypes DEF TypeOK, WriteTmp
<1>7. ASSUME NEW c \in Savers, Rename(c) PROVE TypeOK'
  <2>1. [saver[c] EXCEPT !.pc = "renamed"] \in Saver /\ saver[c].alone \in BOOLEAN
    BY SaverTypes DEF Saver, Places
  <2>2. dump' \in Inodes \cup {None} /\ tmp' \in Inodes \cup {None} /\ file' \in [Inodes -> Contents]
    BY <1>7, UnlinkedType DEF Rename, TypeOK
  <2> QED
    BY <1>7, <2>1, <2>2 DEF TypeOK, Rename
<1>8. ASSUME NEW c \in Savers, Return(c) PROVE TypeOK'
  <2>1. file' \in [Inodes -> Contents] /\ saver' \in [Savers -> Saver]
    BY <1>8, UnlinkedType, SaverTypes DEF Return, TypeOK
  <2>2. promised' \in [Names -> Specs \cup {None, Open}]
    BY <1>8 DEF TypeOK, Return, Lists
  <2> QED
    BY <1>8, <2>1, <2>2 DEF TypeOK, Return
<1>9. ASSUME NEW c \in Savers, LoadList(c) PROVE TypeOK'
  <2>1. [Idle EXCEPT !.pc = "loaded", !.list = Saved] \in Saver
    BY <1>9, SaverTypes DEF LoadList, Saver, Places
  <2> QED
    BY <1>9, <2>1 DEF TypeOK, LoadList
<1>10. ASSUME NEW c \in Savers, AddLoaded(c) PROVE TypeOK'
  <2>1. saver[c].list \in Lists
    BY SaverTypes DEF Saver
  <2>2. apps' \in Lists /\ promised' \in [Names -> Specs \cup {None, Open}]
    BY <1>10, <2>1 DEF AddLoaded, TypeOK, Broken, Lists
  <2> QED
    BY <1>10, <2>2, SaverTypes DEF TypeOK, AddLoaded
<1>11. ASSUME Crash PROVE TypeOK'
  BY <1>11 DEF TypeOK, Crash, Lists, NoApps, Idle, Saver, Places
<1>12. ASSUME Boot PROVE TypeOK'
  <2>1. apps' \in Lists
    BY <1>12 DEF Boot, NoApps, Lists
  <2> QED
    BY <1>12, <2>1 DEF TypeOK, Boot
<1>13. ASSUME UNCHANGED vars PROVE TypeOK'
  BY <1>13 DEF TypeOK, vars
<1> QED
  BY <1>2, <1>3, <1>4, <1>5, <1>6, <1>7, <1>8, <1>9, <1>10, <1>11, <1>12, <1>13 DEF Next, SaveStep

-----------------------------------------------------------------------------
(* Changes of the list. *)

\* All of the invariant but the types.
Rest ==
  DownIsIdle /\ TmpApart /\ AloneMeets /\ SoundAlone /\ (\A c \in Savers : OwnFile(c) /\ ListKeeps(c))
  /\ AppsKeep /\ Restorable /\ SavedKeeps

LEMMA ChangeKeeps ==
  ASSUME IInv, NEW n \in Names, NEW s \in Specs \cup {None}, Change(n, s)
  PROVE  /\ \A m \in Names : promised'[m] # Open => promised'[m] = promised[m] /\ m # n
         /\ \A m \in Names : m # n => apps'[m] = apps[m]
BY DEF IInv, TypeOK, Change, Lists

LEMMA LocalChangeKeeps == ASSUME IInv, LocalChange PROVE Rest'
<1>1. PICK n \in Names, s \in Specs \cup {None} : Change(n, s)
  BY DEF LocalChange
<1>2. UNCHANGED <<up, dump, tmp, file, saver, sound, Saved>>
  BY DEF LocalChange, Saved
<1>3. \A m \in Names : promised'[m] # Open => promised'[m] = promised[m] /\ apps'[m] = apps[m]
  BY <1>1, ChangeKeeps
<1> QED
  BY <1>2, <1>3 DEF IInv, Rest, DownIsIdle, TmpApart, AloneMeets, SoundAlone, OwnFile, ListKeeps,
       AppsKeep, Restorable, SavedKeeps, Busy

LEMMA SavedChangeKeeps == ASSUME IInv, NEW c \in Savers, SavedChange(c) PROVE Rest'
<1>1. PICK n \in Names, s \in Specs \cup {None} :
         /\ Change(n, s)
         /\ saver' = [saver EXCEPT ![c] = [Idle EXCEPT !.pc = "changed", !.own = n]]
  BY DEF SavedChange
<1>2. UNCHANGED <<up, dump, tmp, file, sound, Saved>> /\ up
  BY DEF SavedChange, Saved, At
<1>3. \A m \in Names : promised'[m] # Open => promised'[m] = promised[m] /\ apps'[m] = apps[m]
  BY <1>1, ChangeKeeps
<1>4. /\ saver'[c].pc = "changed"
      /\ \A d \in Savers : d # c => saver'[d] = saver[d]
  BY <1>1 DEF IInv, TypeOK, Idle
<1> QED
  BY <1>2, <1>3, <1>4 DEF IInv, Rest, DownIsIdle, TmpApart, AloneMeets, SoundAlone, OwnFile, ListKeeps,
       AppsKeep, Restorable, SavedKeeps, Busy

-----------------------------------------------------------------------------
(* Save. *)

LEMMA TakeKeeps == ASSUME IInv, NEW c \in Savers, Take(c) PROVE Rest'
<1> DEFINE alone == \A d \in Savers \ {c} : ~Busy(d)
<1>1. /\ saver'[c].pc = "taken" /\ saver'[c].list = apps /\ saver'[c].alone = alone
      /\ \A d \in Savers : d # c /\ ~Busy(d) => saver'[d] = saver[d]
      /\ \A d \in Savers : d # c /\ Busy(d) => saver'[d].alone = FALSE /\ saver'[d].pc = saver[d].pc
  BY DEF IInv, TypeOK, Saver, Take, Busy
<1>2. UNCHANGED <<up, apps, dump, tmp, file, promised, Saved>> /\ up /\ sound' = (sound /\ alone)
  BY DEF Take, Saved, At
<1>3. \A d \in Savers : d # c => Busy(d)' = Busy(d)
  BY <1>1 DEF Busy
<1>4. AloneMeets' /\ SoundAlone'
  BY <1>1, <1>2, <1>3 DEF AloneMeets, SoundAlone, IInv
<1>5. \A d \in Savers : OwnFile(d)' /\ ListKeeps(d)'
  BY <1>1, <1>2, <1>3 DEF OwnFile, ListKeeps, IInv, AppsKeep, Busy
<1> QED
  BY <1>2, <1>4, <1>5 DEF IInv, Rest, DownIsIdle, TmpApart, AppsKeep, Restorable, SavedKeeps

LEMMA OpenTmpKeeps == ASSUME IInv, NEW c \in Savers, OpenTmp(c) PROVE Rest'
<1> DEFINE i == IF tmp # None THEN tmp ELSE CHOOSE j \in Inodes : Unused(j)
<1>1. i \in Inodes /\ i # dump /\ i # None
  BY NoneAssumption DEF IInv, TypeOK, TmpApart, OpenTmp, Unused
<1>2. /\ tmp' = i /\ file'[i] = Empty /\ \A j \in Inodes : j # i => file'[j] = file[j]
      /\ UNCHANGED <<up, apps, dump, sound, promised>> /\ up
  BY <1>1 DEF IInv, TypeOK, OpenTmp, At
<1>3. UNCHANGED Saved
  BY <1>1, <1>2 DEF Saved, IInv, TypeOK
<1>4. /\ saver'[c].pc = "opened" /\ saver'[c].fd = i
      /\ saver'[c].list = saver[c].list /\ saver'[c].alone = saver[c].alone
      /\ \A d \in Savers : d # c => saver'[d] = saver[d]
      /\ Busy(c)
  BY DEF IInv, TypeOK, Saver, OpenTmp, At, Busy
<1>5. \A d \in Savers : Busy(d)' = Busy(d) /\ saver'[d].alone = saver[d].alone
                        /\ saver'[d].list = saver[d].list
  BY <1>4 DEF Busy
<1>6. \A d \in Savers : OwnFile(d)'
  BY <1>1, <1>2, <1>3, <1>4, <1>5 DEF IInv, AloneMeets, OwnFile, Busy
<1> QED
  BY <1>1, <1>2, <1>3, <1>5, <1>6 DEF IInv, Rest, DownIsIdle, TmpApart, AloneMeets, SoundAlone, ListKeeps,
       AppsKeep, Restorable, SavedKeeps

LEMMA WriteTmpKeeps == ASSUME IInv, NEW c \in Savers, WriteTmp(c) PROVE Rest'
<1>1. /\ saver'[c].pc = "written"
      /\ saver'[c].list = saver[c].list /\ saver'[c].alone = saver[c].alone
      /\ \A d \in Savers : d # c => saver'[d] = saver[d]
      /\ Busy(c) /\ saver[c].pc = "opened"
  BY DEF IInv, TypeOK, Saver, WriteTmp, At, Busy
<1>2. UNCHANGED <<up, apps, dump, tmp, sound, promised>> /\ up
  BY DEF WriteTmp, At
<1>3. \A d \in Savers : Busy(d)' = Busy(d) /\ saver'[d].alone = saver[d].alone
                        /\ saver'[d].list = saver[d].list
  BY <1>1 DEF Busy
<1>4. \A j \in Inodes : j # saver[c].fd => file'[j] = file[j]
  BY DEF IInv, TypeOK, WriteTmp
<1>5. ASSUME saver[c].alone PROVE tmp # None /\ file'[tmp] = saver[c].list /\ UNCHANGED Saved
  <2>1. tmp # None /\ saver[c].fd = tmp /\ file[tmp] = Empty
    BY <1>1, <1>5 DEF IInv, OwnFile
  <2>2. file'[tmp] = saver[c].list
    BY <2>1 DEF IInv, TypeOK, WriteTmp, Overwritten
  <2>3. UNCHANGED Saved
    BY <1>2, <1>4, <2>1 DEF IInv, TypeOK, TmpApart, Saved
  <2> QED
    BY <2>1, <2>2, <2>3
<1>6. \A d \in Savers : OwnFile(d)'
  BY <1>1, <1>2, <1>3, <1>5, NoneAssumption DEF IInv, AloneMeets, OwnFile, Busy
<1>7. sound => UNCHANGED Saved
  BY <1>1, <1>5 DEF IInv, SoundAlone
<1> QED
  BY <1>2, <1>3, <1>6, <1>7 DEF IInv, Rest, DownIsIdle, TmpApart, AloneMeets, SoundAlone, ListKeeps,
       AppsKeep, Restorable, SavedKeeps

LEMMA RenameKeeps == ASSUME IInv, NEW c \in Savers, Rename(c) PROVE Rest'
<1>1. /\ saver'[c].pc = "renamed"
      /\ saver'[c].list = saver[c].list /\ saver'[c].alone = saver[c].alone
      /\ \A d \in Savers : d # c => saver'[d] = saver[d]
      /\ Busy(c) /\ saver[c].pc = "written"
  BY DEF IInv, TypeOK, Saver, Rename, At, Busy
<1>2. UNCHANGED <<up, apps, promised>> /\ up /\ sound' = (sound \/ saver[c].alone)
  BY DEF Rename, At
<1>3. \A d \in Savers : Busy(d)' = Busy(d) /\ saver'[d].alone = saver[d].alone
                        /\ saver'[d].list = saver[d].list
  BY <1>1 DEF Busy
<1>4. TmpApart'
  BY DEF Rename, TmpApart, IInv
<1>5. ASSUME saver[c].alone PROVE Saved' = saver[c].list
  <2>1. tmp # None /\ tmp # dump /\ file[tmp] = saver[c].list
    BY <1>1, <1>5 DEF IInv, OwnFile, TmpApart
  <2>2. dump' = tmp /\ file'[tmp] = file[tmp]
    BY <2>1 DEF Rename, Unlinked, IInv, TypeOK
  <2> QED
    BY <2>1, <2>2 DEF Saved
<1>6. \A d \in Savers : OwnFile(d)'
  BY <1>1, <1>3, <1>5 DEF IInv, AloneMeets, OwnFile, Busy
<1>7. sound' <=> saver[c].alone
  BY <1>1, <1>2 DEF IInv, TypeOK, SoundAlone, Saver
<1>8. AloneMeets' /\ SoundAlone'
  BY <1>1, <1>3, <1>7 DEF IInv, AloneMeets, SoundAlone
<1>9. Restorable' /\ SavedKeeps'
  <2>1. saver[c].list \in Lists
    BY DEF IInv, TypeOK, Saver
  <2>2. saver[c].alone => \A n \in Names : promised[n] # Open => saver[c].list[n] = promised[n]
    BY <1>1 DEF IInv, ListKeeps
  <2> QED
    BY <1>2, <1>5, <1>7, <2>1, <2>2 DEF Restorable, SavedKeeps
<1> QED
  BY <1>2, <1>3, <1>4, <1>6, <1>8, <1>9 DEF IInv, Rest, DownIsIdle, ListKeeps, AppsKeep

LEMMA ReturnKeeps == ASSUME IInv, NEW c \in Savers, Return(c) PROVE Rest'
<1>1. /\ saver'[c].pc = "idle" /\ ~Busy(c)'
      /\ \A d \in Savers : d # c => saver'[d] = saver[d] /\ Busy(d)' = Busy(d)
      /\ Busy(c) /\ saver[c].pc = "renamed"
  BY DEF IInv, TypeOK, Idle, Return, At, Busy
<1>2. UNCHANGED <<up, apps, dump, sound>> /\ up /\ tmp' = None
  BY DEF Return, At
<1>3. UNCHANGED Saved
  BY <1>2 DEF Saved, Return, Unlinked, IInv, TypeOK, TmpApart
<1>4. \A n \in Names : promised'[n] # Open =>
        \/ promised'[n] = promised[n]
        \/ promised'[n] = apps[n] /\ apps[n] = saver[c].list[n]
  BY DEF Return, IInv, TypeOK
<1>5. \A d \in Savers : Busy(d)' => ~saver'[d].alone
  BY <1>1 DEF IInv, AloneMeets
<1>6. \A d \in Savers : OwnFile(d)' /\ ListKeeps(d)'
  BY <1>5, <1>1 DEF OwnFile, ListKeeps, Busy
<1>7. sound => Saved = saver[c].list
  BY <1>1 DEF IInv, SoundAlone, OwnFile
<1>8. AloneMeets' /\ SoundAlone'
  BY <1>1, <1>2, <1>5 DEF IInv, AloneMeets, SoundAlone
<1>9. AppsKeep' /\ SavedKeeps'
  BY <1>2, <1>3, <1>4, <1>7 DEF IInv, AppsKeep, SavedKeeps
<1> QED
  BY <1>2, <1>3, <1>6, <1>8, <1>9 DEF IInv, Rest, DownIsIdle, TmpApart, Restorable

-----------------------------------------------------------------------------
(* Load, the crash and the boot. *)

LEMMA LoadListKeeps == ASSUME IInv, NEW c \in Savers, LoadList(c) PROVE Rest'
<1>1. UNCHANGED <<up, apps, dump, tmp, file, sound, promised, Saved>> /\ up
  BY DEF LoadList, Saved, At
<1>2. /\ saver'[c].pc = "loaded"
      /\ \A d \in Savers : d # c => saver'[d] = saver[d]
  BY DEF LoadList, IInv, TypeOK, Idle
<1> QED
  BY <1>1, <1>2 DEF IInv, Rest, DownIsIdle, TmpApart, AloneMeets, SoundAlone, OwnFile, ListKeeps,
       AppsKeep, Restorable, SavedKeeps, Busy

LEMMA AddLoadedKeeps == ASSUME IInv, NEW c \in Savers, AddLoaded(c) PROVE Rest'
<1>1. UNCHANGED <<up, dump, tmp, file, sound, Saved>> /\ up
  BY DEF AddLoaded, Saved, At
<1>2. /\ saver'[c].pc = "idle"
      /\ \A d \in Savers : d # c => saver'[d] = saver[d]
  BY DEF AddLoaded, IInv, TypeOK, Idle
<1>3. \A n \in Names : promised'[n] # Open => promised'[n] = promised[n] /\ apps'[n] = apps[n]
  BY DEF AddLoaded, Broken, IInv, TypeOK, Lists
<1> QED
  BY <1>1, <1>2, <1>3 DEF IInv, Rest, DownIsIdle, TmpApart, AloneMeets, SoundAlone, OwnFile, ListKeeps,
       AppsKeep, Restorable, SavedKeeps, Busy

LEMMA CrashKeeps == ASSUME IInv, Crash PROVE Rest'
<1>1. UNCHANGED <<dump, tmp, file, sound, promised, Saved>> /\ up' = FALSE
  BY DEF Crash, Saved
<1>2. \A c \in Savers : saver'[c] = Idle /\ Idle.pc = "idle"
  BY DEF Crash, Idle
<1> QED
  BY <1>1, <1>2 DEF IInv, Rest, DownIsIdle, TmpApart, AloneMeets, SoundAlone, OwnFile, ListKeeps,
       AppsKeep, Restorable, SavedKeeps, Busy

LEMMA BootKeeps == ASSUME IInv, Boot PROVE Rest'
<1>1. UNCHANGED <<dump, tmp, file, saver, sound, Saved>> /\ up'
  BY DEF Boot, Saved
<1>2. \A c \in Savers : saver'[c] = Idle /\ Idle.pc = "idle"
  BY <1>1 DEF Boot, Idle, IInv, DownIsIdle
<1>3. \A n \in Names : promised'[n] # Open => sound /\ promised'[n] = promised[n]
  BY DEF Boot
<1>4. sound => apps' = Saved
  BY DEF Boot, IInv, Restorable
<1> QED
  BY <1>1, <1>2, <1>3, <1>4 DEF IInv, Rest, DownIsIdle, TmpApart, AloneMeets, SoundAlone, OwnFile,
       ListKeeps, AppsKeep, Restorable, SavedKeeps, Busy

LEMMA NextIInv == IInv /\ [Next]_vars => IInv'
<1> SUFFICES ASSUME IInv, [Next]_vars PROVE IInv'
  OBVIOUS
<1>1. TypeOK'
  BY NextTypes DEF IInv
<1>2. CASE UNCHANGED vars
  BY <1>2 DEF vars, IInv, TypeOK, DownIsIdle, TmpApart, AloneMeets, SoundAlone, OwnFile, ListKeeps,
       AppsKeep, Restorable, SavedKeeps, Busy, Saved
<1>3. CASE Next
  <2>1. Rest'
    BY <1>3, LocalChangeKeeps, SavedChangeKeeps, TakeKeeps, OpenTmpKeeps, WriteTmpKeeps, RenameKeeps,
       ReturnKeeps, LoadListKeeps, AddLoadedKeeps, CrashKeeps, BootKeeps DEF Next, SaveStep
  <2> QED
    BY <1>1, <2>1 DEF Rest, IInv
<1> QED
  BY <1>2, <1>3

-----------------------------------------------------------------------------
(* Theorems. *)

\* The inductive invariant holds in every reachable state.
LEMMA SavedAppsIInv == Spec => []IInv
BY InitIInv, NextIInv, PTL DEF Spec

\* The types of the daemon's list, of the files and of the saves under way.
THEOREM SavedAppsTypes == Spec => []TypeOK
<1>1. IInv => TypeOK
  BY DEF IInv
<1> QED
  BY <1>1, SavedAppsIInv, PTL

\* A crash at any point of store.Save leaves a list that daemon.Run can load, for
\* any number of savers, unless two of them met in the save dump.json comes from.
THEOREM SavedAppsRestorable == Spec => []Restorable
<1>1. IInv => Restorable
  BY DEF IInv
<1> QED
  BY <1>1, SavedAppsIInv, PTL

\* What a fleet start, a fleet delete, UpdateEnv or Launch has saved is in the
\* list, and among the apps after a crash and the boot, for any number of savers.
THEOREM SavedAppsPromiseKept == Spec => []PromiseKept
<1>1. IInv => PromiseKept
  BY DEF IInv, AppsKeep, SavedKeeps, PromiseKept, Restorable
<1> QED
  BY <1>1, SavedAppsIInv, PTL
=============================================================================
