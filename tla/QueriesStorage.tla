---------------------------- MODULE QueriesStorage ----------------------------
(***************************************************************************)
(* The saving of query tabs: CentralRightWidget and UserQueriesManager with   *)
(* the tabs that are open, UserQuery's text and its modified flag, and        *)
(* settings::QueriesStorage, which keeps one file per tab for the text and    *)
(* one settings file for the list.                                          *)
(*                                                                         *)
(* Everything runs on the main thread, so nothing is done to the tabs while   *)
(* they are being saved; but the process may end between any two writes, and  *)
(* a write may fail.  A save is therefore one action per file.              *)
(***************************************************************************)
EXTENDS SequencesExt

CONSTANTS Ids,      \* unique ids of tabs
          Texts,    \* what is typed, or read back from a file
          Empty,    \* the empty text
          NoFile,   \* no file for an id
          ReadBack  \* a text read back from a file; a long one is cut off

ASSUME StorageAssumption ==
    /\ Empty \in Texts /\ NoFile \notin Texts
    /\ ReadBack \in [Texts -> Texts] /\ ReadBack[Empty] = Empty
    /\ \A t \in Texts : ReadBack[ReadBack[t]] = ReadBack[t]

VARIABLES
    pc,        \* "off", "up", "ended", or where save() is: "backup", "writing"
    next,      \* what comes after the save: "remove" or "exit"
    tabs,      \* UserQueriesManager::_userQueries, the ids in their order
    text,      \* UserQuery::_currentQueryText
    modified,  \* UserQuery::_modifiedButNotSaved
    widgets,   \* the tabs' widgets exist (_queryTabs is not empty)
    shown,     \* the text in a widget
    done,      \* tabs the loop of save() has done
    pending,   \* the settings as changed in memory: id -> index
    stored,    \* the settings on disk
    files,     \* the backup files on disk
    failed,    \* history: the last save has reported or swallowed a failure
    spoiled    \* history: tabs whose last write was cut short and not noticed

tabVars  == <<tabs, text, modified, widgets, shown>>
saveVars == <<done, pending, next>>
diskVars == <<stored, files>>
history  == <<failed, spoiled>>
vars     == <<pc, tabVars, saveVars, diskVars, history>>
-----------------------------------------------------------------------------
NoTexts == [id \in Ids |-> Empty]

(* The text load() finds for an id; no file is an empty tab.                 *)
OnDisk(id) == IF files[id] = NoFile THEN Empty ELSE ReadBack[files[id]]

(* Where load() puts each id.  SlotsFilled is why it is a sequence of ids.    *)
Restored ==
    [i \in 1 .. Cardinality(DOMAIN stored) |->
        CHOOSE id \in DOMAIN stored : stored[id] = i - 1]

(* QUuid: never that of another tab, or of a file that has been left behind. *)
Fresh(id) ==
    /\ id \notin DOMAIN stored /\ files[id] = NoFile
    /\ pc # "off" => id \notin Range(tabs)

Init ==
    /\ pc = "off" /\ next = "exit"
    /\ tabs = <<>> /\ text = NoTexts /\ modified = [id \in Ids |-> FALSE]
    /\ widgets = FALSE /\ shown = NoTexts
    /\ done = 0 /\ pending = <<>>
    /\ stored = <<>> /\ files = [id \in Ids |-> NoFile]
    /\ failed = FALSE /\ spoiled = {}
-----------------------------------------------------------------------------
(* UserQueriesManager::load at start-up.                                    *)
Start ==
    /\ pc = "off"
    /\ pc' = "up"
    /\ IF DOMAIN stored = {}
       THEN \E id \in Ids : Fresh(id) /\ tabs' = <<id>> /\ text' = NoTexts
       ELSE /\ tabs' = Restored
            /\ text' = [id \in Ids |-> IF id \in DOMAIN stored THEN OnDisk(id) ELSE Empty]
    /\ modified' = [id \in Ids |-> FALSE]
    /\ widgets' = FALSE /\ shown' = NoTexts
    /\ failed' = FALSE /\ spoiled' = {}
    /\ UNCHANGED <<saveVars, diskVars>>

(* createQueryTabs, when a session has become active.                        *)
CreateQueryTabs ==
    /\ pc = "up" /\ ~widgets
    /\ widgets' = TRUE /\ shown' = text
    /\ UNCHANGED <<pc, tabs, text, modified, saveVars, diskVars, history>>

Type ==
    /\ pc = "up" /\ widgets
    /\ \E i \in DOMAIN tabs, t \in Texts : shown' = [shown EXCEPT ![tabs[i]] = t]
    /\ UNCHANGED <<pc, tabs, text, modified, widgets, saveVars, diskVars, history>>

AppendNewUserQuery ==
    /\ pc = "up" /\ widgets
    /\ \E id \in Ids : Fresh(id) /\ tabs' = Append(tabs, id)
    /\ UNCHANGED <<pc, text, modified, widgets, shown, saveVars, diskVars, history>>

(* The UserQuery of a tab is deleted, and its widget.                        *)
Forget(id) ==
    /\ text' = [text EXCEPT ![id] = Empty]
    /\ modified' = [modified EXCEPT ![id] = FALSE]
    /\ shown' = [shown EXCEPT ![id] = Empty]
    /\ spoiled' = spoiled \ {id}

(* A mutant of RemoveUserQueryAt: the file goes at once.                     *)
RemoveWithFile ==
    /\ pc = "up" /\ widgets
    /\ \E i \in 2 .. Len(tabs) :
           /\ tabs' = RemoveAt(tabs, i) /\ Forget(tabs[i])
           /\ files' = [files EXCEPT ![tabs[i]] = NoFile]
    /\ UNCHANGED <<pc, widgets, saveVars, stored, failed>>

(* The first tab has no close button.  Nothing is done to the files.         *)
RemoveUserQueryAt ==
    /\ pc = "up" /\ widgets
    /\ \E i \in 2 .. Len(tabs) : tabs' = RemoveAt(tabs, i) /\ Forget(tabs[i])
    /\ UNCHANGED <<pc, widgets, saveVars, diskVars, failed>>
-----------------------------------------------------------------------------
(* A mutant of QueryTextEdited: a tab that is already flagged loses its flag. *)
FlagToggled(id) == ~modified[id] /\ text[id] # shown[id]

(* UserQuery::onQueryTextEdited: the flag that results.                      *)
QueryTextEdited(id) == modified[id] \/ text[id] # shown[id]

(* backupQueryTabs, when no session is active any more or the window is       *)
(* destroyed: the texts of the widgets are taken over, and save() begins.     *)
BackupQueryTabs(why) ==
    /\ pc = "up" /\ widgets
    /\ pc' = "backup" /\ next' = why
    /\ text' = shown
    /\ modified' = [id \in Ids |-> QueryTextEdited(id)]
    /\ done' = 0 /\ pending' = stored
    /\ failed' = FALSE
    /\ UNCHANGED <<tabs, widgets, shown, diskVars, spoiled>>

(* After the backup, or with no widgets and so without one.                   *)
Exit ==
    /\ pc = "ended" \/ (pc = "up" /\ ~widgets)
    /\ pc' = "off"
    /\ UNCHANGED <<tabVars, saveVars, diskVars, history>>

Current == tabs[done + 1]

(* The index of the tab that has been backed up is set.                     *)
SetIndex ==
    /\ done' = done + 1
    /\ pending' = [id \in DOMAIN pending \cup {Current} |->
                       IF id = Current THEN done ELSE pending[id]]

SkipUnmodified ==
    /\ pc = "backup" /\ done < Len(tabs) /\ ~modified[Current]
    /\ SetIndex
    /\ UNCHANGED <<pc, next, tabVars, diskVars, history>>

(* A mutant of OpenFails: the flag is cleared on every path.                 *)
OpenFailsCleared ==
    /\ pc = "backup" /\ done < Len(tabs) /\ modified[Current]
    /\ SetIndex
    /\ modified' = [modified EXCEPT ![Current] = FALSE]
    /\ failed' = TRUE
    /\ UNCHANGED <<pc, next, tabs, text, widgets, shown, diskVars, spoiled>>

(* The file cannot be opened: backup() returns false, which nobody reads.     *)
OpenFails ==
    /\ pc = "backup" /\ done < Len(tabs) /\ modified[Current]
    /\ SetIndex
    /\ failed' = TRUE
    /\ UNCHANGED <<pc, next, tabVars, diskVars, spoiled>>

(* QFile::open truncates.                                                   *)
OpenFile ==
    /\ pc = "backup" /\ done < Len(tabs) /\ modified[Current]
    /\ pc' = "writing"
    /\ files' = [files EXCEPT ![Current] = Empty]
    /\ UNCHANGED <<tabVars, saveVars, stored, history>>

(* The text is flushed and the file closed.                                 *)
WriteFile ==
    /\ pc = "writing"
    /\ pc' = "backup"
    /\ files' = [files EXCEPT ![Current] = text[Current]]
    /\ modified' = [modified EXCEPT ![Current] = FALSE]
    /\ spoiled' = spoiled \ {Current}
    /\ SetIndex
    /\ UNCHANGED <<next, tabs, text, widgets, shown, stored, failed>>

(* The disk is full: the file stays short, and the flag is cleared as well.  *)
WriteFails ==
    /\ pc = "writing"
    /\ pc' = "backup"
    /\ modified' = [modified EXCEPT ![Current] = FALSE]
    /\ failed' = TRUE /\ spoiled' = spoiled \cup {Current}
    /\ SetIndex
    /\ UNCHANGED <<next, tabs, text, widgets, shown, diskVars>>

(* A mutant of Vanished: the ids of closed tabs are left in the settings.     *)
NoneVanished == {}

(* The ids of loadQueryIds that no tab has, and that are still to be removed. *)
Vanished == DOMAIN pending \ Range(tabs)

(* settings.remove, and QFile::remove, which may fail.                       *)
RemoveVanished ==
    /\ pc = "backup" /\ done = Len(tabs)
    /\ \E id \in Vanished :
           /\ pending' = [other \in DOMAIN pending \ {id} |-> pending[other]]
           /\ files' \in {files, [files EXCEPT ![id] = NoFile]}
    /\ UNCHANGED <<pc, done, next, tabVars, stored, history>>

(* The destructor of the QSettings of save() replaces the settings file, or   *)
(* fails to.  Then the widgets are removed, or the program ends.             *)
Finish ==
    /\ pc = "backup" /\ done = Len(tabs) /\ Vanished = {}
    /\ pc' = IF next = "exit" THEN "ended" ELSE "up"
    /\ widgets' = FALSE /\ shown' = NoTexts
    /\ done' = 0 /\ pending' = <<>>
    /\ UNCHANGED <<next, tabs, text, modified, files, spoiled>>

SyncSettings == Finish /\ stored' = pending /\ UNCHANGED failed
SyncFails    == Finish /\ failed' = TRUE /\ UNCHANGED stored

(* The process is killed, at any point.                                     *)
Crash ==
    /\ pc # "off"
    /\ pc' = "off"
    /\ tabs' = <<>> /\ text' = NoTexts /\ modified' = [id \in Ids |-> FALSE]
    /\ widgets' = FALSE /\ shown' = NoTexts
    /\ done' = 0 /\ pending' = <<>>
    /\ failed' = FALSE /\ spoiled' = {}
    /\ UNCHANGED <<next, diskVars>>
-----------------------------------------------------------------------------
Save == SkipUnmodified \/ OpenFile \/ WriteFile \/ RemoveVanished \/ SyncSettings

SaveFails == OpenFails \/ WriteFails \/ SyncFails

User ==
    \/ CreateQueryTabs \/ Type \/ AppendNewUserQuery \/ RemoveUserQueryAt
    \/ BackupQueryTabs("remove") \/ BackupQueryTabs("exit") \/ Exit

Next == Start \/ User \/ Save \/ SaveFails \/ Crash

Spec == Init /\ [][Next]_vars
-----------------------------------------------------------------------------
TabType ==
    /\ pc \in {"off", "up", "backup", "writing", "ended"}
    /\ tabs \in Seq(Ids) /\ (pc # "off" => Len(tabs) > 0)
    /\ text \in [Ids -> Texts] /\ modified \in [Ids -> BOOLEAN]
    /\ widgets \in BOOLEAN /\ shown \in [Ids -> Texts]

SaveType ==
    /\ next \in {"remove", "exit"}
    /\ done \in Nat /\ done <= Len(tabs)
    /\ DOMAIN pending \subseteq Ids
    /\ \A id \in DOMAIN pending : pending[id] \in Nat

DiskType ==
    /\ DOMAIN stored \subseteq Ids
    /\ \A id \in DOMAIN stored : stored[id] \in Nat
    /\ files \in [Ids -> Texts \cup {NoFile}]
    /\ failed \in BOOLEAN /\ spoiled \subseteq Ids

(* The variables keep their types, and there is always a tab.                *)
TypeOK == TabType /\ SaveType /\ DiskType

(* Whenever the program may be started again, each slot of the list belongs   *)
(* to exactly one id: load() meets no index out of range, no two ids with     *)
(* one index, and the slots nobody filled that its last statement erases      *)
(* ("should not happen") do not happen, wherever a crash or a failed write    *)
(* has interrupted save().                                                  *)
SlotsFilled ==
    \A i \in 0 .. Cardinality(DOMAIN stored) - 1 :
        \E id \in DOMAIN stored :
            stored[id] = i /\ \A other \in DOMAIN stored : stored[other] = i => other = id

(* A tab that is not flagged as modified has its text on disk, so that not    *)
(* writing it again loses nothing; the exception is a write that was cut      *)
(* short, which clears the flag.                                            *)
UnmodifiedIsOnDisk ==
    \A i \in DOMAIN tabs :
        pc # "off" /\ ~modified[tabs[i]] /\ tabs[i] \notin spoiled =>
            OnDisk(tabs[i]) = ReadBack[text[tabs[i]]]

TextsOf(ids, words) == [i \in DOMAIN ids |-> words[ids[i]]]

(* After the program has been left through its window, and if the last save   *)
(* met no failure and no earlier one was swallowed, the next start shows the  *)
(* same tabs with the same texts.                                           *)
ExitKeepsTabs ==
    LET nothingFailed == ~failed /\ spoiled \cap Range(tabs) = {}
        texts == TextsOf(tabs, [id \in Ids |-> ReadBack[text[id]]])
    IN  pc = "off" /\ tabs # <<>> /\ nothingFailed =>
            \/ texts = TextsOf(Restored, [id \in Ids |-> OnDisk(id)])
            \/ DOMAIN stored = {} /\ texts = <<Empty>>

Kept == INSTANCE SavedTabs WITH
            open  <- pc # "off",
            desk  <- IF pc = "off" THEN <<>> ELSE tabs,
            words <- IF widgets THEN shown ELSE text,
            list  <- Restored,
            kept  <- [id \in Ids |-> OnDisk(id)]

(* Whatever fails and wherever the process is killed, a start shows the list   *)
(* of the last completed save and under each tab a text of that tab.         *)
ImplementsSavedTabs == Kept!Spec
=============================================================================
