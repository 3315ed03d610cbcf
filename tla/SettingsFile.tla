---------------------------- MODULE SettingsFile ----------------------------
(* The settings file: the display writes a new file and renames it over the   *)
(* old one (Settings::saveToFile), the web server rewrites it in place        *)
(* (rootfs/var/www/server.py), and the display watches it with inotify        *)
(* (util/file_write_watch.cpp).  inotify watches an inode, not a path: after  *)
(* a rename the watch is on a file that nobody can open any more.             *)
EXTENDS Naturals, Sequences

CONSTANTS
    Values,                 \* what the settings can be
    Default,                \* the values the store is built with
    Broken,                 \* a file cut short: not a JSON document
    MaxSaves,               \* bound: knob adjustments
    MaxEdits,               \* bound: edits from the web
    MaxCrashes              \* bound: restarts of the display

ASSUME ValuesAssumption == Default \in Values /\ Broken \notin Values
ASSUME BoundsAssumption == {MaxSaves, MaxEdits, MaxCrashes} \subseteq Nat

Inodes == 1..3              \* at most: at the path, open in the server, temporary
None == 0

VARIABLES
    path,                   \* the inode at the settings path, or None
    content,                \* [Inodes -> who wrote it last, and what]
    web, webFile, webValue, \* the server: where it is, what it writes
    wstate,                 \* the watch thread: start, or watch
    watch,                  \* the inode under watch, or None
    inotify,                \* events of the watch not read yet
    loads,                  \* loadFromFile() events waiting for the UI thread
    upc,                    \* the UI thread: off, init, idle, write, rename
    temp,                   \* the temporary file of the save being made
    store,                  \* the settings in memory
    edit,                   \* history: the last edit nobody loaded, if it is
                            \* still at the path: watched when it was closed,
                            \* closed before the watch began (early), or not
                            \* watched although a watch was running
    failed,                 \* history: the last save did not reach the path
                            \* whole
    saves, edits, crashes   \* how much of each bound is used

server == <<web, webFile, webValue>>
watcher == <<wstate, watch, inotify>>
bounds == <<saves, edits, crashes>>
vars == <<path, content, server, watcher, loads, upc, temp, store, edit, failed, bounds>>

Document == [by : {"display", "web"}, value : Values \cup {Broken}]

Init ==
    /\ path \in {None, 1}
    /\ content = [i \in Inodes |-> [by |-> "display", value |-> Default]]
    /\ web = "idle" /\ webFile = None /\ webValue = Default
    /\ wstate = "start" /\ watch = None /\ inotify = <<>>
    /\ loads = 0
    /\ upc = "off"
    /\ temp = None
    /\ store = Default
    /\ edit = "none"
    /\ failed = FALSE
    /\ saves = 0 /\ edits = 0 /\ crashes = 0

-----------------------------------------------------------------------------
(* The file system. *)

FreeInode(used) == CHOOSE i \in Inodes : i \notin used

\* inotify merges an event with an equal one that is the last in the queue.
Notified(queue, event) ==
    IF queue # <<>> /\ queue[Len(queue)] = event THEN queue ELSE Append(queue, event)

\* An inode that no path and no process holds is gone, and its watch with it.
Unheld(i, queue) ==
    IF watch = i THEN /\ watch' = None
                      /\ inotify' = Notified(queue, "ignored")
                 ELSE UNCHANGED watch /\ inotify' = queue

-----------------------------------------------------------------------------
(* The web server, server.py:29-32: open(filename, 'w') truncates, json.dump  *)
(* writes piece by piece, and the file is closed.                             *)

WebOpen(v) ==
    /\ web = "idle"
    /\ edits < MaxEdits
    /\ edits' = edits + 1
    /\ LET i == IF path # None THEN path ELSE FreeInode({temp})
       IN  /\ path' = i
           /\ webFile' = i
           /\ content' = [content EXCEPT ![i] = [by |-> "web", value |-> Broken]]
    /\ web' = "open"
    /\ webValue' = v
    /\ edit' = "none"
    /\ UNCHANGED <<watcher, loads, upc, temp, store, failed, saves, crashes>>

\* The last piece and the close, which is what the watch waits for.
WebClose ==
    /\ web = "open"
    /\ web' = "idle"
    /\ webFile' = None
    /\ content' = [content EXCEPT ![webFile] = [by |-> "web", value |-> webValue]]
    /\ LET queue == IF watch = webFile THEN Notified(inotify, "closeWrite") ELSE inotify
       IN  IF path = webFile
             THEN /\ inotify' = queue
                  /\ edit' = CASE watch = webFile -> "watched"
                                [] wstate = "start" -> "early"
                                [] OTHER -> "unwatched"
                  /\ UNCHANGED watch
             ELSE Unheld(webFile, queue) /\ UNCHANGED edit
    /\ UNCHANGED <<path, webValue, wstate, loads, upc, temp, store, failed, bounds>>

-----------------------------------------------------------------------------
(* The watch thread, Settings.cpp:42-48. *)

\* file_write_watch(): inotify_add_watch() fails if there is no file, and then
\* next_event() blocks for ever.
AddWatch ==
    /\ wstate = "start"
    /\ upc # "off"
    /\ wstate' = "watch"
    /\ watch' = path
    /\ UNCHANGED <<path, content, server, inotify, loads, upc, temp, store, edit, failed, bounds>>

\* Mutant: the thread ends after its first event.
NextEventOnce ==
    /\ inotify # <<>> /\ wstate = "watch"
    /\ inotify' = Tail(inotify)
    /\ wstate' = "done"
    /\ loads' = loads + 1
    /\ UNCHANGED <<path, content, server, watch, upc, temp, store, edit, failed, bounds>>

\* next_event() returns for any event of its watch.
NextEvent ==
    /\ inotify # <<>>
    /\ inotify' = Tail(inotify)
    /\ loads' = loads + 1
    /\ UNCHANGED <<path, content, server, wstate, watch, upc, temp, store, edit, failed, bounds>>

-----------------------------------------------------------------------------
(* The UI thread. *)

Boot ==
    /\ upc = "off"
    /\ upc' = "init"
    /\ store' = Default
    /\ UNCHANGED <<path, content, server, watcher, loads, temp, edit, failed, bounds>>

\* Mutant: the store is reset before the document is parsed.
LoadResets == store' = IF path # None /\ content[path].value # Broken
                          THEN content[path].value ELSE Default

\* loadFromString(): a document that does not parse changes nothing.
Load == store' = IF path # None /\ content[path].value # Broken
                    THEN content[path].value ELSE store

LoadInitially ==
    /\ upc = "init"
    /\ upc' = "idle"
    /\ Load
    /\ edit' = "none"
    /\ UNCHANGED <<path, content, server, watcher, loads, temp, failed, bounds>>

\* loadFromFile()
LoadFromFile ==
    /\ upc = "idle" /\ loads > 0
    /\ loads' = loads - 1
    /\ Load
    /\ edit' = "none"
    /\ UNCHANGED <<path, content, server, watcher, upc, temp, failed, bounds>>

\* Mutant: a turn of the knob is not saved while a load is waiting.
HidAdjustUnsaved(v) ==
    /\ upc = "idle"
    /\ saves < MaxSaves
    /\ saves' = saves + 1
    /\ store' = v
    /\ upc' = IF loads > 0 THEN "idle" ELSE "write"
    /\ UNCHANGED <<path, content, server, watcher, loads, temp, edit, failed, edits, crashes>>

\* hidIncrement(), hidDecrement(): the store first.
HidAdjust(v) ==
    /\ upc = "idle"
    /\ saves < MaxSaves
    /\ saves' = saves + 1
    /\ store' = v
    /\ upc' = "write"
    /\ UNCHANGED <<path, content, server, watcher, loads, temp, edit, failed, edits, crashes>>

\* Mutant: the file at the path is opened and rewritten, as the server does.
SaveInPlace ==
    /\ upc = "write"
    /\ temp' = IF path = None THEN FreeInode({webFile}) ELSE path
    /\ content' = [content EXCEPT ![temp'] = [by |-> "display", value |-> Broken]]
    /\ upc' = "rename"
    /\ UNCHANGED <<path, server, watcher, loads, store, edit, failed, bounds>>

\* saveToFile(), Settings.cpp:210-223
SaveWrite ==
    /\ upc = "write"
    /\ temp' = FreeInode({path, webFile, watch})
    /\ content' = [content EXCEPT ![temp'] = [by |-> "display", value |-> store]]
    /\ upc' = "rename"
    /\ UNCHANGED <<path, server, watcher, loads, store, edit, failed, bounds>>

\* The stream cannot open the file, so that there is nothing to rename, or the
\* disk is full and the document cut short.  Nobody looks at its state.
WriteFails ==
    /\ upc = "write"
    /\ \/ /\ upc' = "idle"
          /\ failed' = TRUE
          /\ UNCHANGED <<content, temp>>
       \/ /\ upc' = "rename"
          /\ temp' = FreeInode({path, webFile, watch})
          /\ content' = [content EXCEPT ![temp'] = [by |-> "display", value |-> Broken]]
          /\ UNCHANGED failed
    /\ UNCHANGED <<path, server, watcher, loads, store, edit, bounds>>

\* Nor does anybody look at the result of rename().
RenameFails ==
    /\ upc = "rename"
    /\ temp' = None
    /\ failed' = TRUE
    /\ upc' = "idle"
    /\ UNCHANGED <<path, content, server, watcher, loads, store, edit, bounds>>

\* saveToFile(), Settings.cpp:225
SaveRename ==
    /\ upc = "rename"
    /\ path' = temp
    /\ temp' = None
    /\ IF path \notin {None, webFile} THEN Unheld(path, inotify)
                                      ELSE UNCHANGED <<watch, inotify>>
    /\ edit' = "none"
    /\ failed' = (content[temp].value = Broken)
    /\ upc' = "idle"
    /\ UNCHANGED <<content, server, wstate, loads, store, bounds>>

\* The process dies; the kernel drops its watch.  A temporary file is left over.
Crash ==
    /\ upc # "off"
    /\ crashes < MaxCrashes
    /\ crashes' = crashes + 1
    /\ upc' = "off"
    /\ temp' = None
    /\ wstate' = "start" /\ watch' = None /\ inotify' = <<>>
    /\ loads' = 0
    /\ store' = Default
    /\ UNCHANGED <<path, content, server, edit, failed, saves, edits>>

-----------------------------------------------------------------------------
UI == Boot \/ LoadInitially \/ LoadFromFile \/ SaveWrite \/ SaveRename
Watcher == AddWatch \/ NextEvent
Next == \/ UI \/ Watcher \/ WebClose \/ Crash \/ WriteFails \/ RenameFails
        \/ \E v \in Values : WebOpen(v) \/ HidAdjust(v)

(* The display is started again when it stops, its threads run, and the       *)
(* server finishes what it began.                                             *)
Fairness == WF_vars(UI) /\ WF_vars(Watcher) /\ WF_vars(WebClose)

Spec == Init /\ [][Next]_vars
FairSpec == Spec /\ Fairness

-----------------------------------------------------------------------------
\* The types of the variables.
TypeOK ==
    /\ path \in Inodes \cup {None}
    /\ content \in [Inodes -> Document]
    /\ web \in {"idle", "open"}
    /\ webFile \in Inodes \cup {None}
    /\ webValue \in Values
    /\ wstate \in {"start", "watch"}
    /\ watch \in Inodes \cup {None}
    /\ inotify \in Seq({"closeWrite", "ignored"})
    /\ loads \in Nat
    /\ upc \in {"off", "init", "idle", "write", "rename"}
    /\ temp \in Inodes \cup {None}
    /\ store \in Values
    /\ edit \in {"none", "watched", "early", "unwatched"}
    /\ failed \in BOOLEAN

\* Whenever the display dies, the file at the path is a whole document, unless
\* the server is in the middle of writing it, or the stream failed and the file
\* it cut short was renamed: a save is never seen half done, and the next one that
\* succeeds repairs what a failed one did (Settings.cpp:210-225).
PathIsWhole ==
    path # None /\ content[path].value = Broken =>
        \/ web = "open" /\ webFile = path
        \/ failed /\ content[path].by = "display"

\* What the display saved is what it has in memory, as long as the web does not
\* write the file and the last save did not fail: events of the watch that are
\* late, doubled or about a file that is gone never bring an older document back.
SavedIsStore ==
    upc = "idle" /\ ~failed /\ path # None /\ content[path].by = "display" =>
        store = content[path].value

\* Settings.cpp:257-264 keeps the settings in memory when a document cannot be
\* parsed: a running display never falls back on its defaults because it read
\* the file while the server was writing it, or one that a full disk cut short.
NeverBackToDefault ==
    [][upc = "idle" /\ upc' = "idle" /\ store' # store => content[path].value = store']_vars

\* Once web and knob are left alone, memory and file agree, unless the last edit
\* was made before the watch began or to a file that is not under watch, or the
\* last save failed: whatever a save, a load and an edit did to each other, they
\* end with one of them.
Settles ==
    <>[](path # None /\ ~failed /\ edit \notin {"early", "unwatched"} =>
            store = content[path].value)

\* Settings.cpp:29-30, "It is responsible for notifying the Settings object when
\* stuff happens": an edit made while the watch thread runs is loaded, also after
\* the display itself has saved the file.
EditAfterSaveLoads ==
    edit = "unwatched" /\ saves > 0 /\ upc = "idle" /\ ~failed ~> edit = "none"
=============================================================================
