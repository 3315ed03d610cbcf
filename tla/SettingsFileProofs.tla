------------------------- MODULE SettingsFileProofs -------------------------
(* What the display leaves at the settings path is whole, and is what it has  *)
(* in memory, for any settings and any number of saves, edits and crashes.    *)
EXTENDS SettingsFile, TLAPS

\* Three inodes are enough: the watched one is at the path or in the server,
\* which has written the file that it holds open.
Held ==
    /\ watch \in {None, path, webFile}
    /\ web = "idle" => webFile = None
    /\ web = "open" => webFile # None /\ content[webFile].by = "web"

\* The temporary file of a save is nobody else's, and is a whole document
\* unless the stream failed.
TempIsOwn ==
    upc = "rename" =>
        /\ temp # None /\ temp \notin {path, webFile}
        /\ content[temp].by = "display"
        /\ content[temp].value \in {store, Broken}

IInv == TypeOK /\ Held /\ TempIsOwn /\ PathIsWhole /\ SavedIsStore

-----------------------------------------------------------------------------
\* There is an inode for a file when at most two are in use.
LEMMA FreeInodeIsFree ==
  ASSUME NEW a \in Inodes \cup {None}, NEW b \in Inodes \cup {None}
  PROVE  FreeInode({a, b}) \in Inodes /\ FreeInode({a, b}) \notin {a, b}
<1>1. \E i \in Inodes : i \notin {a, b}
  BY DEF Inodes, None
<1> QED
  BY <1>1 DEF FreeInode

\* The queue of the watch holds its two kinds of events.
LEMMA NotifiedType ==
  ASSUME NEW queue \in Seq({"closeWrite", "ignored"}), NEW e \in {"closeWrite", "ignored"}
  PROVE  Notified(queue, e) \in Seq({"closeWrite", "ignored"})
BY DEF Notified

\* The display is off, and the file, if there is one, whole.
LEMMA InitEstablishesIInv == Init => IInv
<1> SUFFICES ASSUME Init PROVE IInv
  OBVIOUS
<1>1. content \in [Inodes -> Document] /\ path \in Inodes \cup {None}
  BY ValuesAssumption DEF Init, Document, Inodes, None
<1>2. path # None => content[path].value # Broken
  BY <1>1, ValuesAssumption DEF Init
<1>3. TypeOK
  <2>1. inotify \in Seq({"closeWrite", "ignored"}) /\ None \in Inodes \cup {None}
    BY DEF Init
  <2>2. store \in Values /\ webValue \in Values /\ loads \in Nat
    BY ValuesAssumption DEF Init
  <2> QED
    BY <1>1, <2>1, <2>2 DEF Init, TypeOK
<1>4. Held /\ TempIsOwn /\ PathIsWhole /\ SavedIsStore
  BY <1>2 DEF Init, Held, TempIsOwn, PathIsWhole, SavedIsStore
<1> QED
  BY <1>3, <1>4 DEF IInv

\* The server opens the file.
LEMMA OpenKeepsIInv ==
  ASSUME IInv, NEW v \in Values, WebOpen(v)
  PROVE  IInv'
<1> DEFINE i == IF path # None THEN path ELSE FreeInode({temp})
<1>1. i \in Inodes /\ (path # None => i = path) /\ (path = None => i # temp)
  <2>1. FreeInode({temp, temp}) \in Inodes /\ FreeInode({temp, temp}) # temp
    BY FreeInodeIsFree DEF IInv, TypeOK
  <2>2. {temp, temp} = {temp}
    OBVIOUS
  <2> QED
    BY <2>1, <2>2 DEF IInv, TypeOK, Inodes, None
<1>2. /\ path' = i /\ webFile' = i /\ web = "idle" /\ web' = "open" /\ webValue' = v
      /\ content' = [content EXCEPT ![i] = [by |-> "web", value |-> Broken]]
      /\ edit' = "none"
      /\ UNCHANGED <<watch, wstate, inotify, loads, upc, temp, store, failed>>
  BY DEF WebOpen, watcher
<1>3. TypeOK'
  BY <1>1, <1>2 DEF IInv, TypeOK, Document
<1>4. Held'
  BY <1>1, <1>2 DEF IInv, TypeOK, Held, Inodes, None
<1>5. TempIsOwn'
  BY <1>1, <1>2 DEF IInv, TypeOK, TempIsOwn
<1>6. PathIsWhole' /\ SavedIsStore'
  BY <1>1, <1>2 DEF IInv, TypeOK, PathIsWhole, SavedIsStore
<1> QED
  BY <1>3, <1>4, <1>5, <1>6 DEF IInv

\* The server writes the last piece and closes the file.
LEMMA CloseKeepsIInv ==
  ASSUME IInv, WebClose
  PROVE  IInv'
<1>1. /\ web = "open" /\ web' = "idle" /\ webFile \in Inodes /\ webFile' = None
      /\ content' = [content EXCEPT ![webFile] = [by |-> "web", value |-> webValue]]
      /\ UNCHANGED <<path, webValue, wstate, loads, upc, temp, store, failed>>
  BY DEF WebClose, IInv, TypeOK, Held
<1>2. /\ inotify' \in Seq({"closeWrite", "ignored"})
      /\ edit' \in {"none", "watched", "early", "unwatched"}
      /\ watch' = IF path # webFile /\ watch = webFile THEN None ELSE watch
  <2> DEFINE queue == IF watch = webFile THEN Notified(inotify, "closeWrite") ELSE inotify
  <2>1. queue \in Seq({"closeWrite", "ignored"})
    BY NotifiedType DEF IInv, TypeOK
  <2>2. CASE path = webFile
    BY <2>1, <2>2 DEF WebClose, IInv, TypeOK
  <2>3. CASE path # webFile
    <3>1. Unheld(webFile, queue) /\ UNCHANGED edit
      BY <2>3 DEF WebClose
    <3>2. Notified(queue, "ignored") \in Seq({"closeWrite", "ignored"})
      BY <2>1, NotifiedType
    <3> QED
      BY <2>1, <2>3, <3>1, <3>2 DEF Unheld, IInv, TypeOK
  <2> QED
    BY <2>2, <2>3
<1>3. TypeOK'
  BY <1>1, <1>2 DEF IInv, TypeOK, Document
<1>4. Held'
  BY <1>1, <1>2 DEF IInv, TypeOK, Held, Inodes, None
<1>5. TempIsOwn'
  BY <1>1 DEF IInv, TypeOK, TempIsOwn
<1>6. PathIsWhole' /\ SavedIsStore'
  BY <1>1, ValuesAssumption DEF IInv, TypeOK, PathIsWhole, SavedIsStore
<1> QED
  BY <1>3, <1>4, <1>5, <1>6 DEF IInv

\* The display writes its temporary file, whole or cut short.
LEMMA WriteKeepsIInv ==
  ASSUME IInv, upc = "write", upc' = "rename",
         NEW v \in {store, Broken},
         temp' = FreeInode({path, webFile, watch}),
         content' = [content EXCEPT ![temp'] = [by |-> "display", value |-> v]],
         UNCHANGED <<path, web, webFile, webValue, wstate, watch, inotify, loads, store,
                     edit, failed>>
  PROVE  IInv'
<1>1. temp' \in Inodes /\ temp' \notin {path, webFile}
  <2>1. FreeInode({path, webFile}) \in Inodes /\ FreeInode({path, webFile}) \notin {path, webFile}
    BY FreeInodeIsFree DEF IInv, TypeOK
  <2>2. \E i \in Inodes : i \notin {path, webFile, watch}
    BY <2>1 DEF IInv, Held, Inodes, None
  <2> QED
    BY <2>2 DEF FreeInode
<1>2. TypeOK'
  BY <1>1 DEF IInv, TypeOK, Document
<1>3. Held' /\ TempIsOwn'
  BY <1>1 DEF IInv, TypeOK, Held, TempIsOwn, Inodes, None
<1>4. PathIsWhole' /\ SavedIsStore'
  BY <1>1 DEF IInv, TypeOK, PathIsWhole, SavedIsStore
<1> QED
  BY <1>2, <1>3, <1>4 DEF IInv

\* The display puts its temporary file at the path.
LEMMA RenameKeepsIInv ==
  ASSUME IInv, SaveRename
  PROVE  IInv'
<1>1. /\ upc = "rename" /\ upc' = "idle" /\ path' = temp /\ temp' = None
      /\ edit' = "none" /\ failed' = (content[temp].value = Broken)
      /\ UNCHANGED <<content, web, webFile, webValue, wstate, loads, store>>
  BY DEF SaveRename, server
<1>2. /\ inotify' \in Seq({"closeWrite", "ignored"})
      /\ watch' = IF path \notin {None, webFile} /\ watch = path THEN None ELSE watch
  <2>1. Notified(inotify, "ignored") \in Seq({"closeWrite", "ignored"})
    BY NotifiedType DEF IInv, TypeOK
  <2> QED
    BY <2>1 DEF SaveRename, Unheld, IInv, TypeOK
<1>3. temp \in Inodes /\ content[temp].by = "display" /\ content[temp].value \in {store, Broken}
  BY <1>1 DEF IInv, TypeOK, TempIsOwn
<1>4. TypeOK'
  BY <1>1, <1>2, <1>3 DEF IInv, TypeOK
<1>5. Held' /\ TempIsOwn'
  BY <1>1, <1>2 DEF IInv, Held, TempIsOwn
<1>6. PathIsWhole' /\ SavedIsStore'
  BY <1>1, <1>3 DEF PathIsWhole, SavedIsStore
<1> QED
  BY <1>4, <1>5, <1>6 DEF IInv

\* A document that is read is what memory then holds; one that cannot be parsed
\* is the server's, or a save's that failed.
LEMMA LoadKeepsIInv ==
  ASSUME IInv, Load, upc' = "idle", edit' = "none", loads' \in Nat,
         UNCHANGED <<path, content, web, webFile, webValue, wstate, watch, inotify, temp, failed>>,
         upc \in {"init", "idle"}
  PROVE  IInv'
<1>1. store' = IF path # None /\ content[path].value # Broken
                 THEN content[path].value ELSE store
  BY DEF Load
<1>2. path # None => path \in Inodes /\ content[path] \in Document
  BY DEF IInv, TypeOK
<1>3. TypeOK'
  BY <1>1, <1>2 DEF IInv, TypeOK, Document
<1>4. Held' /\ TempIsOwn' /\ PathIsWhole'
  BY DEF IInv, Held, TempIsOwn, PathIsWhole
<1>5. SavedIsStore'
  <2>1. path # None /\ content[path].by = "display" /\ ~failed => content[path].value # Broken
    BY DEF IInv, Held, PathIsWhole
  <2> QED
    BY <1>1, <2>1 DEF SavedIsStore
<1> QED
  BY <1>3, <1>4, <1>5 DEF IInv

\* Every step keeps the invariant.
LEMMA NextPreservesIInv == IInv /\ [Next]_vars => IInv'
<1> SUFFICES ASSUME IInv, [Next]_vars PROVE IInv'
  OBVIOUS
<1> USE DEF server, watcher, bounds
<1>1. CASE UNCHANGED vars
  BY <1>1 DEF vars, IInv, TypeOK, Held, TempIsOwn, PathIsWhole, SavedIsStore
<1>2. CASE Boot
  <2>1. upc' = "init" /\ store' = Default
        /\ UNCHANGED <<path, content, server, watcher, loads, temp, edit, failed>>
    BY <1>2 DEF Boot
  <2>2. TypeOK'
    BY <2>1, ValuesAssumption DEF IInv, TypeOK
  <2>3. Held' /\ TempIsOwn' /\ PathIsWhole' /\ SavedIsStore'
    BY <2>1 DEF IInv, Held, TempIsOwn, PathIsWhole, SavedIsStore
  <2> QED
    BY <2>2, <2>3 DEF IInv
<1>3. CASE LoadInitially
  BY <1>3, LoadKeepsIInv DEF LoadInitially, IInv, TypeOK
<1>4. CASE LoadFromFile
  <2>1. loads' \in Nat
    BY <1>4 DEF LoadFromFile, IInv, TypeOK
  <2> QED
    BY <1>4, <2>1, LoadKeepsIInv DEF LoadFromFile
<1>5. CASE SaveWrite
  BY <1>5, WriteKeepsIInv DEF SaveWrite
<1>6. CASE SaveRename
  BY <1>6, RenameKeepsIInv
<1>7. CASE AddWatch
  <2>1. wstate' = "watch" /\ watch' = path
        /\ UNCHANGED <<path, content, server, inotify, loads, upc, temp, store, edit, failed>>
    BY <1>7 DEF AddWatch
  <2>2. TypeOK'
    BY <2>1 DEF IInv, TypeOK
  <2>3. Held' /\ TempIsOwn' /\ PathIsWhole' /\ SavedIsStore'
    BY <2>1 DEF IInv, Held, TempIsOwn, PathIsWhole, SavedIsStore
  <2> QED
    BY <2>2, <2>3 DEF IInv
<1>8. CASE NextEvent
  <2>1. /\ inotify' \in Seq({"closeWrite", "ignored"}) /\ loads' \in Nat
        /\ UNCHANGED <<path, content, server, wstate, watch, upc, temp, store, edit, failed>>
    BY <1>8 DEF NextEvent, IInv, TypeOK
  <2>2. TypeOK'
    BY <2>1 DEF IInv, TypeOK
  <2>3. Held' /\ TempIsOwn' /\ PathIsWhole' /\ SavedIsStore'
    BY <2>1 DEF IInv, Held, TempIsOwn, PathIsWhole, SavedIsStore
  <2> QED
    BY <2>2, <2>3 DEF IInv
<1>9. CASE WebClose
  BY <1>9, CloseKeepsIInv
<1>10. CASE Crash
  <2>1. /\ upc' = "off" /\ temp' = None /\ wstate' = "start" /\ watch' = None
        /\ inotify' = <<>> /\ loads' = 0 /\ store' = Default
        /\ UNCHANGED <<path, content, server, edit, failed>>
    BY <1>10 DEF Crash
  <2>2. TypeOK'
    BY <2>1, ValuesAssumption DEF IInv, TypeOK
  <2>3. Held' /\ TempIsOwn' /\ PathIsWhole' /\ SavedIsStore'
    BY <2>1 DEF IInv, Held, TempIsOwn, PathIsWhole, SavedIsStore
  <2> QED
    BY <2>2, <2>3 DEF IInv
<1>11. CASE WriteFails
  <2>1. CASE upc' = "idle"
    <3>1. failed' = TRUE
          /\ UNCHANGED <<path, content, server, watcher, loads, temp, store, edit>>
      BY <1>11, <2>1 DEF WriteFails
    <3>2. TypeOK'
      BY <2>1, <3>1 DEF IInv, TypeOK
    <3>3. content[path].value = Broken /\ path # None /\ ~(web = "open" /\ webFile = path)
            => content[path].by = "display"
      BY DEF IInv, PathIsWhole
    <3>4. Held' /\ TempIsOwn' /\ PathIsWhole' /\ SavedIsStore'
      BY <2>1, <3>1, <3>3 DEF IInv, Held, TempIsOwn, PathIsWhole, SavedIsStore
    <3> QED
      BY <3>2, <3>4 DEF IInv
  <2>2. CASE upc' # "idle"
    BY <1>11, <2>2, WriteKeepsIInv DEF WriteFails
  <2> QED
    BY <2>1, <2>2
<1>12. CASE RenameFails
  <2>1. /\ upc' = "idle" /\ temp' = None /\ failed' = TRUE
        /\ UNCHANGED <<path, content, server, watcher, loads, store, edit>>
    BY <1>12 DEF RenameFails
  <2>2. TypeOK'
    BY <2>1 DEF IInv, TypeOK
  <2>3. Held' /\ TempIsOwn' /\ PathIsWhole' /\ SavedIsStore'
    BY <2>1 DEF IInv, Held, TempIsOwn, PathIsWhole, SavedIsStore
  <2> QED
    BY <2>2, <2>3 DEF IInv
<1>13. ASSUME NEW v \in Values, WebOpen(v) PROVE IInv'
  BY <1>13, OpenKeepsIInv
<1>14. ASSUME NEW v \in Values, HidAdjust(v) PROVE IInv'
  <2>1. /\ upc' = "write" /\ store' = v
        /\ UNCHANGED <<path, content, server, watcher, loads, temp, edit, failed>>
    BY <1>14 DEF HidAdjust
  <2>2. TypeOK'
    BY <2>1 DEF IInv, TypeOK
  <2>3. Held' /\ TempIsOwn' /\ PathIsWhole' /\ SavedIsStore'
    BY <2>1 DEF IInv, Held, TempIsOwn, PathIsWhole, SavedIsStore
  <2> QED
    BY <2>2, <2>3 DEF IInv
<1> QED
  BY <1>1, <1>2, <1>3, <1>4, <1>5, <1>6, <1>7, <1>8, <1>9, <1>10, <1>11, <1>12, <1>13, <1>14
     DEF Next, UI, Watcher

\* The invariant holds throughout.
LEMMA Invariance == Spec => []IInv
  BY InitEstablishesIInv, NextPreservesIInv, PTL DEF Spec

-----------------------------------------------------------------------------
\* The variables of the file and of its two writers keep their types.
THEOREM TypeCorrectness == Spec => []TypeOK
<1>1. IInv => TypeOK
  BY DEF IInv
<1> QED
  BY <1>1, Invariance, PTL

\* Whenever the display dies, the file at the path is a whole document, unless the
\* server is writing it or a stream failed (Settings.cpp:210-225).
THEOREM PathAlwaysWhole == Spec => []PathIsWhole
<1>1. IInv => PathIsWhole
  BY DEF IInv
<1> QED
  BY <1>1, Invariance, PTL

\* What the display saved is what it has in memory, in whatever order saves,
\* loads, edits and events of the watch come (Settings.cpp:42-48, 210-225).
THEOREM SavedAlwaysStore == Spec => []SavedIsStore
<1>1. IInv => SavedIsStore
  BY DEF IInv
<1> QED
  BY <1>1, Invariance, PTL

\* A running display that reads a document which cannot be parsed keeps what it has
\* in memory (Settings.cpp:257-264).
THEOREM MemoryOnlyFromDocuments == Spec => NeverBackToDefault
<1>1. [Next]_vars =>
        [upc = "idle" /\ upc' = "idle" /\ store' # store => content[path].value = store']_vars
  <2> SUFFICES ASSUME Next, upc = "idle", upc' = "idle", store' # store
               PROVE  content[path].value = store'
    BY DEF vars
  <2>1. LoadFromFile
    BY DEF Next, UI, Watcher, Boot, LoadInitially, SaveWrite, SaveRename, AddWatch, NextEvent,
           WebClose, WebOpen, HidAdjust, Crash, WriteFails, RenameFails
  <2> QED
    BY <2>1 DEF LoadFromFile, Load
<1> QED
  BY <1>1, PTL DEF Spec, NeverBackToDefault
=============================================================================
