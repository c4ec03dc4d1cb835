--------------------------- MODULE ConfigManagerProofs --------------------------
(* What ConfigManager promises of the file and of the callbacks, for every *)
(* number of callers, edits, watchers and crashes, with the proofs.        *)
EXTENDS ConfigManager, TLAPS, FiniteSetTheorems

(* What the fields hold: the file and its editors, the manager with its    *)
(* watchers, and where the goroutines are.                                 *)
FileShape ==
    /\ file \in Configs \cup {Torn, NoFile} /\ tmp \in Configs \cup {Torn, NoFile}
    /\ edits \in Edits /\ editing \in BOOLEAN /\ crashes \in 0..MaxCrashes
Managers ==
    [instance : Configs, path : BOOLEAN, once : {"no", "running", "done", "failed"},
     enableWatch : BOOLEAN, watcher : Watchers \cup {0}, watchOnce : BOOLEAN, quit : BOOLEAN]
ManagerShape ==
    /\ cm \in Managers
    /\ told \in Configs /\ overtaken \in BOOLEAN /\ seen \in BOOLEAN
WatchShape ==
    /\ watches \in [DOMAIN watches -> [on : BOOLEAN, open : BOOLEAN, event : BOOLEAN]]
    /\ DOMAIN watches \subseteq Watchers
    /\ cm.watcher # 0 => cm.watcher \in DOMAIN watches /\ watches[cm.watcher].open
CallerShape ==
    caller \in [Callers ->
        [at : {"idle", "parse", "watch", "swap", "callbacks", "write", "rename"}, new : Configs]]
LoopShape ==
    loops \in [Watchers ->
        [at : {"none", "top", "select", "swap", "callbacks", "gone"}, new : Configs,
         on : Watchers \cup {0}, armed : BOOLEAN]]
Shape == FileShape /\ ManagerShape /\ WatchShape /\ CallerShape /\ LoopShape

(* The watchers are numbered in the order they are made, and a loop begins *)
(* with its watcher.                                                       *)
Numbered ==
    \E n \in 0..MaxWatchers :
        DOMAIN watches = 1..n /\ \A w \in Watchers : w > n => loops[w].at = "none"

(* One SaveConfig at a time, and what it renames is a whole configuration. *)
Saving ==
    /\ \A c, d \in Callers :
          caller[c].at \in {"write", "rename"} /\ caller[d].at \in {"write", "rename"} => c = d
    /\ \A c \in Callers : caller[c].at = "rename" => tmp \in Configs

(* Unless reloads have overtaken each other there is at most one that is   *)
(* at its callbacks, with the configuration in use; after it the callbacks *)
(* know that one.                                                          *)
Telling ==
    ~overtaken =>
        /\ ~Calling => told = cm.instance
        /\ \A c \in Callers : caller[c].at = "callbacks" => caller[c].new = cm.instance
        /\ \A w \in Watchers : loops[w].at = "callbacks" => loops[w].new = cm.instance
        /\ \A c, d \in Callers :
              caller[c].at = "callbacks" /\ caller[d].at = "callbacks" => c = d
        /\ \A w, v \in Watchers :
              loops[w].at = "callbacks" /\ loops[v].at = "callbacks" => w = v
        /\ \A c \in Callers, w \in Watchers :
              ~(caller[c].at = "callbacks" /\ loops[w].at = "callbacks")

IInv == Shape /\ Numbered /\ FileIntact /\ Saving /\ Telling

------------------------------------------------------------------------------
(* The three names are no numbers, and no configurations but for Partial. *)
LEMMA Names ==
    /\ MaxEdits \in Nat /\ MaxWatchers \in Nat /\ MaxCrashes \in Nat
    /\ 0 \in Edits /\ Edits \subseteq Configs /\ Partial \in Configs
    /\ Torn \notin Configs /\ NoFile \notin Configs /\ Torn # NoFile
    /\ 0 \notin Watchers
  <1>1. MaxEdits \in Nat /\ MaxWatchers \in Nat /\ MaxCrashes \in Nat
    BY ConfigAssumption
  <1>2. Torn \notin Int /\ NoFile \notin Int
    BY ConfigAssumption
  <1>. QED
    BY ConfigAssumption DEF Edits, Configs, Watchers

(* What Telling says does not change with a step that leaves alone which   *)
(* callbacks are running, with what, and what they have told.              *)
LEMMA NoReload ==
  ASSUME Telling, UNCHANGED <<cm.instance, told, overtaken>>,
         \A c \in Callers : (caller'[c].at = "callbacks" <=> caller[c].at = "callbacks")
                            /\ caller'[c].new = caller[c].new,
         \A w \in Watchers : (loops'[w].at = "callbacks" <=> loops[w].at = "callbacks")
                            /\ loops'[w].new = loops[w].new
  PROVE  Telling'
  BY DEF Telling, Calling

(* What a reload finds in the file is a configuration. *)
LEMMA ParsedIs == FileShape => Parsed \subseteq Configs
  BY Names DEF FileShape, Parsed

(* startWatch and stopWatch, for a manager that differs from the present   *)
(* one in other fields, leave an open watcher or none, and no goroutine at *)
(* its callbacks that was not there.                                       *)
LEMMA StartWatchKeeps ==
  ASSUME Shape, Numbered, NEW m \in Managers, m.watcher = cm.watcher, startWatch(m)
  PROVE  /\ cm' \in Managers /\ cm'.instance = m.instance /\ seen' = seen
         /\ WatchShape' /\ LoopShape' /\ Numbered'
         /\ \A w \in Watchers : (loops'[w].at = "callbacks" <=> loops[w].at = "callbacks")
                                /\ loops'[w].new = loops[w].new
  <1>. USE Names DEF Shape
  <1>1. CASE m.watchOnce
    BY <1>1 DEF startWatch, WatchShape, LoopShape, Numbered
  <1>2. CASE ~m.watchOnce
    <2>. DEFINE w == Cardinality(DOMAIN watches) + 1
    <2>1. /\ w \in Watchers
          /\ cm' = [m EXCEPT !.watchOnce = TRUE, !.watcher = w]
          /\ watches' = [v \in DOMAIN watches \cup {w} |->
                            IF v = w THEN [on |-> Readable, open |-> TRUE, event |-> FALSE]
                            ELSE watches[v]]
          /\ loops' = IF Readable THEN [loops EXCEPT ![w].at = "top"] ELSE loops
          /\ seen' = seen
      BY <1>2 DEF startWatch
    <2>. HIDE DEF w
    <2>2. cm' \in Managers /\ cm'.instance = m.instance /\ cm'.watcher = w
      BY <2>1 DEF Managers
    <2>3. WatchShape'
      BY <2>1 DEF WatchShape, Readable
    <2>4. LoopShape'
      BY <2>1 DEF LoopShape
    <2>5. PICK n \in 0..MaxWatchers :
              DOMAIN watches = 1..n /\ \A v \in Watchers : v > n => loops[v].at = "none"
      BY DEF Numbered
    <2>6. w = n + 1
      <3>1. n \in Nat /\ Cardinality(1..n) = n
        BY <2>5, FS_Interval
      <3>. QED
        BY <2>5, <3>1 DEF w
    <2>7. loops[w].at = "none"
      BY <2>1, <2>5, <2>6
    <2>8. \A v \in Watchers : (loops'[v].at = "callbacks" <=> loops[v].at = "callbacks")
                              /\ loops'[v].new = loops[v].new
      BY <2>1, <2>7
    <2>9. Numbered'
      <3>1. DOMAIN watches' = 1..(n + 1) /\ n + 1 \in 0..MaxWatchers
        BY <2>1, <2>5, <2>6 DEF Watchers
      <3>2. \A v \in Watchers : v > n + 1 => loops'[v].at = "none"
        BY <2>1, <2>5, <2>6 DEF Watchers
      <3>. QED
        BY <3>1, <3>2 DEF Numbered
    <2>. QED
      BY <2>1, <2>2, <2>3, <2>4, <2>8, <2>9
  <1>. QED
    BY <1>1, <1>2

LEMMA StopWatchKeeps ==
  ASSUME Shape, NEW m \in Managers, m.watcher = cm.watcher, stopWatch(m)
  PROVE  /\ cm' \in Managers /\ cm'.instance = m.instance /\ seen' = FALSE
         /\ WatchShape' /\ loops' = loops /\ DOMAIN watches' = DOMAIN watches
  <1>1. cm' \in Managers /\ cm'.instance = m.instance /\ cm'.watcher = 0
    BY Zenon DEF stopWatch, Managers
  <1>2. WatchShape'
    <2>1. watches' = [v \in DOMAIN watches |->
                         IF v = cm.watcher THEN [watches[v] EXCEPT !.open = FALSE, !.on = FALSE]
                         ELSE watches[v]]
      BY Zenon DEF stopWatch
    <2>2. watches' \in [DOMAIN watches' -> [on : BOOLEAN, open : BOOLEAN, event : BOOLEAN]]
      <3>1. \A v \in DOMAIN watches :
               watches[v] \in [on : BOOLEAN, open : BOOLEAN, event : BOOLEAN]
        BY Zenon DEF Shape, WatchShape
      <3>2. ASSUME NEW v \in DOMAIN watches
            PROVE  [watches[v] EXCEPT !.open = FALSE, !.on = FALSE]
                      \in [on : BOOLEAN, open : BOOLEAN, event : BOOLEAN]
        BY <3>1
      <3>. QED
        BY <2>1, <3>1, <3>2
    <2>. QED
      BY <1>1, <2>1, <2>2 DEF Shape, WatchShape
  <1>3. DOMAIN watches' = DOMAIN watches /\ loops' = loops /\ seen' = FALSE
    BY Zenon DEF stopWatch
  <1>. QED
    BY <1>1, <1>2, <1>3

(* The invariant holds at the start, and each action keeps it. *)
LEMMA InitIInv == Init => IInv
  <1>. SUFFICES ASSUME Init PROVE IInv
    OBVIOUS
  <1>1. FileShape
    <2>1. file \in Configs \cup {Torn, NoFile} /\ tmp \in Configs \cup {Torn, NoFile}
      BY Names DEF Init
    <2>2. edits \in Edits /\ crashes \in 0..MaxCrashes
      BY Names DEF Init
    <2>3. editing \in BOOLEAN
      BY DEF Init
    <2>. QED
      BY <2>1, <2>2, <2>3 DEF FileShape
  <1>2. ManagerShape
    <2>1. cm \in Managers
      BY Names DEF Init, NewManager, Managers
    <2>2. told \in Configs /\ overtaken = FALSE /\ seen = FALSE
      BY Names DEF Init
    <2>. QED
      BY <2>1, <2>2 DEF ManagerShape
  <1>3. WatchShape
    BY DEF Init, WatchShape, NewManager
  <1>4. CallerShape
    BY Names DEF Init, CallerShape, NoCall
  <1>5. LoopShape
    BY Names DEF Init, LoopShape, NoLoop
  <1>6. Numbered
    BY Names DEF Init, Numbered, NoLoop, Watchers
  <1>7. FileIntact
    BY Names DEF Init, FileIntact
  <1>8. Saving
    BY DEF Init, Saving, NoCall
  <1>9. Telling
    BY DEF Init, Telling, NewManager, NoCall, NoLoop
  <1>. QED
    BY <1>1, <1>2, <1>3, <1>4, <1>5, <1>6, <1>7, <1>8, <1>9 DEF IInv, Shape

LEMMA EditBeginsKeeps ==
  ASSUME IInv, EditBegins
  PROVE  IInv'
  <1>. USE Names DEF IInv, Shape
  <1>1. CallerShape' /\ LoopShape' /\ Saving' /\ Telling'
    BY DEF EditBegins, CallerShape, LoopShape, Saving, Telling, Calling
  <1>2. FileShape'
    BY DEF EditBegins, Edits, FileShape
  <1>3. ManagerShape'
    BY DEF EditBegins, ManagerShape
  <1>4. WatchShape'
    BY DEF EditBegins, Notified, WatchShape
  <1>5. Numbered'
    BY DEF EditBegins, Notified, Numbered
  <1>6. FileIntact'
    BY DEF EditBegins, FileIntact
  <1>. QED
    BY <1>1, <1>2, <1>3, <1>4, <1>5, <1>6

LEMMA EditEndsKeeps ==
  ASSUME IInv, EditEnds
  PROVE  IInv'
  <1>. USE Names DEF IInv, Shape
  <1>1. CallerShape' /\ LoopShape' /\ Saving' /\ Telling'
    BY DEF EditEnds, CallerShape, LoopShape, Saving, Telling, Calling
  <1>2. FileShape'
    BY DEF EditEnds, FileShape
  <1>3. ManagerShape'
    BY DEF EditEnds, Watched, ManagerShape
  <1>4. WatchShape'
    BY DEF EditEnds, Notified, WatchShape
  <1>5. Numbered'
    BY DEF EditEnds, Notified, Numbered
  <1>6. FileIntact'
    BY DEF EditEnds, FileShape, FileIntact
  <1>. QED
    BY <1>1, <1>2, <1>3, <1>4, <1>5, <1>6

LEMMA EditReplacesKeeps ==
  ASSUME IInv, EditReplaces
  PROVE  IInv'
  <1>. USE Names DEF IInv, Shape
  <1>1. CallerShape' /\ LoopShape' /\ Saving' /\ Telling'
    BY DEF EditReplaces, CallerShape, LoopShape, Saving, Telling, Calling
  <1>2. FileShape'
    BY DEF EditReplaces, Edits, FileShape
  <1>3. ManagerShape'
    BY DEF EditReplaces, ManagerShape
  <1>4. WatchShape'
    BY Zenon DEF EditReplaces, Lost, WatchShape
  <1>5. Numbered'
    BY DEF EditReplaces, Lost, Numbered
  <1>6. FileIntact'
    BY DEF EditReplaces, FileShape, Edits, FileIntact
  <1>. QED
    BY <1>1, <1>2, <1>3, <1>4, <1>5, <1>6

LEMMA CrashKeeps ==
  ASSUME IInv, Crash
  PROVE  IInv'
  <1>. USE Names DEF IInv, Shape
  <1>1. FileIntact'
    BY DEF Crash, fileVars, FileIntact
  <1>2. FileShape'
    BY DEF Crash, fileVars, FileShape
  <1>3. ManagerShape'
    BY DEF Crash, NewManager, ManagerShape, Managers
  <1>4. WatchShape'
    BY DEF Crash, NewManager, WatchShape
  <1>5. CallerShape'
    BY DEF Crash, NoCall, CallerShape
  <1>6. LoopShape'
    BY DEF Crash, NoLoop, LoopShape
  <1>7. Numbered'
    <2>1. 0 \in 0..MaxWatchers /\ DOMAIN watches' = 1..0
      BY DEF Crash
    <2>2. \A w \in Watchers : loops'[w].at = "none"
      BY DEF Crash, NoLoop
    <2>. QED
      BY <2>1, <2>2 DEF Numbered
  <1>8. Saving'
    BY DEF Crash, NoCall, Saving
  <1>9. Telling'
    BY DEF Crash, NewManager, NoCall, NoLoop, Telling
  <1>. QED
    BY <1>1, <1>2, <1>3, <1>4, <1>5, <1>6, <1>7, <1>8, <1>9

LEMMA LoadFindsKeeps ==
  ASSUME IInv, NEW c \in Callers, LoadFinds(c)
  PROVE  IInv'
  <1>. USE Names DEF IInv, Shape
  <1>1. FileShape' /\ LoopShape' /\ Numbered' /\ FileIntact'
    BY DEF LoadFinds, fileVars, FileShape, LoopShape, Numbered, FileIntact
  <1>2. ManagerShape'
    BY Zenon DEF LoadFinds, history, ManagerShape, Managers
  <1>3. WatchShape'
    <2>1. cm'.watcher = cm.watcher
      BY DEF LoadFinds, ManagerShape, Managers
    <2>. QED
      BY <2>1 DEF LoadFinds, WatchShape
  <1>4. CallerShape'
    BY DEF LoadFinds, At, CallerShape
  <1>5. Saving'
    BY DEF LoadFinds, At, fileVars, CallerShape, Saving
  <1>6. Telling'
    <2>1. cm'.instance = cm.instance
      BY DEF LoadFinds, ManagerShape, Managers
    <2>. QED
      BY <2>1, NoReload DEF LoadFinds, At, history, CallerShape
  <1>. QED
    BY <1>1, <1>2, <1>3, <1>4, <1>5, <1>6

LEMMA LoadParsesKeeps ==
  ASSUME IInv, NEW c \in Callers, LoadParses(c)
  PROVE  IInv'
  <1>. USE Names DEF IInv, Shape
  <1>1. FileShape' /\ LoopShape' /\ Numbered' /\ FileIntact'
    BY DEF LoadParses, fileVars, FileShape, LoopShape, Numbered, FileIntact
  <1>2. ManagerShape'
    <2>1. CASE cm' = [cm EXCEPT !.once = "failed"] /\ UNCHANGED <<told, overtaken>>
      BY <2>1 DEF LoadParses, ManagerShape, Managers
    <2>2. ASSUME NEW new \in Parsed, cm' = [cm EXCEPT !.instance = new],
                 told' = new, overtaken' = (overtaken \/ Calling)
          PROVE  ManagerShape'
      <3>1. new \in Configs
        BY <2>2, ParsedIs
      <3>2. cm' \in Managers
        BY <2>2, <3>1 DEF ManagerShape, Managers
      <3>3. overtaken' \in BOOLEAN
        BY <2>2, Zenon DEF ManagerShape, Calling
      <3>. QED
        BY <2>2, <3>1, <3>2, <3>3 DEF LoadParses, ManagerShape
    <2>. QED
      BY <2>1, <2>2, Zenon DEF LoadParses
  <1>3. WatchShape'
    <2>1. cm'.watcher = cm.watcher
      BY DEF LoadParses, ManagerShape, Managers
    <2>. QED
      BY <2>1 DEF LoadParses, WatchShape
  <1>4. CallerShape'
    BY DEF LoadParses, At, CallerShape
  <1>5. Saving'
    BY DEF LoadParses, At, fileVars, Calling, CallerShape, Saving
  <1>6. Telling'
    <2>1. CASE At(c, "idle") /\ overtaken' = overtaken /\ told' = told
      <3>1. cm'.instance = cm.instance
        BY <2>1 DEF LoadParses, At, ManagerShape, Managers, CallerShape
      <3>. QED
        BY <2>1, <3>1, NoReload DEF LoadParses, At
    <2>2. ASSUME NEW new \in Parsed, cm' = [cm EXCEPT !.instance = new], At(c, "watch"),
                 told' = new, overtaken' = (overtaken \/ Calling)
          PROVE  Telling'
      BY <2>2 DEF LoadParses, At, ManagerShape, Managers, CallerShape, Calling, Telling
    <2>. QED
      BY <2>1, <2>2, Zenon DEF LoadParses
  <1>. QED
    BY <1>1, <1>2, <1>3, <1>4, <1>5, <1>6

LEMMA LoadWatchesKeeps ==
  ASSUME IInv, NEW c \in Callers, LoadWatches(c)
  PROVE  IInv'
  <1>. USE Names DEF IInv, Shape
  <1>1. FileShape' /\ FileIntact'
    BY DEF LoadWatches, fileVars, FileShape, FileIntact
  <1>. DEFINE m == [cm EXCEPT !.once = "done"]
  <1>2. m \in Managers /\ m.watcher = cm.watcher /\ m.instance = cm.instance
    BY DEF ManagerShape, Managers
  <1>3. CallerShape' /\ Saving'
    BY DEF LoadWatches, At, fileVars, CallerShape, Saving
  <1>4. ManagerShape' /\ WatchShape' /\ LoopShape' /\ Numbered'
    <2>1. CASE cm.enableWatch
      BY <1>2, <2>1, StartWatchKeeps DEF LoadWatches, ManagerShape
    <2>2. CASE ~cm.enableWatch
      BY <1>2, <2>2 DEF LoadWatches, ManagerShape, WatchShape, LoopShape, Numbered
    <2>. QED
      BY <2>1, <2>2
  <1>5. Telling'
    <2>1. CASE cm.enableWatch
      BY <1>2, StartWatchKeeps, NoReload DEF LoadWatches, At, CallerShape
    <2>2. CASE ~cm.enableWatch
      BY <1>2, <2>2, NoReload DEF LoadWatches, At, CallerShape
    <2>. QED
      BY <2>1, <2>2
  <1>. QED
    BY <1>1, <1>3, <1>4, <1>5

LEMMA EnableWatchKeeps ==
  ASSUME IInv, NEW c \in Callers, NEW enable \in BOOLEAN, EnableWatch(c, enable)
  PROVE  IInv'
  <1>. USE Names DEF IInv, Shape
  <1>1. FileShape' /\ CallerShape' /\ FileIntact' /\ Saving'
    BY DEF EnableWatch, fileVars, startWatch, FileShape, CallerShape, FileIntact, Saving
  <1>. DEFINE m == [cm EXCEPT !.enableWatch = enable /\ cm.once \in {"no", "running"}]
  <1>2. m \in Managers /\ m.watcher = cm.watcher /\ m.instance = cm.instance
    BY DEF ManagerShape, Managers
  <1>3. CASE enable /\ cm.path
    <2>1. ManagerShape' /\ WatchShape' /\ LoopShape' /\ Numbered'
      BY <1>2, <1>3, StartWatchKeeps DEF EnableWatch, ManagerShape
    <2>2. Telling'
      BY <1>2, <1>3, StartWatchKeeps, NoReload DEF EnableWatch
    <2>. QED
      BY <1>1, <2>1, <2>2
  <1>4. CASE ~(enable /\ cm.path)
    <2>1. ManagerShape' /\ WatchShape' /\ LoopShape' /\ Numbered'
      BY <1>2, <1>4, StopWatchKeeps DEF EnableWatch, ManagerShape, LoopShape, Numbered
    <2>2. Telling'
      BY <1>2, <1>4, StopWatchKeeps, NoReload DEF EnableWatch
    <2>. QED
      BY <1>1, <2>1, <2>2
  <1>. QED
    BY <1>3, <1>4

LEMMA CloseKeeps ==
  ASSUME IInv, NEW c \in Callers, Close(c)
  PROVE  IInv'
  <1>. USE Names DEF IInv, Shape
  <1>1. FileShape' /\ CallerShape' /\ LoopShape' /\ FileIntact' /\ Saving'
    BY Zenon DEF Close, stopWatch, fileVars, FileShape, CallerShape, LoopShape, FileIntact,
       Saving
  <1>. DEFINE m == [cm EXCEPT !.quit = TRUE]
  <1>2. m \in Managers /\ m.watcher = cm.watcher /\ m.instance = cm.instance
    BY DEF ManagerShape, Managers
  <1>3. ManagerShape' /\ WatchShape' /\ LoopShape' /\ Numbered'
    BY <1>2, StopWatchKeeps DEF Close, ManagerShape, LoopShape, Numbered
  <1>4. Telling'
    BY <1>2, StopWatchKeeps, NoReload DEF Close
  <1>. QED
    BY <1>1, <1>3, <1>4

LEMMA SaveBeginsKeeps ==
  ASSUME IInv, NEW c \in Callers, SaveBegins(c)
  PROVE  IInv'
  <1>. USE Names DEF IInv, Shape
  <1>1. ManagerShape' /\ WatchShape' /\ LoopShape' /\ Numbered' /\ FileIntact'
    BY DEF SaveBegins, history, ManagerShape, WatchShape, LoopShape, Numbered, FileIntact
  <1>2. FileShape'
    BY DEF SaveBegins, FileShape
  <1>3. CallerShape'
    BY DEF SaveBegins, At, CallerShape
  <1>4. Saving'
    BY DEF SaveBegins, At, Unlocked, Saving
  <1>5. Telling'
    BY NoReload DEF SaveBegins, At, history
  <1>. QED
    BY <1>1, <1>2, <1>3, <1>4, <1>5

LEMMA SaveWritesKeeps ==
  ASSUME IInv, NEW c \in Callers, SaveWrites(c)
  PROVE  IInv'
  <1>. USE Names DEF IInv, Shape
  <1>1. ManagerShape' /\ WatchShape' /\ LoopShape' /\ Numbered' /\ FileIntact'
    BY DEF SaveWrites, history, ManagerShape, WatchShape, LoopShape, Numbered, FileIntact
  <1>2. FileShape'
    BY DEF SaveWrites, ManagerShape, Managers, FileShape
  <1>3. CallerShape'
    BY DEF SaveWrites, At, CallerShape
  <1>4. Saving'
    BY DEF SaveWrites, At, CallerShape, ManagerShape, Managers, Saving
  <1>5. Telling'
    BY NoReload DEF SaveWrites, At, history, CallerShape
  <1>. QED
    BY <1>1, <1>2, <1>3, <1>4, <1>5

LEMMA SaveRenamesKeeps ==
  ASSUME IInv, NEW c \in Callers, SaveRenames(c)
  PROVE  IInv'
  <1>. USE Names DEF IInv, Shape
  <1>1. LoopShape'
    BY DEF SaveRenames, LoopShape
  <1>2. FileShape'
    BY DEF SaveRenames, FileShape
  <1>3. ManagerShape'
    BY DEF SaveRenames, ManagerShape
  <1>4. WatchShape'
    BY DEF SaveRenames, Lost, WatchShape
  <1>5. CallerShape'
    BY DEF SaveRenames, At, CallerShape
  <1>6. Numbered'
    BY DEF SaveRenames, Lost, Numbered
  <1>7. FileIntact'
    BY DEF SaveRenames, FileIntact, Saving
  <1>8. Saving'
    BY DEF SaveRenames, At, CallerShape, Saving
  <1>9. Telling'
    BY NoReload DEF SaveRenames, At
  <1>. QED
    BY <1>1, <1>2, <1>3, <1>4, <1>5, <1>6, <1>7, <1>8, <1>9

LEMMA ReloadKeeps ==
  ASSUME IInv, NEW c \in Callers, Reload(c)
  PROVE  IInv'
  <1>. USE Names DEF IInv, Shape
  <1>1. FileShape' /\ LoopShape' /\ Numbered' /\ FileIntact'
    BY DEF Reload, fileVars, FileShape, LoopShape, Numbered, FileIntact
  <1>2. ManagerShape'
    <2>1. PICK new \in Parsed : Swap(new)
      BY Zenon DEF Reload
    <2>. QED
      BY ParsedIs DEF Reload, Swap, ManagerShape, Managers
  <1>3. WatchShape'
    BY DEF Reload, Swap, Parsed, WatchShape
  <1>4. CallerShape'
    BY DEF Reload, Parsed, FileShape, CallerShape
  <1>5. Saving'
    BY DEF Reload, fileVars, Saving
  <1>6. Telling'
    <2>1. PICK new \in Parsed :
              Swap(new) /\ caller' = [caller EXCEPT ![c] = [at |-> "callbacks", new |-> new]]
      BY Zenon DEF Reload
    <2>2. cm'.instance = new
      BY <2>1 DEF Swap
    <2>. QED
      BY <2>1, <2>2 DEF Reload, Swap, CallerShape, Calling, Telling
  <1>. QED
    BY <1>1, <1>2, <1>3, <1>4, <1>5, <1>6

LEMMA ReloadReturnsKeeps ==
  ASSUME IInv, NEW c \in Callers, ReloadReturns(c)
  PROVE  IInv'
  <1>. USE Names DEF IInv, Shape
  <1>1. FileShape' /\ WatchShape' /\ LoopShape' /\ Numbered' /\ FileIntact'
    BY DEF ReloadReturns, fileVars, FileShape, WatchShape, LoopShape, Numbered, FileIntact
  <1>2. ManagerShape'
    <2>1. caller[c].new \in Configs
      BY DEF CallerShape
    <2>. QED
      BY <2>1 DEF ReloadReturns, Callbacks, ManagerShape
  <1>3. CallerShape'
    BY DEF ReloadReturns, NoCall, CallerShape
  <1>4. Saving'
    BY DEF ReloadReturns, NoCall, fileVars, Saving
  <1>5. Telling'
    BY DEF ReloadReturns, Callbacks, NoCall, Telling
  <1>. QED
    BY <1>1, <1>2, <1>3, <1>4, <1>5

LEMMA LoopEntersKeeps ==
  ASSUME IInv, NEW w \in Watchers, LoopEnters(w)
  PROVE  IInv'
  <1>. USE Names DEF IInv, Shape
  <1>1. FileShape' /\ ManagerShape' /\ WatchShape' /\ CallerShape' /\ FileIntact' /\ Saving'
    BY DEF LoopEnters, fileVars, history, FileShape, ManagerShape, WatchShape,
       CallerShape, FileIntact, Saving
  <1>2. LoopShape'
    <2>1. cm.watcher \in Watchers \cup {0}
      BY DEF ManagerShape, Managers
    <2>2. loops' = [loops EXCEPT ![w].at = "select", ![w].on = cm.watcher]
      BY DEF LoopEnters
    <2>. QED
      BY <2>1, <2>2, ZenonT(60) DEF LoopShape
  <1>3. Numbered'
    BY DEF LoopEnters, LoopShape, Numbered
  <1>4. Telling'
    BY NoReload DEF LoopEnters, history, LoopShape
  <1>. QED
    BY <1>1, <1>2, <1>3, <1>4

LEMMA LoopEventKeeps ==
  ASSUME IInv, NEW w \in Watchers, LoopEvent(w)
  PROVE  IInv'
  <1>. USE Names DEF IInv, Shape
  <1>1. FileShape' /\ ManagerShape' /\ CallerShape' /\ FileIntact' /\ Saving'
    BY DEF LoopEvent, fileVars, history, FileShape, ManagerShape, CallerShape, FileIntact,
       Saving
  <1>2. WatchShape'
    BY Zenon DEF LoopEvent, WatchShape
  <1>3. LoopShape'
    BY ZenonT(60) DEF LoopEvent, fileVars, history, FileShape, LoopShape
  <1>4. Numbered'
    BY DEF LoopEvent, LoopShape, Numbered
  <1>5. Telling'
    BY NoReload DEF LoopEvent, history, LoopShape
  <1>. QED
    BY <1>1, <1>2, <1>3, <1>4, <1>5

LEMMA LoopTimerKeeps ==
  ASSUME IInv, NEW w \in Watchers, LoopTimer(w)
  PROVE  IInv'
  <1>. USE Names DEF IInv, Shape
  <1>1. FileShape' /\ ManagerShape' /\ WatchShape' /\ CallerShape' /\ FileIntact' /\ Saving'
    BY DEF LoopTimer, fileVars, history, FileShape, ManagerShape, WatchShape, CallerShape,
       FileIntact, Saving
  <1>2. LoopShape'
    BY DEF LoopTimer, LoopShape
  <1>3. Numbered'
    BY DEF LoopTimer, LoopShape
  <1>4. Telling'
    BY DEF LoopTimer, LoopShape
  <1>. QED
    BY <1>1, <1>2, <1>3, <1>4

LEMMA LoopReloadsKeeps ==
  ASSUME IInv, NEW w \in Watchers, LoopReloads(w)
  PROVE  IInv'
  <1>. USE Names DEF IInv, Shape
  <1>1. FileShape' /\ CallerShape' /\ FileIntact' /\ Saving'
    BY DEF LoopReloads, fileVars, FileShape, CallerShape, FileIntact, Saving
  <1>2. ManagerShape'
    <2>1. CASE UNCHANGED <<cm, overtaken>>
      BY <2>1 DEF LoopReloads, ManagerShape
    <2>2. ASSUME NEW new \in Parsed, Swap(new) PROVE ManagerShape'
      BY <2>2, ParsedIs, Zenon DEF LoopReloads, Swap, ManagerShape, Managers
    <2>. QED
      BY <2>1, <2>2, Zenon DEF LoopReloads
  <1>3. WatchShape'
    <2>1. cm'.watcher = cm.watcher
      BY Zenon DEF LoopReloads, Swap, ManagerShape, Managers
    <2>. QED
      BY <2>1 DEF LoopReloads, WatchShape
  <1>4. LoopShape'
    <2>1. CASE Loop(w, "top")
      BY <2>1 DEF Loop, LoopShape
    <2>2. ASSUME NEW new \in Parsed,
                 loops' = [loops EXCEPT ![w].at = "callbacks", ![w].new = new]
          PROVE  LoopShape'
      BY <2>2, ParsedIs, Zenon DEF LoopShape
    <2>. QED
      BY <2>1, <2>2, Zenon DEF LoopReloads
  <1>5. Numbered'
    BY DEF LoopReloads, Loop, LoopShape, Numbered
  <1>6. Telling'
    <2>1. CASE Loop(w, "top") /\ UNCHANGED <<cm, overtaken>>
      BY <2>1, NoReload DEF LoopReloads, Loop
    <2>2. ASSUME NEW new \in Parsed, Swap(new),
                 loops' = [loops EXCEPT ![w].at = "callbacks", ![w].new = new]
          PROVE  Telling'
      <3>1. cm'.instance = new
        BY <2>2 DEF Swap, ManagerShape, Managers
      <3>2. /\ ~overtaken' => ~overtaken /\ ~Calling
            /\ UNCHANGED <<caller, told>>
        BY <2>2 DEF LoopReloads, Swap, ManagerShape
      <3>3. /\ loops'[w].at = "callbacks" /\ loops'[w].new = new
            /\ \A v \in Watchers : v # w => loops'[v] = loops[v]
        BY <2>2 DEF LoopShape
      <3>. QED
        BY <3>1, <3>2, <3>3 DEF Calling, Telling
    <2>. QED
      BY <2>1, <2>2, Zenon DEF LoopReloads
  <1>. QED
    BY <1>1, <1>2, <1>3, <1>4, <1>5, <1>6

LEMMA LoopCallbacksKeeps ==
  ASSUME IInv, NEW w \in Watchers, LoopCallbacks(w)
  PROVE  IInv'
  <1>. USE Names DEF IInv, Shape
  <1>1. FileShape' /\ WatchShape' /\ CallerShape' /\ FileIntact' /\ Saving'
    BY DEF LoopCallbacks, fileVars, FileShape, WatchShape, CallerShape, FileIntact, Saving
  <1>2. ManagerShape'
    <2>1. loops[w].new \in Configs
      BY DEF LoopShape
    <2>. QED
      BY <2>1 DEF LoopCallbacks, Callbacks, ManagerShape
  <1>3. LoopShape'
    BY Zenon DEF LoopCallbacks, Callbacks, fileVars, LoopShape
  <1>4. Numbered'
    BY DEF LoopCallbacks, LoopShape, Numbered
  <1>5. Telling'
    BY DEF LoopCallbacks, Callbacks, LoopShape, Telling
  <1>. QED
    BY <1>1, <1>2, <1>3, <1>4, <1>5

LEMMA LoopEndsKeeps ==
  ASSUME IInv, NEW w \in Watchers, LoopEnds(w)
  PROVE  IInv'
  <1>. USE Names DEF IInv, Shape
  <1>1. FileShape' /\ ManagerShape' /\ WatchShape' /\ CallerShape' /\ FileIntact' /\ Saving'
    BY DEF LoopEnds, fileVars, history, FileShape, ManagerShape, WatchShape, CallerShape,
       FileIntact, Saving
  <1>2. LoopShape'
    BY DEF LoopEnds, NoLoop, LoopShape
  <1>3. Numbered'
    BY DEF LoopEnds, Numbered
  <1>4. Telling'
    BY DEF LoopEnds, history, Telling, Calling
  <1>. QED
    BY <1>1, <1>2, <1>3, <1>4

------------------------------------------------------------------------------
(* A step of Next is one of the actions above. *)
LEMMA NextKeeps == IInv /\ [Next]_vars => IInv'
  <1>. SUFFICES ASSUME IInv, [Next]_vars PROVE IInv'
    OBVIOUS
  <1>1. CASE UNCHANGED vars
    <2>1. FileShape' /\ ManagerShape' /\ WatchShape' /\ CallerShape' /\ LoopShape' /\ Numbered'
      BY <1>1 DEF vars, fileVars, history, IInv, Shape, FileShape, ManagerShape,
         WatchShape, CallerShape, LoopShape, Numbered
    <2>2. FileIntact' /\ Saving' /\ Telling'
      BY <1>1 DEF vars, fileVars, history, IInv, FileIntact, Saving, Telling, Calling
    <2>. QED
      BY <2>1, <2>2 DEF IInv, Shape
  <1>2. ASSUME NEW c \in Callers, CallerGoesOn(c) PROVE IInv'
    BY <1>2, LoadParsesKeeps, LoadWatchesKeeps, SaveWritesKeeps, SaveRenamesKeeps,
       ReloadReturnsKeeps DEF CallerGoesOn
  <1>3. ASSUME NEW w \in Watchers, LoopGoesOn(w) PROVE IInv'
    BY <1>3, LoopEntersKeeps, LoopReloadsKeeps, LoopCallbacksKeeps, LoopEndsKeeps
       DEF LoopGoesOn
  <1>. QED
    BY <1>1, <1>2, <1>3, EditBeginsKeeps, EditEndsKeeps, EditReplacesKeeps, CrashKeeps,
       LoadFindsKeeps, CloseKeeps, SaveBeginsKeeps, ReloadKeeps, EnableWatchKeeps,
       LoopEventKeeps, LoopTimerKeeps DEF Next

(* At most one caller saves, which TypeOK says by counting. *)
LEMMA IInvImplies == IInv => ListenerIsCurrent
  <1>. SUFFICES ASSUME IInv PROVE ListenerIsCurrent
    OBVIOUS
  <1>. DEFINE S == {c \in Callers : caller[c].at \in {"write", "rename"}}
  <1>1. Cardinality(S) <= 1
    <2>1. CASE S = {}
      BY <2>1, FS_EmptySet
    <2>2. ASSUME NEW c \in S PROVE Cardinality(S) <= 1
      <3>1. S = {c}
        BY DEF IInv, Saving
      <3>2. Cardinality({c}) = 1
        BY FS_Singleton
      <3>. QED
        BY <3>1, <3>2
    <2>. QED
      BY <2>1, <2>2
  <1>2. TypeOK
    <2>1. {file, tmp} \subseteq Configs \cup {Torn, NoFile} /\ edits \in Edits /\ editing \in BOOLEAN
          /\ crashes \in 0..MaxCrashes
      BY DEF IInv, Shape, FileShape
    <2>2. /\ cm.instance \in Configs /\ cm.watcher \in Watchers \cup {0}
          /\ cm.once \in {"no", "running", "done", "failed"}
          /\ told \in Configs /\ {overtaken, seen} \subseteq BOOLEAN
      BY DEF IInv, Shape, ManagerShape, Managers
    <2>3. /\ \A w \in DOMAIN watches :
                w \in Watchers /\ {watches[w].on, watches[w].open, watches[w].event} \subseteq BOOLEAN
          /\ cm.watcher # 0 => watches[cm.watcher].open
      BY DEF IInv, Shape, WatchShape
    <2>4. \A w \in Watchers :
             loops[w].at \in {"none", "top", "select", "swap", "callbacks", "gone"}
      BY DEF IInv, Shape, LoopShape
    <2>5. \A c \in Callers :
             caller[c].at \in {"idle", "parse", "watch", "swap", "callbacks", "write", "rename"}
      BY DEF IInv, Shape, CallerShape
    <2>. QED
      BY <1>1, <2>1, <2>2, <2>3, <2>4, <2>5 DEF TypeOK
  <1>. QED
    BY <1>2 DEF IInv, Telling, ListenerIsCurrent

(* However many callers save, reload, watch and close, however often the   *)
(* file is edited and the process crashes: the file is torn only by an     *)
(* editor that writes in place (manager.go:132-161).                       *)
THEOREM ConfigFileIntact == Spec => []FileIntact
  <1>1. IInv => FileIntact
    BY DEF IInv
  <1>. QED
    BY <1>1, InitIInv, NextKeeps, PTL DEF Spec

(* Unless reloads overtook each other the callbacks have been told of the  *)
(* configuration in use when none is running (manager.go:163-216).         *)
THEOREM ConfigListeners == Spec => []ListenerIsCurrent
  BY InitIInv, NextKeeps, IInvImplies, PTL DEF Spec
==============================================================================
