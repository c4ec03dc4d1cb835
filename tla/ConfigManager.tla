----------------------------- MODULE ConfigManager -----------------------------
(***************************************************************************)
(* The configuration manager of pkg/config, the file it loads, saves and   *)
(* watches, and those who edit that file.                                  *)
(*                                                                         *)
(* A configuration is known by its number.  A file whose writing is not    *)
(* over is Torn: to read it fails, or gives a configuration that lacks     *)
(* parts (an empty YAML file is a correct one), called Partial.  inotify   *)
(* watches the file itself, not its name: when another file takes the name *)
(* the watch is lost, and the event that tells of it is not one watchLoop  *)
(* acts upon.                                                              *)
(*                                                                         *)
(* What happens under cm.mu is one action, but for SaveConfig, in which    *)
(* the process may crash.  LoadConfig and Close take no lock.              *)
(***************************************************************************)
EXTENDS Integers, FiniteSets

CONSTANTS
    Callers,        \* goroutines of the application
    MaxEdits,       \* a bound on the edits of the file
    MaxWatchers,    \* a bound on the watchers ever made
    MaxCrashes,     \* a bound on the crashes
    Torn, Partial, NoFile

ASSUME ConfigAssumption ==
    /\ {MaxEdits, MaxWatchers, MaxCrashes} \subseteq Nat
    /\ {Torn, Partial, NoFile} \cap Int = {}
    /\ Torn # Partial /\ Torn # NoFile /\ Partial # NoFile

VARIABLES
    file,       \* the content of the file the path stands for
    tmp,        \* the content of the temporary file
    edits,      \* how many edits were begun
    editing,    \* somebody is writing to the file
    crashes,
    cm,         \* the fields of the manager
    watches,    \* watcher -> [on, open, event]: on as long as it is the file's
    loops,      \* watchLoop, by the watcher it was started for
    caller,     \* [Callers -> where the call is]
    told,       \* the configuration the callbacks were told of last
    overtaken,  \* history: a reload ended while another one was at its callbacks
    seen        \* history: the manager's watcher was told of the file as it is

fileVars == <<file, tmp, edits, editing>>
history == <<told, overtaken, seen>>
vars == <<fileVars, crashes, cm, watches, loops, caller, history>>

Edits == 0..MaxEdits
Configs == Edits \cup {Partial}
Watchers == 1..MaxWatchers

NewManager == [instance |-> 0, path |-> FALSE, once |-> "no", enableWatch |-> FALSE,
               watcher |-> 0, watchOnce |-> FALSE, quit |-> FALSE]
NoCall == [at |-> "idle", new |-> 0]
NoLoop == [at |-> "none", new |-> 0, on |-> 0, armed |-> FALSE]

TypeOK ==
    /\ {file, tmp} \subseteq Configs \cup {Torn, NoFile}
    /\ edits \in Edits /\ editing \in BOOLEAN /\ crashes \in 0..MaxCrashes
    /\ cm.instance \in Configs /\ cm.watcher \in Watchers \cup {0}
    /\ cm.once \in {"no", "running", "done", "failed"}
    /\ \A w \in DOMAIN watches : w \in Watchers /\ {watches[w].on, watches[w].open, watches[w].event} \subseteq BOOLEAN
    /\ \A w \in Watchers : loops[w].at \in {"none", "top", "select", "swap", "callbacks", "gone"}
    /\ \A c \in Callers :
          caller[c].at \in {"idle", "parse", "watch", "swap", "callbacks", "write", "rename"}
    /\ Cardinality({c \in Callers : caller[c].at \in {"write", "rename"}}) <= 1
    /\ told \in Configs /\ {overtaken, seen} \subseteq BOOLEAN
    /\ cm.watcher # 0 => watches[cm.watcher].open

Init ==
    /\ file \in {0, NoFile}
    /\ tmp = NoFile /\ edits = 0 /\ editing = FALSE /\ crashes = 0
    /\ cm = NewManager
    /\ watches = [w \in {} |-> [on |-> FALSE, open |-> FALSE, event |-> FALSE]]
    /\ loops = [w \in Watchers |-> NoLoop]
    /\ caller = [c \in Callers |-> NoCall]
    /\ told = 0 /\ overtaken = FALSE /\ seen = FALSE

Unlocked == \A c \in Callers : caller[c].at \notin {"write", "rename"}
Calling == \/ \E c \in Callers : caller[c].at = "callbacks"
           \/ \E w \in Watchers : loops[w].at = "callbacks"
Readable == file # NoFile
Parsed == CASE file = NoFile -> {}
            [] file = Torn -> {Partial}
            [] OTHER -> {file}
At(c, where) == caller' = [caller EXCEPT ![c].at = where]

------------------------------------------------------------------------------
(* The file, and what inotify tells of it.                                 *)
Notified == [w \in DOMAIN watches |->
                [watches[w] EXCEPT !.event = @ \/ (watches[w].open /\ watches[w].on)]]
Lost == [w \in DOMAIN watches |-> [watches[w] EXCEPT !.on = FALSE]]
Watched == cm.watcher # 0 /\ watches[cm.watcher].on

(* An editor cuts the file off and then writes it.                         *)
EditBegins ==
    /\ edits < MaxEdits /\ ~editing
    /\ editing' = TRUE /\ edits' = edits + 1
    /\ file' = Torn
    /\ watches' = Notified /\ seen' = FALSE
    /\ UNCHANGED <<tmp, crashes, cm, loops, caller, told, overtaken>>

EditEnds ==
    /\ editing
    /\ editing' = FALSE
    /\ file' = edits
    /\ watches' = Notified
    /\ seen' = Watched
    /\ UNCHANGED <<tmp, edits, crashes, cm, loops, caller, told, overtaken>>

(* An editor writes another file and gives it the name.                    *)
EditReplaces ==
    /\ edits < MaxEdits /\ ~editing
    /\ edits' = edits + 1
    /\ file' = edits + 1
    /\ watches' = Lost /\ seen' = FALSE
    /\ UNCHANGED <<tmp, editing, crashes, cm, loops, caller, told, overtaken>>

(* The process ends wherever it is, and is started again.                  *)
Crash ==
    /\ crashes < MaxCrashes /\ cm.once # "no"
    /\ crashes' = crashes + 1
    /\ cm' = NewManager /\ caller' = [c \in Callers |-> NoCall]
    /\ loops' = [w \in Watchers |-> NoLoop]
    /\ watches' = [w \in {} |-> watches[w]]
    /\ told' = 0 /\ overtaken' = FALSE /\ seen' = FALSE
    /\ UNCHANGED fileVars

------------------------------------------------------------------------------
(* startWatch does nothing if it was called before, even if that failed:   *)
(* the watcher is there then, but no loop.                                 *)
startWatch(m) ==
    LET w == Cardinality(DOMAIN watches) + 1 IN
    IF m.watchOnce THEN cm' = m /\ UNCHANGED <<watches, loops, seen>>
    ELSE /\ w \in Watchers
         /\ cm' = [m EXCEPT !.watchOnce = TRUE, !.watcher = w]
         /\ watches' = [v \in DOMAIN watches \cup {w} |->
                           IF v = w THEN [on |-> Readable, open |-> TRUE, event |-> FALSE]
                           ELSE watches[v]]
         /\ loops' = IF Readable THEN [loops EXCEPT ![w].at = "top"] ELSE loops
         /\ UNCHANGED seen

stopWatch(m) ==
    /\ cm' = [m EXCEPT !.watchOnce = FALSE, !.watcher = 0]
    /\ watches' = [v \in DOMAIN watches |->
                      IF v = cm.watcher THEN [watches[v] EXCEPT !.open = FALSE, !.on = FALSE] ELSE watches[v]]
    /\ seen' = FALSE
    /\ UNCHANGED loops

(* LoadConfig, once: an error stays.  If there is no file there is no path *)
(* either, and ReloadConfig cannot help.                                   *)
LoadFinds(c) ==
    /\ caller[c].at = "idle" /\ cm.once = "no"
    /\ IF Readable
       THEN cm' = [cm EXCEPT !.once = "running", !.path = TRUE] /\ At(c, "parse")
       ELSE cm' = [cm EXCEPT !.once = "failed"] /\ UNCHANGED caller
    /\ UNCHANGED <<fileVars, crashes, watches, loops, history>>

LoadParses(c) ==
    /\ caller[c].at = "parse"
    /\ \/ \E new \in Parsed :
             /\ cm' = [cm EXCEPT !.instance = new]
             /\ told' = new /\ overtaken' = (overtaken \/ Calling)
             /\ At(c, "watch")
       \/ /\ file \in {Torn, NoFile}
          /\ cm' = [cm EXCEPT !.once = "failed"]
          /\ At(c, "idle") /\ UNCHANGED <<told, overtaken>>
    /\ UNCHANGED <<fileVars, crashes, watches, loops, seen>>

LoadWatches(c) ==
    /\ caller[c].at = "watch"
    /\ LET m == [cm EXCEPT !.once = "done"] IN
       IF cm.enableWatch THEN startWatch(m) ELSE cm' = m /\ UNCHANGED <<watches, loops, seen>>
    /\ At(c, "idle")
    /\ UNCHANGED <<fileVars, crashes, told, overtaken>>

(* enableWatch is looked at by LoadConfig only.                            *)
EnableWatch(c, enable) ==
    /\ caller[c].at = "idle" /\ Unlocked
    /\ LET m == [cm EXCEPT !.enableWatch = enable /\ cm.once \in {"no", "running"}]
       IN  IF enable /\ cm.path THEN startWatch(m) ELSE stopWatch(m)
    /\ UNCHANGED <<fileVars, crashes, caller, told, overtaken>>

(* A second Close would panic.                                             *)
Close(c) ==
    /\ caller[c].at = "idle" /\ ~cm.quit
    /\ stopWatch([cm EXCEPT !.quit = TRUE])
    /\ UNCHANGED <<fileVars, crashes, caller, told, overtaken>>

------------------------------------------------------------------------------
(* Mutant: there is no temporary file.                                     *)
SaveBeginsInPlace(c) ==
    /\ caller[c].at = "idle" /\ Unlocked
    /\ cm.path
    /\ file' = Torn /\ tmp' = Torn
    /\ At(c, "write")
    /\ UNCHANGED <<edits, editing, crashes, cm, watches, loops, history>>

(* SaveConfig, under the lock from end to end.  It may fail in writing; no *)
(* other step can leave the temporary file behind but a crash.             *)
SaveBegins(c) ==
    /\ caller[c].at = "idle" /\ Unlocked
    /\ cm.path
    /\ tmp' = Torn
    /\ At(c, "write")
    /\ UNCHANGED <<file, edits, editing, crashes, cm, watches, loops, history>>

SaveWrites(c) ==
    /\ caller[c].at = "write"
    /\ \/ tmp' = cm.instance /\ At(c, "rename")
       \/ At(c, "idle") /\ UNCHANGED tmp
    /\ UNCHANGED <<file, edits, editing, crashes, cm, watches, loops, history>>

(* Whoever is still writing writes to the file that lost the name.         *)
SaveRenames(c) ==
    /\ caller[c].at = "rename"
    /\ file' = tmp
    /\ tmp' = NoFile /\ editing' = FALSE
    /\ watches' = Lost /\ seen' = FALSE
    /\ At(c, "idle")
    /\ UNCHANGED <<edits, crashes, cm, loops, told, overtaken>>

------------------------------------------------------------------------------
(* ReloadConfig: the swap under the lock, the callbacks after it.          *)
Swap(new) ==
    /\ cm' = [cm EXCEPT !.instance = new, !.once = IF @ = "failed" THEN "done" ELSE @]
    /\ overtaken' = (overtaken \/ Calling)
ReloadFails == ~cm.path \/ file \in {Torn, NoFile}

Reload(c) ==
    /\ caller[c].at = "idle" /\ Unlocked /\ cm.path
    /\ \E new \in Parsed :
          Swap(new) /\ caller' = [caller EXCEPT ![c] = [at |-> "callbacks", new |-> new]]
    /\ UNCHANGED <<fileVars, crashes, watches, loops, told, seen>>

Callbacks(new) == told' = new

ReloadReturns(c) ==
    /\ caller[c].at = "callbacks"
    /\ Callbacks(caller[c].new)
    /\ caller' = [caller EXCEPT ![c] = NoCall]
    /\ UNCHANGED <<fileVars, crashes, cm, watches, loops, overtaken, seen>>

------------------------------------------------------------------------------
(* watchLoop.  Each time round it takes the channels of the watcher there  *)
(* is by then: a loop that was busy adopts the watcher of its successor.   *)
Loop(w, where) == loops' = [loops EXCEPT ![w].at = where]

LoopEnters(w) ==
    /\ loops[w].at = "top" /\ Unlocked
    /\ loops' = [loops EXCEPT ![w].at = "select", ![w].on = cm.watcher]
    /\ UNCHANGED <<fileVars, crashes, cm, watches, caller, history>>

(* Mutant: an event is taken and no timer is set.                          *)
LoopForgets(w) ==
    LET v == loops[w].on IN
    /\ loops[w].at = "select" /\ v # 0
    /\ watches[v].event
    /\ watches' = [watches EXCEPT ![v].event = FALSE]
    /\ Loop(w, "top")
    /\ UNCHANGED <<fileVars, crashes, cm, caller, history>>

LoopEvent(w) ==
    LET v == loops[w].on IN
    /\ loops[w].at = "select" /\ v # 0
    /\ watches[v].event
    /\ watches' = [watches EXCEPT ![v].event = FALSE]
    /\ loops' = [loops EXCEPT ![w].at = "top", ![w].armed = TRUE]
    /\ UNCHANGED <<fileVars, crashes, cm, caller, history>>

LoopTimer(w) ==
    /\ loops[w].at = "select" /\ loops[w].armed
    /\ loops' = [loops EXCEPT ![w].at = "swap", ![w].armed = FALSE]
    /\ UNCHANGED <<fileVars, crashes, cm, watches, caller, history>>

(* Mutant: the file is parsed into the instance in use.                    *)
LoopReloadsInPlace(w) ==
    /\ loops[w].at = "swap" /\ Unlocked
    /\ \/ \E new \in Parsed :
             Swap(new) /\ loops' = [loops EXCEPT ![w].at = "callbacks", ![w].new = new]
       \/ /\ ReloadFails /\ Loop(w, "top")
          /\ cm' = [cm EXCEPT !.instance = IF file = Torn THEN Partial ELSE @]
          /\ UNCHANGED overtaken
    /\ UNCHANGED <<fileVars, crashes, watches, caller, told, seen>>

LoopReloads(w) ==
    /\ loops[w].at = "swap" /\ Unlocked
    /\ \/ \E new \in Parsed :
             Swap(new) /\ loops' = [loops EXCEPT ![w].at = "callbacks", ![w].new = new]
       \/ ReloadFails /\ Loop(w, "top") /\ UNCHANGED <<cm, overtaken>>
    /\ UNCHANGED <<fileVars, crashes, watches, caller, told, seen>>

LoopCallbacks(w) ==
    /\ loops[w].at = "callbacks"
    /\ Callbacks(loops[w].new)
    /\ loops' = [loops EXCEPT ![w].at = "top", ![w].new = 0]
    /\ UNCHANGED <<fileVars, crashes, cm, watches, caller, overtaken, seen>>

LoopEnds(w) ==
    /\ loops[w].at = "select"
    /\ ~(loops[w].on # 0 /\ watches[loops[w].on].open /\ ~cm.quit)
    /\ loops' = [loops EXCEPT ![w] = [NoLoop EXCEPT !.at = "gone"]]
    /\ UNCHANGED <<fileVars, crashes, cm, watches, caller, history>>

CallerGoesOn(c) == LoadParses(c) \/ LoadWatches(c) \/ SaveWrites(c) \/ SaveRenames(c) \/ ReloadReturns(c)
LoopGoesOn(w) == LoopEnters(w) \/ LoopReloads(w) \/ LoopCallbacks(w) \/ LoopEnds(w)

Next ==
    \/ EditBegins \/ EditEnds \/ EditReplaces \/ Crash
    \/ \E c \in Callers :
        \/ LoadFinds(c) \/ Close(c) \/ SaveBegins(c) \/ Reload(c) \/ CallerGoesOn(c)
        \/ \E enable \in BOOLEAN : EnableWatch(c, enable)
    \/ \E w \in Watchers : LoopEvent(w) \/ LoopTimer(w) \/ LoopGoesOn(w)

Spec == Init /\ [][Next]_vars

(* Goroutines go on, events arrive, timers expire, an editor who began     *)
(* ends.  Which ready case a select takes is left open.  Who waits for the *)
(* lock gets it in the end, whatever the callers of SaveConfig do: that is *)
(* what sync.RWMutex promises.                                             *)
Fairness ==
    /\ WF_vars(EditEnds)
    /\ \A c \in Callers : WF_vars(CallerGoesOn(c))
    /\ \A w \in Watchers :
          /\ WF_vars(LoopEvent(w) \/ LoopTimer(w) \/ LoopGoesOn(w))
          /\ SF_vars(LoopEnters(w) \/ LoopReloads(w))

FairSpec == Spec /\ Fairness

------------------------------------------------------------------------------
(* Neither a crash nor a failed write leaves a half-written configuration  *)
(* behind: only an editor who writes in place tears the file, and only as  *)
(* long as he writes (manager.go:147-159).                                 *)
FileIntact == file = Torn => editing

(* When no reload is running, the callbacks have been told of the          *)
(* configuration that GetConfig returns (manager.go:198-211): unless one   *)
(* reload overtook the callbacks of another, which then come in the order  *)
(* that leaves the older configuration.                                    *)
ListenerIsCurrent ==
    /\ TypeOK
    /\ ~overtaken /\ ~Calling => told = cm.instance

Following == Watched /\ ~cm.quit

(* A change that the watcher was told of is loaded: however its events     *)
(* meet timers, reloads and calls of EnableWatch, the configuration is in  *)
(* use in the end, unless the file changed again or the watch was stopped  *)
(* or lost (manager.go:331-384).                                           *)
SeenIsServed ==
    \A e \in Edits :
        Following /\ seen /\ file = e ~> cm.instance = e \/ file # e \/ ~Following
==============================================================================
