-------------------------------- MODULE Watch --------------------------------
(***************************************************************************)
(* How a change on disk reaches the engine's loop: the fsnotify watcher    *)
(* (internal/reconcile/watcher.go), the drain goroutine and the debouncer  *)
(* that Engine.startWatcher starts (engine.go, scanloop.go), and the       *)
(* cases of Engine.Run's select that act on a hint or rescan.              *)
(*                                                                         *)
(* Four goroutines hand keys on through three bounded channels; a kernel   *)
(* queue that is full loses events and raises an error instead, which      *)
(* becomes a rescan. Watches are per directory, and a directory is watched *)
(* only after its own create event has been read. What a file holds is     *)
(* abstracted to how often it has changed.                                 *)
(***************************************************************************)
EXTENDS Naturals, Sequences, Functions

CONSTANTS
    Path,          \* canonical keys of files
    Dir,           \* directories, the root among them
    Root,          \* the sync root
    DirOf,         \* the directory a file is in
    ChanDepth,     \* capacity of changes, debounceIn and localChanges (256 in the code)
    KernelBuffer,  \* how many undelivered events the watcher holds (4096 in the code)
    Window,        \* the debounce window, in units of the model's clock
    Budget,        \* bounds: changes by the user, reads that come to nothing, rescans by the ticker
    None           \* no key, no value read

Key == Path \cup Dir
Outside == {"change", "skip", "tick"}

ASSUME WatchAssumption ==
    /\ Root \in Dir /\ DirOf \in [Path -> Dir] /\ Path \cap Dir = {}
    /\ ChanDepth \in Nat \ {0} /\ KernelBuffer \in Nat /\ Window \in Nat
    /\ Budget \in [Outside -> Nat]
    /\ None \notin Key /\ None \notin Nat

VARIABLES
    disk,          \* how often each file has changed
    rec,           \* e.files: the change each recorded leaf stands for
    dirs,          \* the directories there are
    watched,       \* the directories with a watch
    kernel,        \* w.Events
    lost,          \* w.Errors: an ErrEventOverflow waits
    runner,        \* the key that fsnotifyWatcher.run is about to send
    changes,       \* fw.changes
    overflow,      \* fw.overflow (capacity 1)
    drain,         \* the key that the drain goroutine is about to send
    debounceIn,    \* e.debounceIn
    rescanNow,     \* e.rescanNow (capacity 1)
    pending,       \* debouncer: how long each pending key has been quiet
    sweep,         \* debouncer: the quiet keys that this tick still has to emit
    localChanges,  \* e.localChanges
    at,            \* the loop: at its select, in a handler, leaving, gone
    key,           \* the hint that onLocalChange works on
    seen,          \* what the handler at hand has read from disk
    ctxDone,       \* the context is cancelled
    exited,        \* the goroutines that have ended
    missed,        \* history: files whose last change is left to the ticker
    left           \* what remains of the bounds

engine == <<rec, at, key, seen>>
watcher == <<watched, kernel, lost, runner>>
pipe == <<changes, overflow, drain, debounceIn, rescanNow, pending, sweep, localChanges>>
vars == <<disk, dirs, engine, watcher, pipe, ctxDone, exited, missed, left>>

Unread == [p \in Path |-> None]
Goroutine == {"run", "drain", "debounce"}

\* The goroutine g is there: startWatcher has started it and it has not returned.
Runs(g) == Root \in watched /\ g \notin exited

\* Mutant of Room: one slot too many.
Room_OneMore(q) == Len(q) <= ChanDepth

Room(q) == Len(q) < ChanDepth
Spend(b) == left[b] > 0 /\ left' = [left EXCEPT ![b] = @ - 1]

-----------------------------------------------------------------------------
(* The user and the operating system. *)

\* An event for k in a watched directory: queued, or lost and reported as an overflow.
Raise(k) ==
    IF Len(kernel) < KernelBuffer
    THEN kernel' = Append(kernel, k) /\ UNCHANGED lost
    ELSE lost' = TRUE /\ UNCHANGED kernel

UserChange(p) ==
    /\ Spend("change") /\ DirOf[p] \in dirs
    /\ disk' = [disk EXCEPT ![p] = @ + 1]
    /\ IF DirOf[p] \in watched
       THEN Raise(p) /\ missed' = missed \ {p}
       ELSE missed' = missed \cup {p} /\ UNCHANGED <<kernel, lost>>
    /\ UNCHANGED <<dirs, engine, watched, runner, pipe, ctxDone, exited>>

MakeDir(g) ==
    /\ g \notin dirs
    /\ dirs' = dirs \cup {g}
    /\ IF Root \in watched THEN Raise(g) ELSE UNCHANGED <<kernel, lost>>
    /\ UNCHANGED <<disk, engine, watched, runner, pipe, ctxDone, exited, missed, left>>

-----------------------------------------------------------------------------
(* watcher.go: newFSNotifyWatcher, addTree, run. *)

startWatcher ==
    /\ Root \notin watched /\ at = "select"
    /\ watched' = dirs
    /\ UNCHANGED <<disk, dirs, engine, kernel, lost, runner, pipe, ctxDone, exited, missed, left>>

\* A new directory is watched from here on; its key is handed on like any other.
runEvent ==
    /\ Runs("run") /\ runner = None /\ kernel # <<>>
    /\ runner' = Head(kernel)
    /\ kernel' = Tail(kernel)
    /\ watched' = watched \cup ({Head(kernel)} \cap Dir)
    /\ UNCHANGED <<disk, dirs, engine, lost, pipe, ctxDone, exited, missed, left>>

runSend ==
    /\ Runs("run") /\ runner # None /\ Room(changes)
    /\ changes' = Append(changes, runner)
    /\ runner' = None
    /\ UNCHANGED <<disk, dirs, engine, watched, kernel, lost, overflow, drain, debounceIn,
                   rescanNow, pending, sweep, localChanges, ctxDone, exited, missed, left>>

\* An overflow that finds one pending already is merged with it.
runOverflow ==
    /\ Runs("run") /\ runner = None /\ lost
    /\ lost' = FALSE
    /\ overflow' = TRUE
    /\ UNCHANGED <<disk, dirs, engine, watched, kernel, runner, changes, drain, debounceIn,
                   rescanNow, pending, sweep, localChanges, ctxDone, exited, missed, left>>

-----------------------------------------------------------------------------
(* The drain goroutine of startWatcher. *)

drainChange ==
    /\ Runs("drain") /\ drain = None /\ changes # <<>>
    /\ drain' = Head(changes)
    /\ changes' = Tail(changes)
    /\ UNCHANGED <<disk, dirs, engine, watcher, overflow, debounceIn, rescanNow, pending,
                   sweep, localChanges, ctxDone, exited, missed, left>>

\* Mutant of drainSend: a key is dropped when the debouncer lags.
drainSend_Sheds ==
    /\ Runs("drain") /\ drain # None
    /\ debounceIn' = IF Room(debounceIn) THEN Append(debounceIn, drain) ELSE debounceIn
    /\ drain' = None
    /\ UNCHANGED <<disk, dirs, engine, watcher, changes, overflow, rescanNow, pending, sweep,
                   localChanges, ctxDone, exited, missed, left>>

drainSend ==
    /\ Runs("drain") /\ drain # None /\ Room(debounceIn)
    /\ debounceIn' = Append(debounceIn, drain)
    /\ drain' = None
    /\ UNCHANGED <<disk, dirs, engine, watcher, changes, overflow, rescanNow, pending, sweep,
                   localChanges, ctxDone, exited, missed, left>>

drainOverflow ==
    /\ Runs("drain") /\ drain = None /\ overflow
    /\ overflow' = FALSE
    /\ rescanNow' = TRUE
    /\ UNCHANGED <<disk, dirs, engine, watcher, changes, drain, debounceIn, pending, sweep,
                   localChanges, ctxDone, exited, missed, left>>

-----------------------------------------------------------------------------
(* scanloop.go: debouncer.run. While it sweeps it reads nothing else. *)

debounceEvent ==
    /\ Runs("debounce") /\ sweep = {} /\ debounceIn # <<>>
    /\ pending' = [pending EXCEPT ![Head(debounceIn)] = 0]
    /\ debounceIn' = Tail(debounceIn)
    /\ UNCHANGED <<disk, dirs, engine, watcher, changes, overflow, drain, rescanNow, sweep,
                   localChanges, ctxDone, exited, missed, left>>

\* Time passes.
Clock ==
    /\ \E k \in Key : pending[k] # None /\ pending[k] < Window
    /\ pending' = [k \in Key |-> IF pending[k] # None /\ pending[k] < Window
                                 THEN pending[k] + 1 ELSE pending[k]]
    /\ UNCHANGED <<disk, dirs, engine, watcher, changes, overflow, drain, debounceIn,
                   rescanNow, sweep, localChanges, ctxDone, exited, missed, left>>

\* Mutant of debounceTick: off by one at the end of the window.
debounceTick_After ==
    /\ Runs("debounce") /\ sweep = {}
    /\ sweep' = {k \in Key : pending[k] # None /\ pending[k] > Window} /\ sweep' # {}
    /\ UNCHANGED <<disk, dirs, engine, watcher, changes, overflow, drain, debounceIn,
                   rescanNow, pending, localChanges, ctxDone, exited, missed, left>>

debounceTick ==
    /\ Runs("debounce") /\ sweep = {}
    /\ sweep' = {k \in Key : pending[k] # None /\ pending[k] >= Window} /\ sweep' # {}
    /\ UNCHANGED <<disk, dirs, engine, watcher, changes, overflow, drain, debounceIn,
                   rescanNow, pending, localChanges, ctxDone, exited, missed, left>>

\* Mutant of emit: the send does not watch the context.
emit_Parks(k) ==
    /\ Runs("debounce") /\ k \in sweep /\ Room(localChanges)
    /\ localChanges' = Append(localChanges, k)
    /\ pending' = [pending EXCEPT ![k] = None]
    /\ sweep' = sweep \ {k}
    /\ UNCHANGED <<disk, dirs, engine, watcher, changes, overflow, drain, debounceIn,
                   rescanNow, ctxDone, exited, missed, left>>

emit(k) ==
    /\ Runs("debounce") /\ k \in sweep
    /\ \/ Room(localChanges) /\ localChanges' = Append(localChanges, k)
       \/ ctxDone /\ UNCHANGED localChanges
    /\ pending' = [pending EXCEPT ![k] = None]
    /\ sweep' = sweep \ {k}
    /\ UNCHANGED <<disk, dirs, engine, watcher, changes, overflow, drain, debounceIn,
                   rescanNow, ctxDone, exited, missed, left>>

-----------------------------------------------------------------------------
(* Engine.Run: the select, onLocalChange and rescan. *)

loopHint ==
    /\ at = "select" /\ localChanges # <<>>
    /\ at' = "hint"
    /\ key' = Head(localChanges)
    /\ localChanges' = Tail(localChanges)
    /\ UNCHANGED <<disk, dirs, rec, seen, watcher, changes, overflow, drain, debounceIn,
                   rescanNow, pending, sweep, ctxDone, exited, missed, left>>

\* onLocalChange reads the file; a directory is not a leaf.
readHint ==
    /\ at = "hint" /\ key \in Path /\ seen[key] = None
    /\ seen' = [seen EXCEPT ![key] = disk[key]]
    /\ UNCHANGED <<disk, dirs, rec, at, key, watcher, pipe, ctxDone, exited, missed, left>>

\* ... and records it, unless hashing it failed or an apply is in flight at that path.
endHint ==
    /\ at = "hint"
    /\ \/ key \in Dir /\ UNCHANGED <<rec, missed, left>>
       \/ /\ key \in Path /\ seen[key] # None
          /\ rec' = [rec EXCEPT ![key] = seen[key]]
          /\ UNCHANGED <<missed, left>>
       \/ /\ key \in Path /\ Spend("skip")
          /\ missed' = missed \cup {key}
          /\ UNCHANGED rec
    /\ at' = "select" /\ key' = None /\ seen' = Unread
    /\ UNCHANGED <<disk, dirs, watcher, pipe, ctxDone, exited>>

StartRescan ==
    /\ at = "select" /\ at' = "rescan"
    /\ UNCHANGED <<disk, dirs, rec, key, seen, watcher, changes, overflow, drain, debounceIn,
                   pending, sweep, localChanges, ctxDone, exited, missed>>

loopRescan == StartRescan /\ rescanNow /\ rescanNow' = FALSE /\ UNCHANGED left
tickerRescan == StartRescan /\ Spend("tick") /\ UNCHANGED rescanNow

\* merkle.Scan walks the tree file by file.
scanPath(p) ==
    /\ at = "rescan" /\ seen[p] = None
    /\ seen' = [seen EXCEPT ![p] = disk[p]]
    /\ UNCHANGED <<disk, dirs, rec, at, key, watcher, pipe, ctxDone, exited, missed, left>>

\* One file that cannot be read fails the whole scan, and nothing is recorded; a path with
\* an apply in flight is passed over.
endRescan ==
    /\ at = "rescan"
    /\ \/ /\ \A p \in Path : seen[p] # None
          /\ rec' = seen
          /\ UNCHANGED <<missed, left>>
       \/ /\ \A p \in Path : seen[p] # None
          /\ Spend("skip")
          /\ \E p \in Path : rec' = [seen EXCEPT ![p] = rec[p]] /\ missed' = missed \cup {p}
       \/ /\ Spend("skip")
          /\ missed' = missed \cup {p \in Path : rec[p] # disk[p]}
          /\ UNCHANGED rec
    /\ at' = "select" /\ seen' = Unread
    /\ UNCHANGED <<disk, dirs, key, watcher, pipe, ctxDone, exited>>

-----------------------------------------------------------------------------
(* The end: Run leaves its loop, closes the watcher and waits for everyone. *)

Cancel ==
    /\ ~ctxDone /\ ctxDone' = TRUE
    /\ UNCHANGED <<disk, dirs, engine, watcher, pipe, exited, missed, left>>

loopBreak ==
    /\ at = "select" /\ ctxDone
    /\ at' = "closing"
    /\ UNCHANGED <<disk, dirs, rec, key, seen, watcher, pipe, ctxDone, exited, missed, left>>

\* Every blocking select of the three has a ctx.Done arm; the sweep's is in emit.
exit(g) ==
    /\ Runs(g) /\ ctxDone
    /\ g = "debounce" => sweep = {}
    /\ exited' = exited \cup {g}
    /\ UNCHANGED <<disk, dirs, engine, watcher, pipe, ctxDone, missed, left>>

loopReturn ==
    /\ at = "closing" /\ \A g \in Goroutine : ~Runs(g)
    /\ at' = "returned"
    /\ UNCHANGED <<disk, dirs, rec, key, seen, watcher, pipe, ctxDone, exited, missed, left>>

-----------------------------------------------------------------------------
Init ==
    /\ disk = [p \in Path |-> 0] /\ rec = [p \in Path |-> 0]
    /\ dirs = {Root} /\ watched = {}
    /\ kernel = <<>> /\ lost = FALSE /\ runner = None
    /\ changes = <<>> /\ overflow = FALSE /\ drain = None
    /\ debounceIn = <<>> /\ rescanNow = FALSE
    /\ pending = [k \in Key |-> None] /\ sweep = {}
    /\ localChanges = <<>>
    /\ at = "select" /\ key = None /\ seen = Unread
    /\ ctxDone = FALSE /\ exited = {} /\ missed = {}
    /\ left = Budget

Run == runEvent \/ runSend \/ runOverflow \/ exit("run")
Drain == drainChange \/ drainSend \/ drainOverflow \/ exit("drain")
Debouncer ==
    debounceEvent \/ debounceTick \/ (\E k \in Key : emit(k)) \/ exit("debounce")
Loop ==
    \/ startWatcher \/ loopHint \/ readHint \/ endHint \/ loopRescan
    \/ \E p \in Path : scanPath(p)
    \/ endRescan \/ loopBreak \/ loopReturn

Next ==
    \/ \E p \in Path : UserChange(p)
    \/ \E g \in Dir : MakeDir(g)
    \/ Run \/ Drain \/ Debouncer \/ Clock \/ Loop \/ tickerRescan \/ Cancel

Spec == Init /\ [][Next]_vars

\* Each goroutine keeps running and time passes. The ticker, which would hide every lost
\* hint, is not relied upon.
FairSpec ==
    /\ Spec
    /\ WF_vars(Run) /\ WF_vars(Drain) /\ WF_vars(Debouncer) /\ WF_vars(Clock) /\ WF_vars(Loop)

-----------------------------------------------------------------------------
TypeOK ==
    /\ disk \in [Path -> Nat] /\ rec \in [Path -> Nat]
    /\ dirs \subseteq Dir /\ watched \subseteq Dir
    /\ kernel \in Seq(Key) /\ Len(kernel) <= KernelBuffer
    /\ lost \in BOOLEAN /\ overflow \in BOOLEAN /\ rescanNow \in BOOLEAN
    /\ runner \in Key \cup {None} /\ drain \in Key \cup {None}
    /\ \A q \in {changes, debounceIn, localChanges} : q \in Seq(Key) /\ Len(q) <= ChanDepth
    /\ pending \in [Key -> Nat \cup {None}] /\ sweep \subseteq Key
    /\ at \in {"select", "hint", "rescan", "closing", "returned"}
    /\ key \in Key \cup {None} /\ (at = "hint" => key \in Key)
    /\ seen \in [Path -> Nat \cup {None}]
    /\ ctxDone \in BOOLEAN /\ exited \subseteq Goroutine /\ missed \subseteq Path
    /\ left \in [Outside -> Nat]

\* A hint for p is under way, up to the loop.
Queued(p) ==
    \/ p \in Range(kernel) \/ runner = p \/ p \in Range(changes) \/ drain = p
    \/ p \in Range(debounceIn) \/ pending[p] # None \/ p \in Range(localChanges)

\* A rescan is due.
RescanDue == lost \/ overflow \/ rescanNow

\* The handler at hand will still record the last change of p.
WillRecord(p) ==
    /\ at = "rescan" \/ (at = "hint" /\ key = p)
    /\ seen[p] \in {None, disk[p]}

\* No hint is lost (SR-11): while the engine runs, a change that it has not recorded is on
\* its way through the watcher, the drain, the debouncer or a handler that has yet to read
\* the file, or a full rescan is due. Three exceptions are left to the ticker: a change in
\* a directory that had no watch yet, a read that failed, and a path muted by an apply.
NoLostHint ==
    ~ctxDone => \A p \in Path \ missed :
        rec[p] # disk[p] => Queued(p) \/ RescanDue \/ WillRecord(p)

\* Hints suffice (SR-11): without the periodic rescan every change is recorded, the
\* exceptions of NoLostHint aside.
HintsSuffice == <>[](ctxDone \/ \A p \in Path \ missed : rec[p] = disk[p])

\* A clean stop (GR-3): once the context is cancelled, Run returns, whoever is parked in
\* whatever send: neither the watcher, the drain nor the debouncer keeps e.wg.Wait hanging
\* (the goroutines of dials and peers, which it waits for as well, are not here).
Stops == ctxDone ~> at = "returned"
=============================================================================
