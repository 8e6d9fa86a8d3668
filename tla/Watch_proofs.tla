---------------------------- MODULE Watch_proofs ----------------------------
(***************************************************************************)
(* NoLostHint for every tree, every channel capacity and every number of   *)
(* changes. The inductive invariant adds to it that a handler starts with  *)
(* nothing read, that what is recorded or read is never ahead of the disk, *)
(* and that a handler holding an outdated read works on an outdated        *)
(* record: otherwise it could put an old leaf over a newer one after the   *)
(* hint for the newer one has been used up.                                *)
(***************************************************************************)
EXTENDS Watch, QueueLemmas

\* What a handler has read of p, if anything.
ReadsInOrder ==
    /\ at \notin {"hint", "rescan"} => seen = Unread
    /\ \A p \in Path :
          /\ rec[p] <= disk[p]
          /\ seen[p] # None => seen[p] <= disk[p]
          /\ seen[p] \notin {None, disk[p]} => rec[p] # disk[p]

Inductive == TypeOK /\ ReadsInOrder /\ NoLostHint

-----------------------------------------------------------------------------
\* Keys of files are keys.
LEMMA Keys == Path \subseteq Key /\ None \notin Key /\ None \notin Nat
BY WatchAssumption DEF Key

-----------------------------------------------------------------------------
(* One lemma per action. *)

LEMMA InitInductive == Init => Inductive
<1> SUFFICES ASSUME Init PROVE Inductive
  OBVIOUS
<1>1. TypeOK
  <2>1. /\ disk \in [Path -> Nat] /\ rec \in [Path -> Nat] /\ seen \in [Path -> Nat \cup {None}]
        /\ pending \in [Key -> Nat \cup {None}] /\ left \in [Outside -> Nat]
    BY WatchAssumption DEF Init, Unread
  <2>2. /\ kernel \in Seq(Key) /\ Len(kernel) <= KernelBuffer
        /\ \A q \in {changes, debounceIn, localChanges} : q \in Seq(Key) /\ Len(q) <= ChanDepth
    BY WatchAssumption DEF Init
  <2> QED BY <2>1, <2>2, WatchAssumption DEF Init, TypeOK
<1>2. ReadsInOrder
  BY WatchAssumption DEF Init, ReadsInOrder, Unread
<1>3. NoLostHint
  BY DEF Init, NoLostHint
<1> QED BY <1>1, <1>2, <1>3 DEF Inductive

\* A change raises a hint, or the overflow that stands for it.
LEMMA UserChangeKeeps ==
    ASSUME Inductive, NEW p \in Path, UserChange(p) PROVE Inductive'
<1>key. p \in Key
  BY DEF Key
<1>chan. /\ Append(kernel, p) \in Seq(Key) /\ Len(Append(kernel, p)) = Len(kernel) + 1
      /\ Range(Append(kernel, p)) = Range(kernel) \cup {p}
  BY <1>key, RangeAppend DEF Inductive, TypeOK
<1>1. TypeOK'
  <2>1. /\ kernel \in Seq(Key) /\ Len(kernel) \in Nat /\ Len(kernel) <= KernelBuffer
        /\ KernelBuffer \in Nat /\ lost \in BOOLEAN
    BY WatchAssumption DEF Inductive, TypeOK
  <2>2. kernel' = kernel \/ (Len(kernel) < KernelBuffer /\ kernel' = Append(kernel, p))
    BY DEF UserChange, Raise
  <2>3. kernel' \in Seq(Key) /\ Len(kernel') <= KernelBuffer
    BY <1>chan, <2>1, <2>2
  <2>4. lost' \in BOOLEAN
    BY <2>1 DEF UserChange, Raise
  <2>5. disk' \in [Path -> Nat] /\ missed' \subseteq Path /\ left' \in [Outside -> Nat]
    BY Keys DEF Inductive, UserChange, TypeOK, Spend, Outside
  <2> QED BY <2>3, <2>4, <2>5 DEF Inductive, UserChange, TypeOK, engine, pipe
<1>2. ReadsInOrder'
  <2>1. seen' = seen /\ rec' = rec /\ at' = at /\ disk' = [disk EXCEPT ![p] = @ + 1]
    BY DEF UserChange, engine
  <2> QED BY <2>1, Keys DEF Inductive, TypeOK, ReadsInOrder, Unread
<1>3. NoLostHint'
  BY <1>chan, <1>key, WatchAssumption, Keys DEF Inductive, Outside, UserChange, Raise, Spend, TypeOK, ReadsInOrder, NoLostHint, Queued, RescanDue, WillRecord,
      engine, watcher, pipe
<1> QED BY <1>1, <1>2, <1>3 DEF Inductive

\* A new directory.
LEMMA MakeDirKeeps ==
    ASSUME Inductive, NEW g \in Dir, MakeDir(g) PROVE Inductive'
<1>key. g \in Key
  BY DEF Key
<1>chan. /\ Append(kernel, g) \in Seq(Key) /\ Len(Append(kernel, g)) = Len(kernel) + 1
      /\ Range(Append(kernel, g)) = Range(kernel) \cup {g}
  BY <1>key, RangeAppend DEF Inductive, TypeOK
<1>1. TypeOK'
  <2>1. /\ kernel \in Seq(Key) /\ Len(kernel) \in Nat /\ Len(kernel) <= KernelBuffer
        /\ KernelBuffer \in Nat /\ lost \in BOOLEAN
    BY WatchAssumption DEF Inductive, TypeOK
  <2>2. kernel' = kernel \/ (Len(kernel) < KernelBuffer /\ kernel' = Append(kernel, g))
    BY DEF MakeDir, Raise
  <2>3. kernel' \in Seq(Key) /\ Len(kernel') <= KernelBuffer
    BY <1>chan, <2>1, <2>2
  <2>4. lost' \in BOOLEAN
    BY <2>1 DEF MakeDir, Raise
  <2>5. dirs' \subseteq Dir
    BY Keys DEF Inductive, MakeDir, TypeOK
  <2> QED BY <2>3, <2>4, <2>5 DEF Inductive, MakeDir, TypeOK, engine, pipe
<1>2. ReadsInOrder'
  BY <1>chan, <1>key, WatchAssumption, Keys DEF Inductive, MakeDir, Raise, TypeOK, ReadsInOrder, engine, watcher, pipe
<1>3. NoLostHint'
  BY <1>chan, <1>key, WatchAssumption, Keys DEF Inductive, MakeDir, Raise, TypeOK, ReadsInOrder, NoLostHint, Queued, RescanDue, WillRecord,
      engine, watcher, pipe
<1> QED BY <1>1, <1>2, <1>3 DEF Inductive

\* The first watches.
LEMMA StartWatcherKeeps ==
    ASSUME Inductive, startWatcher PROVE Inductive'
<1>1. TypeOK'
  BY WatchAssumption, Keys DEF Inductive, startWatcher, TypeOK, engine, watcher, pipe
<1>2. ReadsInOrder'
  BY WatchAssumption, Keys DEF Inductive, startWatcher, TypeOK, ReadsInOrder, engine, watcher, pipe
<1>3. NoLostHint'
  BY WatchAssumption, Keys DEF Inductive, startWatcher, TypeOK, ReadsInOrder, NoLostHint, Queued, RescanDue, WillRecord,
      engine, watcher, pipe
<1> QED BY <1>1, <1>2, <1>3 DEF Inductive

\* The watcher takes an event.
LEMMA RunEventKeeps ==
    ASSUME Inductive, runEvent PROVE Inductive'
<1>chan. /\ Tail(kernel) \in Seq(Key) /\ Head(kernel) \in Key /\ Len(Tail(kernel)) = Len(kernel) - 1
      /\ Range(kernel) = Range(Tail(kernel)) \cup {Head(kernel)}
  BY RangeTail DEF Inductive, TypeOK, runEvent
<1>1. TypeOK'
  BY <1>chan, WatchAssumption, Keys DEF Inductive, runEvent, TypeOK, engine, watcher, pipe
<1>2. ReadsInOrder'
  BY <1>chan, WatchAssumption, Keys DEF Inductive, runEvent, TypeOK, ReadsInOrder, engine, watcher, pipe
<1>3. NoLostHint'
  BY <1>chan, WatchAssumption, Keys DEF Inductive, runEvent, TypeOK, ReadsInOrder, NoLostHint, Queued, RescanDue, WillRecord,
      engine, watcher, pipe
<1> QED BY <1>1, <1>2, <1>3 DEF Inductive

\* ... and hands it on.
LEMMA RunSendKeeps ==
    ASSUME Inductive, runSend PROVE Inductive'
<1>chan. /\ Append(changes, runner) \in Seq(Key) /\ Len(Append(changes, runner)) = Len(changes) + 1
      /\ Range(Append(changes, runner)) = Range(changes) \cup {runner}
  BY RangeAppend, WatchAssumption DEF Inductive, TypeOK, runSend
<1>1. TypeOK'
  BY <1>chan, WatchAssumption, Keys DEF Inductive, runSend, Room, TypeOK, engine, watcher, pipe
<1>2. ReadsInOrder'
  BY <1>chan, WatchAssumption, Keys DEF Inductive, runSend, Room, TypeOK, ReadsInOrder, engine, watcher, pipe
<1>3. NoLostHint'
  BY <1>chan, WatchAssumption, Keys DEF Inductive, runSend, Room, TypeOK, ReadsInOrder, NoLostHint, Queued, RescanDue, WillRecord,
      engine, watcher, pipe
<1> QED BY <1>1, <1>2, <1>3 DEF Inductive

\* The watcher learns of an overflow.
LEMMA RunOverflowKeeps ==
    ASSUME Inductive, runOverflow PROVE Inductive'
<1>1. TypeOK'
  BY WatchAssumption, Keys DEF Inductive, runOverflow, TypeOK, engine, watcher, pipe
<1>2. ReadsInOrder'
  BY WatchAssumption, Keys DEF Inductive, runOverflow, TypeOK, ReadsInOrder, engine, watcher, pipe
<1>3. NoLostHint'
  BY WatchAssumption, Keys DEF Inductive, runOverflow, TypeOK, ReadsInOrder, NoLostHint, Queued, RescanDue, WillRecord,
      engine, watcher, pipe
<1> QED BY <1>1, <1>2, <1>3 DEF Inductive

\* The drain goroutine takes a key.
LEMMA DrainChangeKeeps ==
    ASSUME Inductive, drainChange PROVE Inductive'
<1>chan. /\ Tail(changes) \in Seq(Key) /\ Head(changes) \in Key /\ Len(Tail(changes)) = Len(changes) - 1
      /\ Range(changes) = Range(Tail(changes)) \cup {Head(changes)}
  BY RangeTail DEF Inductive, TypeOK, drainChange
<1>1. TypeOK'
  BY <1>chan, WatchAssumption, Keys DEF Inductive, drainChange, TypeOK, engine, watcher, pipe
<1>2. ReadsInOrder'
  BY <1>chan, WatchAssumption, Keys DEF Inductive, drainChange, TypeOK, ReadsInOrder, engine, watcher, pipe
<1>3. NoLostHint'
  BY <1>chan, WatchAssumption, Keys DEF Inductive, drainChange, TypeOK, ReadsInOrder, NoLostHint, Queued, RescanDue, WillRecord,
      engine, watcher, pipe
<1> QED BY <1>1, <1>2, <1>3 DEF Inductive

\* ... and hands it on.
LEMMA DrainSendKeeps ==
    ASSUME Inductive, drainSend PROVE Inductive'
<1>chan. /\ Append(debounceIn, drain) \in Seq(Key) /\ Len(Append(debounceIn, drain)) = Len(debounceIn) + 1
      /\ Range(Append(debounceIn, drain)) = Range(debounceIn) \cup {drain}
  BY RangeAppend, WatchAssumption DEF Inductive, TypeOK, drainSend
<1>1. TypeOK'
  BY <1>chan, WatchAssumption, Keys DEF Inductive, drainSend, Room, TypeOK, engine, watcher, pipe
<1>2. ReadsInOrder'
  BY <1>chan, WatchAssumption, Keys DEF Inductive, drainSend, Room, TypeOK, ReadsInOrder, engine, watcher, pipe
<1>3. NoLostHint'
  BY <1>chan, WatchAssumption, Keys DEF Inductive, drainSend, Room, TypeOK, ReadsInOrder, NoLostHint, Queued, RescanDue, WillRecord,
      engine, watcher, pipe
<1> QED BY <1>1, <1>2, <1>3 DEF Inductive

\* An overflow becomes a rescan that is due.
LEMMA DrainOverflowKeeps ==
    ASSUME Inductive, drainOverflow PROVE Inductive'
<1>1. TypeOK'
  BY WatchAssumption, Keys DEF Inductive, drainOverflow, TypeOK, engine, watcher, pipe
<1>2. ReadsInOrder'
  BY WatchAssumption, Keys DEF Inductive, drainOverflow, TypeOK, ReadsInOrder, engine, watcher, pipe
<1>3. NoLostHint'
  BY WatchAssumption, Keys DEF Inductive, drainOverflow, TypeOK, ReadsInOrder, NoLostHint, Queued, RescanDue, WillRecord,
      engine, watcher, pipe
<1> QED BY <1>1, <1>2, <1>3 DEF Inductive

\* The debouncer takes a key.
LEMMA DebounceEventKeeps ==
    ASSUME Inductive, debounceEvent PROVE Inductive'
<1>chan. /\ Tail(debounceIn) \in Seq(Key) /\ Head(debounceIn) \in Key /\ Len(Tail(debounceIn)) = Len(debounceIn) - 1
      /\ Range(debounceIn) = Range(Tail(debounceIn)) \cup {Head(debounceIn)}
  BY RangeTail DEF Inductive, TypeOK, debounceEvent
<1>1. TypeOK'
  BY <1>chan, WatchAssumption, Keys DEF Inductive, debounceEvent, TypeOK, engine, watcher, pipe
<1>2. ReadsInOrder'
  BY <1>chan, WatchAssumption, Keys DEF Inductive, debounceEvent, TypeOK, ReadsInOrder, engine, watcher, pipe
<1>3. NoLostHint'
  BY <1>chan, WatchAssumption, Keys DEF Inductive, debounceEvent, TypeOK, ReadsInOrder, NoLostHint, Queued, RescanDue, WillRecord,
      engine, watcher, pipe
<1> QED BY <1>1, <1>2, <1>3 DEF Inductive

\* Time passes: a pending key stays pending.
LEMMA ClockKeeps ==
    ASSUME Inductive, Clock PROVE Inductive'
<1>1. TypeOK'
  BY WatchAssumption, Keys DEF Inductive, Clock, TypeOK, engine, watcher, pipe
<1>2. ReadsInOrder'
  BY WatchAssumption, Keys DEF Inductive, Clock, TypeOK, ReadsInOrder, engine, watcher, pipe
<1>3. NoLostHint'
  BY WatchAssumption, Keys DEF Inductive, Clock, TypeOK, ReadsInOrder, NoLostHint, Queued, RescanDue, WillRecord,
      engine, watcher, pipe
<1> QED BY <1>1, <1>2, <1>3 DEF Inductive

\* A sweep begins.
LEMMA DebounceTickKeeps ==
    ASSUME Inductive, debounceTick PROVE Inductive'
<1>1. TypeOK'
  BY WatchAssumption, Keys DEF Inductive, debounceTick, TypeOK, engine, watcher, pipe
<1>2. ReadsInOrder'
  BY WatchAssumption, Keys DEF Inductive, debounceTick, TypeOK, ReadsInOrder, engine, watcher, pipe
<1>3. NoLostHint'
  BY WatchAssumption, Keys DEF Inductive, debounceTick, TypeOK, ReadsInOrder, NoLostHint, Queued, RescanDue, WillRecord,
      engine, watcher, pipe
<1> QED BY <1>1, <1>2, <1>3 DEF Inductive

\* A quiet key goes to the loop.
LEMMA EmitKeeps ==
    ASSUME Inductive, NEW k \in Key, emit(k) PROVE Inductive'
<1>chan. /\ Append(localChanges, k) \in Seq(Key) /\ Len(Append(localChanges, k)) = Len(localChanges) + 1
      /\ Range(Append(localChanges, k)) = Range(localChanges) \cup {k}
  BY RangeAppend DEF Inductive, TypeOK
<1>1. TypeOK'
  <2>1. localChanges' \in Seq(Key) /\ Len(localChanges') <= ChanDepth
    <3>1. /\ localChanges \in Seq(Key) /\ Len(localChanges) \in Nat
          /\ Len(localChanges) <= ChanDepth /\ ChanDepth \in Nat
      BY WatchAssumption DEF Inductive, TypeOK
    <3> QED BY <1>chan, <3>1 DEF emit, Room
  <2>2. pending' \in [Key -> Nat \cup {None}] /\ sweep' \subseteq Key
    BY DEF Inductive, emit, TypeOK
  <2> QED BY <2>1, <2>2 DEF Inductive, emit, TypeOK, engine, watcher
<1>2. ReadsInOrder'
  BY <1>chan, WatchAssumption, Keys DEF Inductive, emit, Room, TypeOK, ReadsInOrder, engine, watcher, pipe
<1>3. NoLostHint'
  BY <1>chan, WatchAssumption, Keys DEF Inductive, emit, Room, TypeOK, ReadsInOrder, NoLostHint, Queued, RescanDue, WillRecord,
      engine, watcher, pipe
<1> QED BY <1>1, <1>2, <1>3 DEF Inductive

\* The loop takes a hint and has not read the file yet.
LEMMA LoopHintKeeps ==
    ASSUME Inductive, loopHint PROVE Inductive'
<1>chan. /\ Tail(localChanges) \in Seq(Key) /\ Head(localChanges) \in Key /\ Len(Tail(localChanges)) = Len(localChanges) - 1
      /\ Range(localChanges) = Range(Tail(localChanges)) \cup {Head(localChanges)}
  BY RangeTail DEF Inductive, TypeOK, loopHint
<1>1. TypeOK'
  BY <1>chan, WatchAssumption, Keys DEF Inductive, loopHint, TypeOK, engine, watcher, pipe, Unread
<1>2. ReadsInOrder'
  BY <1>chan, WatchAssumption, Keys DEF Inductive, loopHint, TypeOK, ReadsInOrder, engine, watcher, pipe, Unread
<1>3. NoLostHint'
  BY <1>chan, WatchAssumption, Keys DEF Inductive, loopHint, TypeOK, ReadsInOrder, NoLostHint, Queued, RescanDue, WillRecord,
      engine, watcher, pipe, Unread
<1> QED BY <1>1, <1>2, <1>3 DEF Inductive

\* onLocalChange reads the file.
LEMMA ReadHintKeeps ==
    ASSUME Inductive, readHint PROVE Inductive'
<1>1. TypeOK'
  BY WatchAssumption, Keys DEF Inductive, readHint, TypeOK, engine, watcher, pipe
<1>2. ReadsInOrder'
  BY WatchAssumption, Keys DEF Inductive, readHint, TypeOK, ReadsInOrder, engine, watcher, pipe
<1>3. NoLostHint'
  BY WatchAssumption, Keys DEF Inductive, readHint, TypeOK, ReadsInOrder, NoLostHint, Queued, RescanDue, WillRecord,
      engine, watcher, pipe
<1> QED BY <1>1, <1>2, <1>3 DEF Inductive

\* onLocalChange records what it read, unless the file could not be read.
LEMMA EndHintKeeps ==
    ASSUME Inductive, endHint PROVE Inductive'
<1>1. TypeOK'
  <2>1. rec' \in [Path -> Nat] /\ missed' \subseteq Path
    BY DEF Inductive, endHint, TypeOK
  <2>2. left' \in [Outside -> Nat]
    BY DEF Inductive, endHint, Spend, Outside, TypeOK
  <2>3. at' = "select" /\ key' = None /\ seen' \in [Path -> Nat \cup {None}]
    BY DEF endHint, Unread
  <2> QED BY <2>1, <2>2, <2>3 DEF Inductive, endHint, TypeOK, watcher, pipe
<1>2. ReadsInOrder'
  BY WatchAssumption, Keys DEF Inductive, Outside, endHint, Spend, Unread, TypeOK, ReadsInOrder, engine, watcher, pipe
<1>3. NoLostHint'
  BY WatchAssumption, Keys DEF Inductive, Outside, endHint, Spend, Unread, TypeOK, ReadsInOrder, NoLostHint, Queued, RescanDue, WillRecord,
      engine, watcher, pipe
<1> QED BY <1>1, <1>2, <1>3 DEF Inductive

\* A rescan that was due begins with nothing read.
LEMMA LoopRescanKeeps ==
    ASSUME Inductive, loopRescan PROVE Inductive'
<1>1. TypeOK'
  BY WatchAssumption, Keys DEF Inductive, loopRescan, StartRescan, Unread, TypeOK, engine, watcher, pipe
<1>2. ReadsInOrder'
  BY WatchAssumption, Keys DEF Inductive, loopRescan, StartRescan, Unread, TypeOK, ReadsInOrder, engine, watcher, pipe
<1>3. NoLostHint'
  BY WatchAssumption, Keys DEF Inductive, loopRescan, StartRescan, Unread, TypeOK, ReadsInOrder, NoLostHint, Queued, RescanDue, WillRecord,
      engine, watcher, pipe
<1> QED BY <1>1, <1>2, <1>3 DEF Inductive

\* So does one by the ticker.
LEMMA TickerRescanKeeps ==
    ASSUME Inductive, tickerRescan PROVE Inductive'
<1>1. TypeOK'
  BY WatchAssumption, Keys DEF Inductive, Outside, tickerRescan, StartRescan, Spend, Unread, TypeOK, engine, watcher, pipe
<1>2. ReadsInOrder'
  BY WatchAssumption, Keys DEF Inductive, Outside, tickerRescan, StartRescan, Spend, Unread, TypeOK, ReadsInOrder, engine, watcher, pipe
<1>3. NoLostHint'
  BY WatchAssumption, Keys DEF Inductive, Outside, tickerRescan, StartRescan, Spend, Unread, TypeOK, ReadsInOrder, NoLostHint, Queued, RescanDue, WillRecord,
      engine, watcher, pipe
<1> QED BY <1>1, <1>2, <1>3 DEF Inductive

\* The scan reads one file.
LEMMA ScanPathKeeps ==
    ASSUME Inductive, NEW p \in Path, scanPath(p) PROVE Inductive'
<1>1. TypeOK'
  BY WatchAssumption, Keys DEF Inductive, scanPath, TypeOK, engine, watcher, pipe
<1>2. ReadsInOrder'
  BY WatchAssumption, Keys DEF Inductive, scanPath, TypeOK, ReadsInOrder, engine, watcher, pipe
<1>3. NoLostHint'
  BY WatchAssumption, Keys DEF Inductive, scanPath, TypeOK, ReadsInOrder, NoLostHint, Queued, RescanDue, WillRecord,
      engine, watcher, pipe
<1> QED BY <1>1, <1>2, <1>3 DEF Inductive

\* The rescan records what it read, unless it failed or a path is muted.
LEMMA EndRescanKeeps ==
    ASSUME Inductive, endRescan PROVE Inductive'
<1>1. TypeOK'
  <2>1. rec' \in [Path -> Nat] /\ missed' \subseteq Path
    <3>1. ASSUME \A p \in Path : seen[p] # None PROVE seen \in [Path -> Nat]
      BY <3>1 DEF Inductive, TypeOK
    <3>2. ASSUME NEW p \in Path, seen \in [Path -> Nat] PROVE [seen EXCEPT ![p] = rec[p]] \in [Path -> Nat]
      BY <3>2 DEF Inductive, TypeOK
    <3> QED BY <3>1, <3>2 DEF Inductive, endRescan, TypeOK
  <2>2. left' \in [Outside -> Nat]
    BY DEF Inductive, endRescan, Spend, Outside, TypeOK
  <2>3. seen' \in [Path -> Nat \cup {None}] /\ at' = "select"
    BY DEF endRescan, Unread
  <2> QED BY <2>1, <2>2, <2>3 DEF Inductive, endRescan, TypeOK, watcher, pipe
<1>2. ReadsInOrder'
  BY WatchAssumption, Keys DEF Inductive, Outside, endRescan, Spend, Unread, TypeOK, ReadsInOrder, engine, watcher, pipe
<1>3. NoLostHint'
  BY WatchAssumption, Keys DEF Inductive, Outside, endRescan, Spend, Unread, TypeOK, ReadsInOrder, NoLostHint, Queued, RescanDue, WillRecord,
      engine, watcher, pipe
<1> QED BY <1>1, <1>2, <1>3 DEF Inductive

\* The end.
LEMMA CancelKeeps ==
    ASSUME Inductive, Cancel PROVE Inductive'
<1>1. TypeOK'
  BY WatchAssumption, Keys DEF Inductive, Cancel, TypeOK, engine, watcher, pipe
<1>2. ReadsInOrder'
  BY WatchAssumption, Keys DEF Inductive, Cancel, TypeOK, ReadsInOrder, engine, watcher, pipe
<1>3. NoLostHint'
  BY WatchAssumption, Keys DEF Inductive, Cancel, TypeOK, ReadsInOrder, NoLostHint, Queued, RescanDue, WillRecord,
      engine, watcher, pipe
<1> QED BY <1>1, <1>2, <1>3 DEF Inductive

\* The loop is left.
LEMMA LoopBreakKeeps ==
    ASSUME Inductive, loopBreak PROVE Inductive'
<1>1. TypeOK'
  BY WatchAssumption, Keys DEF Inductive, loopBreak, TypeOK, engine, watcher, pipe
<1>2. ReadsInOrder'
  BY WatchAssumption, Keys DEF Inductive, loopBreak, TypeOK, ReadsInOrder, engine, watcher, pipe
<1>3. NoLostHint'
  BY WatchAssumption, Keys DEF Inductive, loopBreak, TypeOK, ReadsInOrder, NoLostHint, Queued, RescanDue, WillRecord,
      engine, watcher, pipe
<1> QED BY <1>1, <1>2, <1>3 DEF Inductive

\* A goroutine ends.
LEMMA ExitKeeps ==
    ASSUME Inductive, NEW g \in Goroutine, exit(g) PROVE Inductive'
<1>1. TypeOK'
  BY WatchAssumption, Keys DEF Inductive, exit, TypeOK, engine, watcher, pipe
<1>2. ReadsInOrder'
  BY WatchAssumption, Keys DEF Inductive, exit, TypeOK, ReadsInOrder, engine, watcher, pipe
<1>3. NoLostHint'
  BY WatchAssumption, Keys DEF Inductive, exit, TypeOK, ReadsInOrder, NoLostHint, Queued, RescanDue, WillRecord,
      engine, watcher, pipe
<1> QED BY <1>1, <1>2, <1>3 DEF Inductive

\* Run returns.
LEMMA LoopReturnKeeps ==
    ASSUME Inductive, loopReturn PROVE Inductive'
<1>1. TypeOK'
  BY WatchAssumption, Keys DEF Inductive, loopReturn, TypeOK, engine, watcher, pipe
<1>2. ReadsInOrder'
  BY WatchAssumption, Keys DEF Inductive, loopReturn, TypeOK, ReadsInOrder, engine, watcher, pipe
<1>3. NoLostHint'
  BY WatchAssumption, Keys DEF Inductive, loopReturn, TypeOK, ReadsInOrder, NoLostHint, Queued, RescanDue, WillRecord,
      engine, watcher, pipe
<1> QED BY <1>1, <1>2, <1>3 DEF Inductive

\* Every step of the engine, its goroutines and the world keeps the invariant.
LEMMA StepInductive == Inductive /\ [Next]_vars => Inductive'
<1> SUFFICES ASSUME Inductive, [Next]_vars PROVE Inductive'
  OBVIOUS
<1>1. CASE \E p \in Path : UserChange(p)
  BY <1>1, UserChangeKeeps
<1>2. CASE \E g \in Dir : MakeDir(g)
  BY <1>2, MakeDirKeeps
<1>3. CASE Run
  <2>1. "run" \in Goroutine
    BY DEF Goroutine
  <2> QED BY <1>3, <2>1, RunEventKeeps, RunSendKeeps, RunOverflowKeeps, ExitKeeps DEF Run
<1>4. CASE Drain
  <2>1. "drain" \in Goroutine
    BY DEF Goroutine
  <2> QED BY <1>4, <2>1, DrainChangeKeeps, DrainSendKeeps, DrainOverflowKeeps, ExitKeeps DEF Drain
<1>5. CASE Debouncer
  <2>1. "debounce" \in Goroutine
    BY DEF Goroutine
  <2> QED BY <1>5, <2>1, DebounceEventKeeps, DebounceTickKeeps, EmitKeeps, ExitKeeps DEF Debouncer
<1>6. CASE Loop
  BY <1>6, StartWatcherKeeps, LoopHintKeeps, ReadHintKeeps, EndHintKeeps, LoopRescanKeeps,
     ScanPathKeeps, EndRescanKeeps, LoopBreakKeeps, LoopReturnKeeps DEF Loop
<1>7. CASE Clock \/ tickerRescan \/ Cancel
  BY <1>7, ClockKeeps, TickerRescanKeeps, CancelKeeps
<1>8. CASE UNCHANGED vars
  BY <1>8 DEF vars, engine, watcher, pipe, Inductive, TypeOK, ReadsInOrder, NoLostHint, Queued,
     RescanDue, WillRecord
<1> QED BY <1>1, <1>2, <1>3, <1>4, <1>5, <1>6, <1>7, <1>8 DEF Next

\* The channels never hold more than their capacity, whatever the capacity.
THEOREM WatchTypes == Spec => []TypeOK
<1>1. Inductive => TypeOK
  BY DEF Inductive
<1> QED BY <1>1, InitInductive, StepInductive, PTL DEF Spec

\* No change is lost between the disk and the loop: neither by the bounded channels of
\* startWatcher, nor by the debouncer, nor by an overflow that is merged with another, nor
\* by a rescan that read the file too early (engine.go, scanloop.go, watcher.go).
THEOREM HintsNeverLost == Spec => []NoLostHint
<1>1. Inductive => NoLostHint
  BY DEF Inductive
<1> QED BY <1>1, InitInductive, StepInductive, PTL DEF Spec
=============================================================================
