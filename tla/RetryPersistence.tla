------------------------------ MODULE RetryPersistence ------------------------------
(***************************************************************************)
(* RetryQueue with a persist_path: the file, the threads that write it, and *)
(* processes that die and load it again (src/src/msmtp/retry_queue.py).     *)
(*                                                                         *)
(* add, mark_success and stop end in _persist_state, which copies _items    *)
(* and hands the copy to a thread before anything else can run; so the      *)
(* change, the copy and the hand-over are one step.  The threads then run   *)
(* beside everything else and beside each other.  They share one temporary  *)
(* file: opening it empties the file another thread may be writing, and a   *)
(* rename takes along whoever still has it open.                            *)
(*                                                                         *)
(* A file is EmptyFile, a copy, or TornFile: a copy over the end of which   *)
(* a longer one still shows.  _load_state reads nothing from the first and  *)
(* the last.                                                                *)
(***************************************************************************)
EXTENDS RetryQueue

CONSTANTS
  Writers,      \* threads of the executor
  MaxCrashes,   \* bound: how often the process dies
  MaxErrors,    \* bound: how often the disk refuses a write
  EmptyFile, TornFile

VARIABLES
  up,           \* the process lives
  job,          \* job[w]: the _write_state_to_disk that thread w runs
  tmpFile,      \* persist_path.tmp
  stateFile,    \* persist_path
  overlapped,   \* history: two writes were under way at once
  promised,     \* history: "kept" or "gone" when the last call about an id that
                \* returned had written it down or removed it for good
  crashes, errors  \* so far

diskVars == <<job, tmpFile, stateFile, overlapped, promised>>
allVars == <<vars, diskVars, up, crashes, errors>>

Snapshot == [Ids -> Item \cup {None}]
Content == Snapshot \cup {EmptyFile, TornFile}
(* A job has the temporary file open under that name, after a rename as the
   state file, or under no name at all.                                     *)
Job == [snap : Snapshot, stage : {"queued", "open", "written"},
        holds : {"nothing", "tmp", "state"}, by : {"loop", "caller"}]

ASSUME DiskAssumption ==
  /\ MaxCrashes \in Nat /\ MaxErrors \in Nat
  /\ None \notin Job \cup {EmptyFile, TornFile}
  /\ \A content \in {None, EmptyFile, TornFile} : content \notin Snapshot

TypeOKDurable ==
  /\ TypeOK
  /\ up \in BOOLEAN /\ overlapped \in BOOLEAN
  /\ job \in [Writers -> Job \cup {None}]
  /\ tmpFile \in Content \cup {None}
  /\ stateFile \in Content \cup {None}
  /\ promised \in [Ids -> {"nothing", "kept", "gone"}]
  /\ crashes \in 0..MaxCrashes /\ errors \in 0..MaxErrors

InitDurable ==
  /\ Init
  /\ up = TRUE
  /\ job = [w \in Writers |-> None]
  /\ tmpFile = None /\ stateFile = None
  /\ overlapped = FALSE
  /\ promised = [id \in Ids |-> "nothing"]
  /\ crashes = 0 /\ errors = 0

Busy == {w \in Writers : job[w] # None}
LoopJobs == {w \in Busy : job[w].by = "loop"}
Alive(v) == v # None /\ v.status # "exhausted"

-----------------------------------------------------------------------------
(* _persist_state of what items have become.  A change of whether an item is
   alive ends what was promised of it.                                      *)
PersistedBy(who, others) ==
  /\ \E w \in Writers :
       /\ others[w] = None
       /\ job' = [others EXCEPT ![w] = [snap |-> items', stage |-> "queued",
                                        holds |-> "nothing", by |-> who]]
  /\ overlapped' = (overlapped \/ Busy # {})
  /\ promised' = [id \in Ids |-> IF Alive(items'[id]) <=> Alive(items[id])
                                 THEN promised[id] ELSE "nothing"]
  /\ UNCHANGED <<tmpFile, stateFile, up, crashes, errors>>

Persisted(who) == PersistedBy(who, job)

Unpersisted == UNCHANGED <<diskVars, up, crashes, errors>>

DurableCall ==
  /\ up /\ calls < MaxCalls
  /\ calls' = calls + 1
  /\ \E id \in Ids : \/ Add(id)
                     \/ items[id] # None /\ (MarkSuccess(id) \/ MarkFailed(id))
  /\ Persisted("caller")
  /\ UNCHANGED loopVars

(* process_item waits for the write, in its slot of the semaphore. *)
DurableBegin(id) ==
  /\ up
  /\ Cardinality(LoopJobs) + Cardinality(Handling) < Slots
  /\ BeginHandling(id)
  /\ Unpersisted

DurableOutcome(id) ==
  /\ up
  /\ Delivered(id) \/ NotDelivered(id)
  /\ IF items[id] = None THEN Unpersisted ELSE Persisted("loop")

DurableEnd == up /\ LoopJobs = {} /\ EndBatch /\ Unpersisted

(* The process_items that waited for a write are cancelled, the writes go on. *)
DurableStop ==
  /\ up
  /\ Stop
  /\ PersistedBy("caller", [w \in Writers |-> IF job[w] = None THEN None
                                              ELSE [job[w] EXCEPT !.by = "caller"]])

(* Nothing of this is written down; a snapshot of later may show it. *)
DurableLoop ==
  /\ up
  /\ Start \/ TakeBatch \/ \E entry \in queue : ComeDue(entry)
  /\ Unpersisted

-----------------------------------------------------------------------------
(* _write_state_to_disk, and what the other threads have open meanwhile. *)

OpenInPlace(w) ==                \* mutation: no temporary file
  /\ w \in Busy /\ job[w].stage = "queued"
  /\ job' = [job EXCEPT ![w].stage = "open", ![w].holds = "state"]
  /\ stateFile' = EmptyFile
  /\ UNCHANGED <<vars, tmpFile, overlapped, promised, up, crashes, errors>>

OpenTmp(w) ==
  /\ w \in Busy /\ job[w].stage = "queued"
  /\ job' = [job EXCEPT ![w].stage = "open", ![w].holds = "tmp"]
  /\ tmpFile' = EmptyFile
  /\ UNCHANGED <<vars, stateFile, overlapped, promised, up, crashes, errors>>

(* Writing a copy from the start of a file that was not empty any more. *)
Over(content, snap) ==
  IF content \in {EmptyFile, snap} THEN {snap} ELSE {snap, TornFile}

Dump(w) ==
  /\ w \in Busy /\ job[w].stage = "open"
  /\ job' = [job EXCEPT ![w].stage = "written"]
  /\ IF job[w].holds = "tmp"
     THEN tmpFile' \in Over(tmpFile, job[w].snap)
     ELSE UNCHANGED tmpFile
  /\ IF job[w].holds = "state"
     THEN stateFile' \in Over(stateFile, job[w].snap)
     ELSE UNCHANGED stateFile
  /\ UNCHANGED <<vars, overlapped, promised, up, crashes, errors>>

(* Who has a file open keeps it open under its new name. *)
Renamed(j) ==
  IF j = None THEN None
  ELSE [j EXCEPT !.holds = IF @ = "tmp" THEN "state" ELSE "nothing"]

(* shutil.move, of whatever has the temporary name by now; then the call that
   persisted returns.  If nothing has that name the error is logged only.   *)
Move(w) ==
  /\ w \in Busy /\ job[w].stage = "written"
  /\ IF tmpFile = None
     THEN /\ job' = [job EXCEPT ![w] = None]
          /\ UNCHANGED <<tmpFile, stateFile, promised>>
     ELSE /\ job' = [v \in Writers |-> IF v = w THEN None ELSE Renamed(job[v])]
          /\ stateFile' = tmpFile
          /\ tmpFile' = None
          /\ promised' = [id \in Ids |-> IF Alive(job[w].snap[id]) THEN "kept" ELSE "gone"]
  /\ UNCHANGED <<vars, overlapped, up, crashes, errors>>

(* open or the write raises, and the call returns all the same. *)
DiskError(w) ==
  /\ w \in Busy /\ job[w].stage \in {"queued", "open"}
  /\ errors < MaxErrors
  /\ errors' = errors + 1
  /\ job' = [job EXCEPT ![w] = None]
  /\ UNCHANGED <<vars, tmpFile, stateFile, overlapped, promised, up, crashes>>

-----------------------------------------------------------------------------
(* The process dies with its threads; the files stay. *)
Crash ==
  /\ up
  /\ crashes < MaxCrashes
  /\ crashes' = crashes + 1
  /\ up' = FALSE
  /\ items' = [id \in Ids |-> None]
  /\ queue' = {} /\ dueEntries' = {}
  /\ loop' = "off"
  /\ child' = [id \in Ids |-> "none"]
  /\ job' = [w \in Writers |-> None]
  /\ UNCHANGED <<taken, interrupted, calls, stops, tmpFile, stateFile, overlapped,
                 promised, errors>>

Unreadable == {None, EmptyFile, TornFile}

LoadedButRetrying(id) ==         \* mutation: items being retried are not taken
  IF stateFile \in Unreadable THEN None
  ELSE IF Alive(stateFile[id]) /\ stateFile[id].status # "retrying"
       THEN stateFile[id] ELSE None

LoadedAfresh(id) ==              \* mutation: attempt is not restored
  IF stateFile \in Unreadable THEN None
  ELSE IF Alive(stateFile[id]) THEN [stateFile[id] EXCEPT !.attempt = 0] ELSE None

(* What _load_state takes from the file. *)
Loaded(id) ==
  IF stateFile \in Unreadable THEN None
  ELSE IF Alive(stateFile[id]) THEN stateFile[id] ELSE None

RestartUnscheduled ==            \* mutation: the heap is not filled
  /\ ~up
  /\ up' = TRUE
  /\ items' = [id \in Ids |-> Loaded(id)]
  /\ queue' = {}
  /\ interrupted' = interrupted \cup
       {id \in Ids : Loaded(id) # None /\ Loaded(id).status = "retrying"}
  /\ UNCHANGED <<dueEntries, loop, child, taken, calls, stops, diskVars, crashes, errors>>

Restart ==
  /\ ~up
  /\ up' = TRUE
  /\ items' = [id \in Ids |-> Loaded(id)]
  /\ queue' = {<<Loaded(id).time, id>> : id \in {d \in Ids : Loaded(d) # None}}
  /\ interrupted' = interrupted \cup
       {id \in Ids : Loaded(id) # None /\ Loaded(id).status = "retrying"}
  /\ UNCHANGED <<dueEntries, loop, child, taken, calls, stops, diskVars, crashes, errors>>

NextDurable ==
  \/ DurableCall \/ DurableLoop \/ DurableEnd \/ DurableStop
  \/ \E id \in Ids : DurableBegin(id) \/ DurableOutcome(id)
  \/ \E w \in Writers : OpenTmp(w) \/ Dump(w) \/ Move(w) \/ DiskError(w)
  \/ Crash \/ Restart

SpecDurable == InitDurable /\ [][NextDurable]_allVars

-----------------------------------------------------------------------------
(* "Atomic write pattern (write temp then rename)" (retry_queue.py:276): a
   crash at any time leaves a state file that can be read.                  *)
StateFileWhole == stateFile \notin {EmptyFile, TornFile}

(* It does as long as no two writes overlap, writes that fail included. *)
WholeUnlessOverlapped == ~overlapped => StateFileWhole

(* After any crashes, restarts and failed writes: an item whose add was written
   down is there until it is delivered or given up, and one that was delivered
   or given up, and whose removal was written down, does not come back.     *)
PromiseKept ==
  up /\ ~overlapped =>
    \A id \in Ids : /\ promised[id] = "kept" => Alive(items[id])
                    /\ promised[id] = "gone" => ~Alive(items[id])

(* A crash or a failed write makes the queue forget at most one try. *)
TriesAcrossRestarts ==
  ~overlapped =>
    \A id \in Ids : Present(id) => taken[id] <= MaxAttempts + crashes + errors
=============================================================================
