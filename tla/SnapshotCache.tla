---------------------------- MODULE SnapshotCache ----------------------------
(***************************************************************************)
(* Time-travel snapshots of one ontology and the cache in front of them    *)
(* (services/temporal.py: get_snapshot, invalidate_snapshot_cache).  Each  *)
(* worker process has a cache of its own.                                  *)
(*                                                                         *)
(* A writer takes its time stamp before it writes, and only create_version *)
(* empties the cache, after its write and in its own process.              *)
(***************************************************************************)
EXTENDS Naturals

CONSTANTS
    Processes,    \* worker processes
    Handlers,     \* request threads; each belongs to a process
    ProcessOf,
    MaxClock,
    MaxVersions,
    TTL

ASSUME SnapshotAssumption == ProcessOf \in [Handlers -> Processes] /\ MaxClock \in Nat

VARIABLES
    clock,
    stamps,       \* the created stamps of the rows of the ontology
    cache,        \* cache[w][ts]: rows and when they were stored, or Miss
    thread,      \* what a thread is doing
    written,
    versioned,    \* history: create_version calls that have returned
    raced         \* history: processes where a snapshot read earlier was put after an invalidation

snapshots == <<clock, stamps, cache, thread, written, versioned, raced>>

Times == 0..MaxClock
Miss == [rows |-> {}, at |-> MaxClock + 1]
Resting == [at |-> "rest", ts |-> 0, rows |-> {}, versions |-> FALSE]

SnapshotInit ==
    /\ clock = 0 /\ stamps = {} /\ written = 0 /\ versioned = {} /\ raced = {}
    /\ cache = [w \in Processes |-> [ts \in Times |-> Miss]]
    /\ thread = [t \in Handlers |-> Resting]

\* What the queries return for ts.
SnapshotAt(ts) == {s \in stamps : s <= ts}

ClockTicks ==
    /\ clock < MaxClock /\ clock' = clock + 1
    /\ UNCHANGED <<stamps, cache, thread, written, versioned, raced>>

\* A write through create_version, or through any other path.
StampWrite(t, versions) ==
    /\ thread[t] = Resting /\ written < MaxVersions
    /\ thread' = [thread EXCEPT ![t] = [Resting EXCEPT !.at = "insert", !.ts = clock, !.versions = versions]]
    /\ written' = written + 1
    /\ UNCHANGED <<clock, stamps, cache, versioned, raced>>

InsertRow(t) ==
    /\ thread[t].at = "insert"
    /\ stamps' = stamps \cup {thread[t].ts}
    /\ thread' = [thread EXCEPT ![t] = IF thread[t].versions THEN [@ EXCEPT !.at = "invalidate"] ELSE Resting]
    /\ UNCHANGED <<clock, cache, written, versioned, raced>>

\* Mutant: only the snapshots of the moment of the write go.
InvalidateMoment(t) ==
    /\ thread[t].at = "invalidate"
    /\ cache' = [cache EXCEPT ![ProcessOf[t]][thread[t].ts] = Miss]
    /\ thread' = [thread EXCEPT ![t] = Resting]
    /\ versioned' = versioned \cup {[by |-> ProcessOf[t], ts |-> thread[t].ts]}
    /\ UNCHANGED <<clock, stamps, written, raced>>

\* Under the lock: every snapshot of the ontology goes.
Invalidate(t) ==
    /\ thread[t].at = "invalidate"
    /\ cache' = [cache EXCEPT ![ProcessOf[t]] = [ts \in Times |-> Miss]]
    /\ thread' = [thread EXCEPT ![t] = Resting]
    /\ versioned' = versioned \cup {[by |-> ProcessOf[t], ts |-> thread[t].ts]}
    /\ raced' = IF \E r \in Handlers : ProcessOf[r] = ProcessOf[t] /\ thread[r].at = "put"
                THEN raced \cup {ProcessOf[t]} ELSE raced
    /\ UNCHANGED <<clock, stamps, written>>

StillFresh(entry) == entry # Miss /\ clock - entry.at <= TTL

\* A hit changes nothing; an entry past its time is dropped and read again.
Snapshot(t, ts) ==
    LET entry == cache[ProcessOf[t]][ts] IN
    /\ thread[t] = Resting
    /\ ~StillFresh(entry)
    /\ cache' = [cache EXCEPT ![ProcessOf[t]][ts] = Miss]
    /\ thread' = [thread EXCEPT ![t] = [Resting EXCEPT !.at = "put", !.ts = ts, !.rows = SnapshotAt(ts)]]
    /\ UNCHANGED <<clock, stamps, written, versioned, raced>>

PutSnapshot(t) ==
    LET ts == thread[t].ts IN
    /\ thread[t].at = "put"
    /\ cache' = [cache EXCEPT ![ProcessOf[t]][ts] = [rows |-> thread[t].rows, at |-> clock]]
    /\ thread' = [thread EXCEPT ![t] = Resting]
    /\ UNCHANGED <<clock, stamps, written, versioned, raced>>

SnapshotNext ==
    \/ ClockTicks
    \/ \E t \in Handlers :
         \/ InsertRow(t) \/ Invalidate(t) \/ PutSnapshot(t)
         \/ \E versions \in BOOLEAN : StampWrite(t, versions)
         \/ \E ts \in Times : Snapshot(t, ts)

SnapshotSpec == SnapshotInit /\ [][SnapshotNext]_snapshots

-----------------------------------------------------------------------------
(* Once create_version has returned, no snapshot its process keeps lacks    *)
(* the version, although the stamp is older than the write and snapshots    *)
(* are taken in between (temporal.py:141), unless one was read before the   *)
(* invalidation and put after it.                                           *)
VersionsInSnapshots ==
    \A v \in versioned, ts \in Times :
        v.by \notin raced /\ v.ts <= ts /\ cache[v.by][ts] # Miss => v.ts \in cache[v.by][ts].rows
=============================================================================
