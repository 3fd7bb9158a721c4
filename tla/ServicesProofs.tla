---------------------------- MODULE ServicesProofs ----------------------------
(***************************************************************************)
(* Invariance proofs for the services whose handlers work on what they     *)
(* read first: the snapshot cache, the alignment session, the label        *)
(* decisions of the lexicon, and the imports and the export.  For any      *)
(* number of threads, processes, classes, correspondences, curators,       *)
(* requests and import jobs, and for any files.                            *)
(***************************************************************************)
EXTENDS Exchange, SnapshotCache, Alignment, Lexicon, FiniteSetTheorems, WellFoundedInduction, TLAPS

-----------------------------------------------------------------------------
(* SnapshotCache.                                                           *)

CacheEntries == [rows : SUBSET Times, at : 0 .. MaxClock + 1]
SnapshotThreads ==
    [at : {"rest", "insert", "invalidate", "put"}, ts : Times, rows : SUBSET Times, versions : BOOLEAN]

SnapshotTypes ==
    /\ clock \in Times /\ stamps \subseteq Times
    /\ cache \in [Processes -> [Times -> CacheEntries]]
    /\ thread \in [Handlers -> SnapshotThreads]
    /\ versioned \subseteq [by : Processes, ts : Times]
    /\ raced \subseteq Processes

\* A version whose create_version is past its write is in the store for good.
VersionsStored ==
    /\ \A v \in versioned : v.ts \in stamps
    /\ \A t \in Handlers : thread[t].at = "invalidate" => thread[t].ts \in stamps

\* A snapshot in hand was read after the invalidations of its process, or
\* the process has raced.
InHandComplete ==
    \A t \in Handlers, v \in versioned :
        thread[t].at = "put" /\ v.by = ProcessOf[t] /\ v.by \notin raced /\ v.ts <= thread[t].ts
            => v.ts \in thread[t].rows

SnapshotInv == SnapshotTypes /\ VersionsStored /\ InHandComplete /\ VersionsInSnapshots

LEMMA SnapshotInit_ == SnapshotInit => SnapshotInv
<1> SUFFICES ASSUME SnapshotInit PROVE SnapshotInv
  OBVIOUS
<1>1. Miss \in CacheEntries /\ Resting \in SnapshotThreads /\ 0 \in Times
  BY SnapshotAssumption DEF Miss, Resting, CacheEntries, SnapshotThreads, Times
<1>2. SnapshotTypes
  BY <1>1 DEF SnapshotInit, SnapshotTypes
<1>3. VersionsStored /\ InHandComplete /\ VersionsInSnapshots
  BY DEF SnapshotInit, VersionsStored, InHandComplete, VersionsInSnapshots, Resting
<1> QED BY <1>2, <1>3 DEF SnapshotInv

LEMMA SnapshotStep ==
    ASSUME SnapshotInv, SnapshotNext
    PROVE  SnapshotInv'
<1> USE DEF SnapshotInv
<1>0. /\ Miss \in CacheEntries /\ Resting \in SnapshotThreads /\ 0 \in Times
      /\ Resting.at = "rest" /\ Times \subseteq Nat /\ clock \in Times
      /\ \A t \in Handlers : ProcessOf[t] \in Processes
      /\ \A t \in Handlers : thread[t] \in SnapshotThreads
  BY SnapshotAssumption DEF Miss, Resting, CacheEntries, SnapshotThreads, Times, SnapshotTypes
<1>1. CASE ClockTicks
  <2>1. UNCHANGED <<stamps, cache, thread, versioned, raced>> /\ clock' \in Times
    BY <1>1, SnapshotAssumption DEF ClockTicks, SnapshotTypes, Times
  <2>2. SnapshotTypes'
    BY <2>1 DEF SnapshotTypes
  <2>3. VersionsStored' /\ InHandComplete' /\ VersionsInSnapshots'
    BY <2>1 DEF VersionsStored, InHandComplete, VersionsInSnapshots
  <2> QED BY <2>2, <2>3
<1>2. ASSUME NEW t \in Handlers, NEW versions \in BOOLEAN, StampWrite(t, versions)
      PROVE  SnapshotInv'
  <2>1. PICK f \in SnapshotThreads : f.at = "insert" /\ thread' = [thread EXCEPT ![t] = f]
    BY <1>0, <1>2 DEF StampWrite, Resting, SnapshotThreads
  <2>2. UNCHANGED <<clock, stamps, cache, versioned, raced>>
    BY <1>2 DEF StampWrite
  <2>3. thread' \in [Handlers -> SnapshotThreads] /\ thread'[t] = f
        /\ \A u \in Handlers : u # t => thread'[u] = thread[u]
    BY <2>1 DEF SnapshotTypes
  <2>4. SnapshotTypes'
    BY <2>2, <2>3 DEF SnapshotTypes
  <2>5. VersionsStored' /\ InHandComplete'
    BY <2>1, <2>2, <2>3 DEF VersionsStored, InHandComplete
  <2>6. VersionsInSnapshots'
    BY <2>2 DEF VersionsInSnapshots
  <2> QED BY <2>4, <2>5, <2>6
<1>3. ASSUME NEW t \in Handlers, InsertRow(t)
      PROVE  SnapshotInv'
  <2>1. PICK f \in SnapshotThreads : /\ thread' = [thread EXCEPT ![t] = f]
                                     /\ f.at = "rest" \/ (f.at = "invalidate" /\ f.ts = thread[t].ts)
    <3> DEFINE g == [thread[t] EXCEPT !.at = "invalidate"]
    <3>1. g \in SnapshotThreads /\ g.at = "invalidate" /\ g.ts = thread[t].ts
      BY <1>0 DEF SnapshotThreads
    <3>2. thread' = [thread EXCEPT ![t] = IF thread[t].versions THEN g ELSE Resting]
      BY <1>3 DEF InsertRow
    <3> HIDE DEF g
    <3>3. CASE thread[t].versions
      BY <3>1, <3>2, <3>3
    <3>4. CASE ~thread[t].versions
      BY <1>0, <3>2, <3>4
    <3> QED BY <3>3, <3>4
  <2>2. UNCHANGED <<clock, cache, versioned, raced>> /\ stamps' = stamps \cup {thread[t].ts}
        /\ thread[t].ts \in Times
    BY <1>0, <1>3 DEF InsertRow, SnapshotThreads
  <2>3. thread' \in [Handlers -> SnapshotThreads] /\ thread'[t] = f
        /\ \A u \in Handlers : u # t => thread'[u] = thread[u]
    BY <2>1 DEF SnapshotTypes
  <2>4. SnapshotTypes'
    BY <2>2, <2>3 DEF SnapshotTypes
  <2>5. VersionsStored' /\ InHandComplete'
    BY <2>1, <2>2, <2>3 DEF VersionsStored, InHandComplete
  <2>6. VersionsInSnapshots'
    BY <2>2 DEF VersionsInSnapshots
  <2> QED BY <2>4, <2>5, <2>6
<1>4. ASSUME NEW t \in Handlers, Invalidate(t)
      PROVE  SnapshotInv'
  <2>1. PICK p \in Processes, ts \in Times : p = ProcessOf[t] /\ ts = thread[t].ts
    BY <1>0 DEF SnapshotThreads
  <2>2. /\ thread[t].at = "invalidate" /\ UNCHANGED <<clock, stamps>>
        /\ thread' = [thread EXCEPT ![t] = Resting]
        /\ cache' = [cache EXCEPT ![p] = [u \in Times |-> Miss]]
        /\ versioned' = versioned \cup {[by |-> p, ts |-> ts]}
        /\ raced' = IF \E r \in Handlers : ProcessOf[r] = p /\ thread[r].at = "put"
                    THEN raced \cup {p} ELSE raced
    BY <1>4, <2>1 DEF Invalidate
  <2>3. thread' \in [Handlers -> SnapshotThreads] /\ thread'[t] = Resting
        /\ \A u \in Handlers : u # t => thread'[u] = thread[u]
    BY <1>0, <2>2 DEF SnapshotTypes
  <2>4. cache' \in [Processes -> [Times -> CacheEntries]]
        /\ \A u \in Times : cache'[p][u] = Miss
        /\ \A q \in Processes : q # p => cache'[q] = cache[q]
    BY <1>0, <2>2 DEF SnapshotTypes
  <2>5. SnapshotTypes'
    BY <2>1, <2>2, <2>3, <2>4 DEF SnapshotTypes
  <2>6. VersionsStored'
    BY <1>0, <2>1, <2>2, <2>3 DEF VersionsStored
  <2>7. \A v \in versioned' : v \in versioned \/ (v.by = p /\ v.ts = ts)
    BY <2>2
  <2>8. InHandComplete'
    <3> SUFFICES ASSUME NEW u \in Handlers, NEW v \in versioned', thread'[u].at = "put",
                        v.by = ProcessOf[u], v.by \notin raced', v.ts <= thread'[u].ts
                 PROVE  v.ts \in thread'[u].rows
      BY DEF InHandComplete
    <3>1. u # t /\ thread'[u] = thread[u]
      BY <1>0, <2>3
    <3>2. v \in versioned
      BY <2>2, <2>7, <3>1
    <3> QED BY <2>2, <3>1, <3>2 DEF InHandComplete
  <2>9. VersionsInSnapshots'
    <3> SUFFICES ASSUME NEW v \in versioned', NEW u \in Times, v.by \notin raced', v.ts <= u,
                        cache'[v.by][u] # Miss
                 PROVE  v.ts \in cache'[v.by][u].rows
      BY DEF VersionsInSnapshots
    <3>1. v.by \in Processes
      BY <2>5 DEF SnapshotTypes
    <3>2. v.by # p /\ v \in versioned
      BY <2>4, <2>7
    <3> QED BY <2>2, <2>4, <3>1, <3>2 DEF VersionsInSnapshots
  <2> QED BY <2>5, <2>6, <2>8, <2>9
<1>5. ASSUME NEW t \in Handlers, NEW ts \in Times, Snapshot(t, ts)
      PROVE  SnapshotInv'
  <2>1. PICK p \in Processes : p = ProcessOf[t]
    BY <1>0
  <2>2. PICK f \in SnapshotThreads : /\ thread' = [thread EXCEPT ![t] = f]
                                     /\ f.at = "put" /\ f.ts = ts /\ f.rows = SnapshotAt(ts)
    <3>1. SnapshotAt(ts) \subseteq Times
      BY DEF SnapshotAt, SnapshotTypes
    <3> DEFINE g == [Resting EXCEPT !.at = "put", !.ts = ts, !.rows = SnapshotAt(ts)]
    <3>2. g \in SnapshotThreads /\ g.at = "put" /\ g.ts = ts /\ g.rows = SnapshotAt(ts)
      BY <1>0, <3>1 DEF Resting, SnapshotThreads
    <3>3. thread' = [thread EXCEPT ![t] = g]
      BY <1>5 DEF Snapshot
    <3> HIDE DEF g
    <3> QED BY <3>2, <3>3
  <2>3. /\ UNCHANGED <<clock, stamps, versioned, raced>>
        /\ cache' = [cache EXCEPT ![p][ts] = Miss]
    BY <1>5, <2>1 DEF Snapshot
  <2>4. thread' \in [Handlers -> SnapshotThreads] /\ thread'[t] = f
        /\ \A u \in Handlers : u # t => thread'[u] = thread[u]
    BY <2>2 DEF SnapshotTypes
  <2>5. /\ cache' \in [Processes -> [Times -> CacheEntries]]
        /\ \A q \in Processes, u \in Times :
              cache'[q][u] = IF q = p /\ u = ts THEN Miss ELSE cache[q][u]
    BY <1>0, <2>3 DEF SnapshotTypes
  <2>6. SnapshotTypes'
    BY <2>3, <2>4, <2>5 DEF SnapshotTypes
  <2>7. VersionsStored'
    BY <2>2, <2>3, <2>4 DEF VersionsStored
  <2>8. InHandComplete'
    BY <2>2, <2>3, <2>4 DEF InHandComplete, VersionsStored, SnapshotAt
  <2>9. VersionsInSnapshots'
    BY <2>3, <2>5 DEF VersionsInSnapshots, SnapshotTypes
  <2> QED BY <2>6, <2>7, <2>8, <2>9
<1>6. ASSUME NEW t \in Handlers, PutSnapshot(t)
      PROVE  SnapshotInv'
  <2>1. PICK p \in Processes, ts \in Times : p = ProcessOf[t] /\ ts = thread[t].ts
    BY <1>0 DEF SnapshotThreads
  <2>2. PICK e \in CacheEntries : /\ cache' = [cache EXCEPT ![p][ts] = e]
                                  /\ e.rows = thread[t].rows
    <3> DEFINE g == [rows |-> thread[t].rows, at |-> clock]
    <3>1. clock \in 0 .. MaxClock + 1
      BY <1>0, SnapshotAssumption DEF Times
    <3>2. g \in CacheEntries /\ g.rows = thread[t].rows
      BY <1>0, <3>1 DEF CacheEntries, SnapshotThreads
    <3>3. cache' = [cache EXCEPT ![p][ts] = g]
      BY <1>6, <2>1 DEF PutSnapshot
    <3> HIDE DEF g
    <3> QED BY <3>2, <3>3
  <2>3. /\ UNCHANGED <<clock, stamps, versioned, raced>> /\ thread[t].at = "put"
        /\ thread' = [thread EXCEPT ![t] = Resting]
    BY <1>6, <2>1 DEF PutSnapshot
  <2>4. thread' \in [Handlers -> SnapshotThreads] /\ thread'[t] = Resting
        /\ \A u \in Handlers : u # t => thread'[u] = thread[u]
    BY <1>0, <2>3 DEF SnapshotTypes
  <2>5. /\ cache' \in [Processes -> [Times -> CacheEntries]]
        /\ \A q \in Processes, u \in Times :
              cache'[q][u] = IF q = p /\ u = ts THEN e ELSE cache[q][u]
    BY <1>0, <2>2 DEF SnapshotTypes
  <2>6. SnapshotTypes'
    BY <2>3, <2>4, <2>5 DEF SnapshotTypes
  <2>7. VersionsStored' /\ InHandComplete'
    BY <1>0, <2>3, <2>4 DEF VersionsStored, InHandComplete
  <2>8. \A v \in versioned : v.by = p /\ v.by \notin raced /\ v.ts <= ts => v.ts \in e.rows
    BY <2>1, <2>2, <2>3 DEF InHandComplete
  <2>9. VersionsInSnapshots'
    BY <2>3, <2>5, <2>8 DEF VersionsInSnapshots, SnapshotTypes
  <2> QED BY <2>6, <2>7, <2>9
<1> QED BY <1>1, <1>2, <1>3, <1>4, <1>5, <1>6 DEF SnapshotNext

(* Once create_version has returned, every snapshot its process serves from *)
(* the cache has the version, unless one was read before the invalidation   *)
(* and put after it (get_snapshot, invalidate_snapshot_cache).              *)
THEOREM SnapshotsHaveVersions == SnapshotSpec => []VersionsInSnapshots
<1>1. SnapshotInv /\ [SnapshotNext]_snapshots => SnapshotInv'
  <2> SUFFICES ASSUME SnapshotInv, UNCHANGED snapshots PROVE SnapshotInv'
    BY SnapshotStep
  <2>1. UNCHANGED <<clock, stamps, cache, thread, versioned, raced>>
    BY DEF snapshots
  <2>2. SnapshotTypes' /\ VersionsStored'
    BY <2>1 DEF SnapshotInv, SnapshotTypes, VersionsStored
  <2>3. InHandComplete' /\ VersionsInSnapshots'
    BY <2>1 DEF SnapshotInv, InHandComplete, VersionsInSnapshots
  <2> QED BY <2>2, <2>3 DEF SnapshotInv
<1>2. SnapshotInv => VersionsInSnapshots
  BY DEF SnapshotInv
<1> QED BY SnapshotInit_, <1>1, <1>2, PTL DEF SnapshotSpec
-----------------------------------------------------------------------------
(* Alignment.                                                               *)

AlignmentKinds == {"equivalent", "related"} \cup Verdicts
Row == [key : Nat, pair : Pairs, conf : 0..2, status : {"candidate", "accepted", "rejected"},
        kind : AlignmentKinds]
AllClusters == UNION {Clusters(along) : along \in SUBSET Row}
Stages == {"idle", "generate", "delete", "save", "judge", "register", "classes"}
Frames == [at : Stages, keys : SUBSET (Nodes \cup Nat), rows : SUBSET Row, pairs : SUBSET Pairs]

AlignmentTypes ==
    /\ score \in [Pairs -> 0..2] /\ alive \subseteq Nodes
    /\ rows \subseteq Row /\ IsFiniteSet(rows) /\ made \in Nat
    /\ task \in [Workers -> Frames]
    /\ masters \in Seq(SUBSET AllClusters)
    /\ crossed \in BOOLEAN

\* Before the session there is no correspondence and no task.
NothingBefore == session = "none" => rows = {} /\ \A w \in Workers : task[w] = Idle

\* Keys are given out in order and once.
KeysUnique ==
    /\ \A r \in rows : r.key <= made
    /\ \A r, s \in rows : r.key = s.key => r = s

\* One task at a time writes correspondences, unless two have crossed.
OneWriter == ~crossed => \A v, w \in Workers : Writing(v) /\ Writing(w) => v = w

\* What a task that writes has in hand covers the rows that are there: those
\* it will not delete are among the pairs it will not generate, and those it
\* saves have no row.
Accounted ==
    ~crossed =>
      \A w \in Workers, r \in rows :
        /\ task[w].at = "delete" => r.pair \in task[w].pairs \/ \E s \in task[w].rows : s.key = r.key
        /\ task[w].at = "generate" => r.pair \in task[w].pairs
        /\ task[w].at = "save" => r.pair \notin task[w].pairs

\* One row to a pair.
OneRow == ~crossed => \A r, s \in rows : r.pair = s.pair => r = s

AlignmentInv == AlignmentTypes /\ NothingBefore /\ KeysUnique /\ OneWriter /\ Accounted /\ OneRow

LEMMA PairsFinite == IsFiniteSet(Pairs)
<1>1. IsFiniteSet(SUBSET Nodes)
  BY AlignmentAssumption, FS_SUBSET
<1>2. Pairs \in SUBSET SUBSET Nodes
  BY DEF Pairs
<1> QED BY <1>1, <1>2, FS_Subset

LEMMA AlignmentTypesInit == AlignmentInit => AlignmentInv
<1> SUFFICES ASSUME AlignmentInit PROVE AlignmentInv
  OBVIOUS
<1>1. Idle \in Frames /\ Idle.at = "idle"
  BY DEF Idle, Frames, Stages
<1>2. score \in [Pairs -> 0..2]
  BY AlignmentAssumption DEF AlignmentInit
<1>3. AlignmentTypes
  <2>1. rows = {} /\ masters = <<>> /\ made = 0 /\ alive = Nodes /\ crossed = FALSE
        /\ task = [w \in Workers |-> Idle]
    BY DEF AlignmentInit
  <2>2. IsFiniteSet(rows) /\ rows \subseteq Row
    BY <2>1, FS_EmptySet
  <2>3. masters \in Seq(SUBSET AllClusters)
    BY <2>1
  <2> QED BY <1>1, <1>2, <2>1, <2>2, <2>3 DEF AlignmentTypes
<1>4. NothingBefore /\ KeysUnique /\ Accounted /\ OneRow
  BY DEF AlignmentInit, NothingBefore, KeysUnique, Accounted, OneRow
<1>5. OneWriter
  BY <1>1 DEF AlignmentInit, OneWriter, Writing
<1> QED BY <1>3, <1>4, <1>5 DEF AlignmentInv

\* What save_correspondences writes: one row to a pair, under keys not used yet.
LEMMA FreshRows ==
    ASSUME AlignmentTypes, NEW pairs \in SUBSET Pairs
    PROVE  /\ Fresh(pairs) \subseteq Row /\ IsFiniteSet(Fresh(pairs))
           /\ Cardinality(pairs) \in Nat
           /\ \A r \in Fresh(pairs) : r.pair \in pairs /\ made < r.key /\ r.key <= made + Cardinality(pairs)
           /\ \A r, s \in Fresh(pairs) : r.pair = s.pair \/ r.key = s.key => r = s
<1> DEFINE n == Cardinality(pairs)
           OrderOf(f) == f \in [pairs -> 1..n] /\ \A p, q \in pairs : p # q => f[p] # f[q]
           Order == CHOOSE f \in [pairs -> 1..n] : \A p, q \in pairs : p # q => f[p] # f[q]
           row(p) == [key |-> made + Order[p], pair |-> p, conf |-> score[p], status |-> "candidate",
                      kind |-> ProvisionalType(p)]
<1>1. IsFiniteSet(pairs)
  BY PairsFinite, FS_Subset
<1>2. n \in Nat /\ ExistsBijection(1..n, pairs)
  BY <1>1, FS_CardinalityType
<1>3. \E f : OrderOf(f)
  <2>1. PICK g \in Bijection(1..n, pairs) : TRUE
    BY <1>2 DEF ExistsBijection
  <2>2. g \in [1..n -> pairs] /\ (\A p \in pairs : \E i \in 1..n : g[i] = p)
    BY <2>1 DEF Bijection, Injection, Surjection
  <2> DEFINE f == [p \in pairs |-> CHOOSE i \in 1..n : g[i] = p]
  <2>3. \A p \in pairs : f[p] \in 1..n /\ g[f[p]] = p
    BY <2>2
  <2>4. OrderOf(f)
    BY <2>3
  <2> QED BY <2>4
<1>4. OrderOf(Order)
  BY <1>3
<1>5. Fresh(pairs) = {row(p) : p \in pairs}
  BY DEF Fresh
<1> HIDE DEF Order
<1>6. \A p \in pairs : made + Order[p] \in Nat /\ made < made + Order[p] /\ made + Order[p] <= made + n
  BY <1>2, <1>4 DEF AlignmentTypes
<1>7. \A p, q \in pairs : made + Order[p] = made + Order[q] => p = q
  BY <1>2, <1>4 DEF AlignmentTypes
<1>8. \A p \in pairs : row(p) \in Row
  BY <1>6 DEF Row, AlignmentTypes, ProvisionalType, AlignmentKinds
<1>9. IsFiniteSet(Fresh(pairs))
  <2> DEFINE f == [p \in pairs |-> row(p)]
  <2>1. f \in Surjection(pairs, Fresh(pairs))
    BY <1>5 DEF Surjection
  <2> QED BY <1>1, <2>1, FS_Surjection
<1>10. \A p \in pairs : row(p).pair = p /\ row(p).key = made + Order[p]
  OBVIOUS
<1> HIDE DEF row
<1>11. \A r \in Fresh(pairs) : \E p \in pairs : r = row(p)
  BY <1>5
<1>12. Fresh(pairs) \subseteq Row
  BY <1>8, <1>11
<1>13. \A r \in Fresh(pairs) : r.pair \in pairs /\ made < r.key /\ r.key <= made + n
  BY <1>6, <1>10, <1>11
<1>14. \A r, s \in Fresh(pairs) : r.pair = s.pair \/ r.key = s.key => r = s
  BY <1>7, <1>10, <1>11
<1> QED BY <1>2, <1>9, <1>12, <1>13, <1>14

\* A step that leaves the rows alone and starts no task that writes them.
LEMMA QuietStep ==
    ASSUME AlignmentInv, AlignmentTypes', UNCHANGED <<rows, made, crossed>>,
           (session # "none" /\ session' # "none") \/ UNCHANGED <<session, task>>,
           \A w \in Workers : task'[w].at \in {"generate", "delete", "save"} => task'[w] = task[w]
    PROVE  AlignmentInv'
<1> USE DEF AlignmentInv
<1>1. NothingBefore'
  BY DEF NothingBefore
<1>2. KeysUnique' /\ OneRow'
  BY DEF KeysUnique, OneRow
<1>3. OneWriter'
  BY DEF OneWriter, Writing
<1>4. Accounted'
  BY DEF Accounted
<1> QED BY <1>1, <1>2, <1>3, <1>4

\* A step that rewrites some rows, whose keys and pairs stay.
LEMMA RewriteStep ==
    ASSUME AlignmentInv, AlignmentTypes', UNCHANGED <<made, crossed, session>>, rows # {},
           NEW f \in [rows -> Row], rows' = {f[r] : r \in rows},
           \A r \in rows : f[r].key = r.key /\ f[r].pair = r.pair,
           \A w \in Workers : task'[w].at \in {"generate", "delete", "save"} => task'[w] = task[w]
    PROVE  AlignmentInv'
<1> USE DEF AlignmentInv
<1>1. NothingBefore'
  BY DEF NothingBefore
<1>2. \A r \in rows' : \E s \in rows : r = f[s] /\ r.key = s.key /\ r.pair = s.pair
  OBVIOUS
<1>3. KeysUnique'
  BY <1>2 DEF KeysUnique
<1>4. OneRow'
  BY <1>2 DEF OneRow
<1>5. OneWriter'
  BY DEF OneWriter, Writing
<1>6. Accounted'
  BY <1>2 DEF Accounted
<1> QED BY <1>1, <1>3, <1>4, <1>5, <1>6

\* What a worker has in hand when it starts or moves on.
LEMMA FrameSteps ==
    ASSUME AlignmentTypes, NEW w \in Workers
    PROVE  /\ Idle \in Frames /\ Idle.at = "idle"
           /\ \A g \in Frames : task' = [task EXCEPT ![w] = g] =>
                 /\ task' \in [Workers -> Frames] /\ task'[w] = g
                 /\ \A v \in Workers : v # w => task'[v] = task[v]
<1>1. Idle \in Frames /\ Idle.at = "idle"
  BY DEF Idle, Frames, Stages
<1> QED BY <1>1 DEF AlignmentTypes

LEMMA AlignmentStarts ==
    ASSUME AlignmentInv, NEW w \in Workers, CreateSession(w)
    PROVE  AlignmentInv'
<1> USE DEF AlignmentInv
<1> DEFINE g == [Idle EXCEPT !.at = "generate", !.keys = Nodes]
<1>1. g \in Frames /\ g.at = "generate"
  BY DEF Idle, Frames, Stages
<1>2. /\ session = "none" /\ session' = "candidates_generated" /\ task' = [task EXCEPT ![w] = g]
      /\ UNCHANGED <<score, alive, rows, made, masters, crossed>>
  BY DEF CreateSession
<1> HIDE DEF g
<1>3. task' \in [Workers -> Frames] /\ task'[w] = g /\ \A v \in Workers : v # w => task'[v] = task[v]
  BY <1>1, <1>2, FrameSteps
<1>4. rows = {} /\ \A v \in Workers : task[v].at = "idle"
  BY <1>2, FrameSteps DEF NothingBefore
<1>5. AlignmentTypes'
  BY <1>2, <1>3 DEF AlignmentTypes
<1>6. NothingBefore' /\ KeysUnique' /\ Accounted' /\ OneRow'
  BY <1>2, <1>4 DEF NothingBefore, KeysUnique, Accounted, OneRow
<1>7. OneWriter'
  BY <1>3, <1>4 DEF OneWriter, Writing
<1> QED BY <1>5, <1>6, <1>7

LEMMA AlignmentGenerates ==
    ASSUME AlignmentInv, NEW w \in Workers, Generate(w)
    PROVE  AlignmentInv'
<1> USE DEF AlignmentInv
<1>0. task[w] \in Frames /\ task[w].at = "generate"
  BY DEF Generate, At_, AlignmentTypes
<1> DEFINE pairs == Candidates(task[w].keys) \ task[w].pairs
           g == [task[w] EXCEPT !.at = "save", !.pairs = pairs]
<1>1. pairs \subseteq Pairs
  BY DEF Candidates
<1>2. UNCHANGED <<score, alive, session, rows, made, masters, crossed>> /\ task' = [task EXCEPT ![w] = g]
  BY DEF Generate
<1>3. \A r \in rows : ~crossed => r.pair \notin pairs
  BY <1>0 DEF Accounted
<1> HIDE DEF pairs
<1>4. g \in Frames /\ g.at = "save" /\ g.pairs = pairs
  BY <1>0, <1>1 DEF Frames, Stages
<1> HIDE DEF g
<1>5. task' \in [Workers -> Frames] /\ task'[w] = g /\ \A v \in Workers : v # w => task'[v] = task[v]
  BY <1>2, <1>4, FrameSteps
<1>6. AlignmentTypes'
  BY <1>2, <1>5 DEF AlignmentTypes
<1>7. NothingBefore'
  <2>1. session # "none"
    BY <1>0, FrameSteps DEF NothingBefore
  <2> QED BY <1>2, <2>1 DEF NothingBefore
<1>8. KeysUnique' /\ OneRow'
  BY <1>2 DEF KeysUnique, OneRow
<1>9. OneWriter'
  BY <1>0, <1>2, <1>5 DEF OneWriter, Writing
<1>10. Accounted'
  BY <1>2, <1>3, <1>4, <1>5 DEF Accounted
<1> QED BY <1>6, <1>7, <1>8, <1>9, <1>10

LEMMA AlignmentSaves ==
    ASSUME AlignmentInv, NEW w \in Workers, Save(w)
    PROVE  AlignmentInv'
<1> USE DEF AlignmentInv
<1>1. PICK pairs \in SUBSET Pairs : pairs = task[w].pairs
  BY DEF AlignmentTypes, Frames
<1>2. PICK fresh : fresh = Fresh(pairs)
  OBVIOUS
<1>3. PICK n : n = Cardinality(pairs)
  OBVIOUS
<1>4. /\ fresh \subseteq Row /\ IsFiniteSet(fresh) /\ n \in Nat
      /\ \A r \in fresh : r.pair \in pairs /\ made < r.key /\ r.key <= made + n
      /\ \A r, s \in fresh : r.pair = s.pair \/ r.key = s.key => r = s
  BY <1>2, <1>3, FreshRows
<1>5. /\ task[w].at = "save" /\ task' = [task EXCEPT ![w] = Idle]
      /\ rows' = rows \cup fresh /\ made' = made + n
      /\ UNCHANGED <<score, alive, session, masters, crossed>>
  BY <1>1, <1>2, <1>3 DEF Save, At_, Done
<1>6. task' \in [Workers -> Frames] /\ task'[w] = Idle /\ Idle.at = "idle"
      /\ \A v \in Workers : v # w => task'[v] = task[v]
  BY <1>5, FrameSteps
<1>7. made \in Nat /\ made' \in Nat /\ made <= made' /\ \A r \in rows : r.key \in Nat
  BY <1>4, <1>5 DEF AlignmentTypes, Row
<1>8. AlignmentTypes'
  <2>1. IsFiniteSet(rows') /\ rows' \subseteq Row
    BY <1>4, <1>5, FS_Union DEF AlignmentTypes
  <2> QED BY <1>5, <1>6, <1>7, <2>1 DEF AlignmentTypes
<1>9. session' # "none"
  BY <1>5, <1>6 DEF NothingBefore
<1>10. \A r \in fresh : r.key \in Nat
  BY <1>4 DEF Row
<1>11. KeysUnique'
  <2>1. \A r \in rows' : r.key <= made'
    BY <1>4, <1>5, <1>7, <1>10 DEF KeysUnique
  <2>2. \A r \in rows, s \in fresh : r.key # s.key
    BY <1>4, <1>7, <1>10 DEF KeysUnique
  <2>3. \A r, s \in rows' : r.key = s.key => r = s
    BY <1>4, <1>5, <2>2 DEF KeysUnique
  <2> QED BY <2>1, <2>3 DEF KeysUnique
<1>12. OneRow'
  <2>1. ~crossed => \A r \in rows, s \in fresh : r.pair # s.pair
    BY <1>1, <1>4, <1>5 DEF Accounted
  <2> QED BY <1>4, <1>5, <2>1 DEF OneRow
<1>13. OneWriter'
  BY <1>5, <1>6 DEF OneWriter, Writing
<1>14. Accounted'
  <2>1. ~crossed => \A v \in Workers : task'[v].at \notin {"generate", "delete", "save"}
    BY <1>5, <1>6 DEF OneWriter, Writing
  <2> QED BY <1>5, <2>1 DEF Accounted
<1> QED BY <1>8, <1>9, <1>11, <1>12, <1>13, <1>14 DEF NothingBefore

LEMMA AlignmentDeletes ==
    ASSUME AlignmentInv, NEW w \in Workers, DeleteStale(w)
    PROVE  AlignmentInv'
<1> USE DEF AlignmentInv
<1>0. task[w] \in Frames /\ task[w].at = "delete"
  BY DEF DeleteStale, At_, AlignmentTypes
<1> DEFINE gone == {r \in rows : \E s \in task[w].rows : s.key = r.key}
           g == [task[w] EXCEPT !.at = "generate"]
<1>1. rows' = rows \ gone /\ UNCHANGED <<score, alive, session, made, masters, crossed>>
      /\ task' = [task EXCEPT ![w] = g]
  BY DEF DeleteStale, Then_
<1>2. \A r \in rows' : ~crossed => r.pair \in task[w].pairs
  BY <1>0, <1>1 DEF Accounted
<1> HIDE DEF gone
<1>3. g \in Frames /\ g.at = "generate" /\ g.pairs = task[w].pairs
  BY <1>0 DEF Frames, Stages
<1> HIDE DEF g
<1>4. task' \in [Workers -> Frames] /\ task'[w] = g /\ \A v \in Workers : v # w => task'[v] = task[v]
  BY <1>1, <1>3, FrameSteps
<1>5. AlignmentTypes'
  <2>1. IsFiniteSet(rows') /\ rows' \subseteq Row
    BY <1>1, FS_Difference DEF AlignmentTypes
  <2> QED BY <1>1, <1>4, <2>1 DEF AlignmentTypes
<1>6. NothingBefore'
  <2>1. session # "none"
    BY <1>0, FrameSteps DEF NothingBefore
  <2> QED BY <1>1, <2>1 DEF NothingBefore
<1>7. KeysUnique' /\ OneRow'
  BY <1>1 DEF KeysUnique, OneRow
<1>8. OneWriter'
  BY <1>0, <1>1, <1>4 DEF OneWriter, Writing
<1>9. Accounted'
  <2> SUFFICES ASSUME ~crossed', NEW v \in Workers, NEW r \in rows'
               PROVE  /\ task'[v].at = "delete" => r.pair \in task'[v].pairs \/ \E s \in task'[v].rows : s.key = r.key
                      /\ task'[v].at = "generate" => r.pair \in task'[v].pairs
                      /\ task'[v].at = "save" => r.pair \notin task'[v].pairs
    BY DEF Accounted
  <2>1. ~crossed /\ r \in rows
    BY <1>1
  <2>2. CASE v = w
    BY <1>2, <1>3, <1>4, <2>1, <2>2
  <2>3. CASE v # w
    BY <1>4, <2>1, <2>3 DEF Accounted
  <2> QED BY <2>2, <2>3
<1> QED BY <1>5, <1>6, <1>7, <1>8, <1>9

LEMMA AlignmentRefreshes ==
    ASSUME AlignmentInv, NEW w \in Workers, NEW n \in Changing, BeginRefresh(w, {n})
    PROVE  AlignmentInv'
<1> USE DEF AlignmentInv
<1> DEFINE stale == {r \in rows : r.pair \cap {n} # {}}
           kept == {r.pair : r \in rows \ stale}
           g == [at |-> "delete", keys |-> {n}, rows |-> stale, pairs |-> kept]
<1>1. /\ session # "none" /\ task' = [task EXCEPT ![w] = g]
      /\ UNCHANGED <<score, alive, session, rows, made, masters>>
      /\ crossed' = (crossed \/ \E v \in Workers : Writing(v))
  BY DEF BeginRefresh, Start
<1>2. stale \subseteq Row /\ kept \subseteq Pairs /\ n \in Nodes
  BY AlignmentAssumption DEF AlignmentTypes, Row
<1>3. \A r \in rows : r.pair \in kept \/ \E s \in stale : s.key = r.key
  OBVIOUS
<1> HIDE DEF stale, kept
<1>4. g \in Frames /\ g.at = "delete" /\ g.rows = stale /\ g.pairs = kept
  BY <1>2 DEF Frames, Stages
<1> HIDE DEF g
<1>5. task' \in [Workers -> Frames] /\ task'[w] = g /\ \A v \in Workers : v # w => task'[v] = task[v]
  BY <1>1, <1>4, FrameSteps
<1>6. AlignmentTypes'
  <2>1. crossed' \in BOOLEAN
    BY <1>1 DEF AlignmentTypes
  <2> QED BY <1>1, <1>5, <2>1 DEF AlignmentTypes
<1>7. NothingBefore'
  BY <1>1 DEF NothingBefore
<1>8. KeysUnique' /\ OneRow'
  BY <1>1 DEF KeysUnique, OneRow
<1>9. ~crossed' => ~crossed /\ \A v \in Workers : task[v].at \notin {"generate", "delete", "save"}
  BY <1>1 DEF Writing
<1>10. OneWriter'
  BY <1>5, <1>9 DEF OneWriter, Writing
<1>11. Accounted'
  BY <1>1, <1>3, <1>4, <1>5, <1>9 DEF Accounted
<1> QED BY <1>6, <1>7, <1>8, <1>10, <1>11

LEMMA AlignmentJudges ==
    ASSUME AlignmentInv, NEW w \in Workers, NEW r \in task[w].rows, NEW verdict \in Verdicts,
           Adjudicate(w, r, verdict)
    PROVE  AlignmentInv'
<1> USE DEF AlignmentInv
<1>0. task[w] \in Frames /\ task[w].at = "judge" /\ r \in Row
  BY DEF Adjudicate, At_, AlignmentTypes, Frames
<1>1. PICK kind \in AlignmentKinds : kind = Refined(r, verdict)
  BY <1>0 DEF Refined, AlignmentKinds, Row
<1> DEFINE f == [c \in rows |-> IF c.key = r.key THEN [c EXCEPT !.kind = kind] ELSE c]
           g == [task[w] EXCEPT !.rows = task[w].rows \ {r}]
<1>2. /\ rows' = {f[c] : c \in rows} /\ UNCHANGED <<score, alive, session, made, masters, crossed>>
      /\ task' = [task EXCEPT ![w] = IF task[w].rows = {r} THEN Idle ELSE g]
  <2>1. /\ rows' = {IF c.key = r.key THEN [c EXCEPT !.kind = Refined(r, verdict)] ELSE c : c \in rows}
        /\ UNCHANGED <<score, alive, session, made, masters, crossed>>
    BY DEF Adjudicate
  <2>3. task' = [task EXCEPT ![w] = IF task[w].rows = {r} THEN Idle ELSE g]
    BY DEF Adjudicate
  <2>2. rows' = {IF c.key = r.key THEN [c EXCEPT !.kind = kind] ELSE c : c \in rows}
    BY <1>1, <2>1
  <2> QED BY <2>1, <2>2, <2>3
<1>3. g \in Frames /\ g.at = "judge"
  BY <1>0 DEF Frames, Stages
<1>4. \A c \in rows : f[c] \in Row /\ f[c].key = c.key /\ f[c].pair = c.pair
  <2> SUFFICES ASSUME NEW c \in rows
               PROVE  f[c] \in Row /\ f[c].key = c.key /\ f[c].pair = c.pair
    OBVIOUS
  <2>1. c \in Row
    BY DEF AlignmentTypes
  <2> QED BY <2>1 DEF Row
<1>5. f \in [rows -> Row]
  BY <1>4
<1>6. IsFiniteSet(rows')
  <2>1. f \in Surjection(rows, rows')
    BY <1>2, <1>5 DEF Surjection
  <2> QED BY <2>1, FS_Surjection DEF AlignmentTypes
<1> HIDE DEF f, g
<1>7. PICK h \in Frames : h.at \in {"idle", "judge"} /\ task' = [task EXCEPT ![w] = h]
  BY <1>2, <1>3, FrameSteps
<1>8. task' \in [Workers -> Frames] /\ task'[w] = h /\ \A v \in Workers : v # w => task'[v] = task[v]
  BY <1>7, FrameSteps
<1>9. AlignmentTypes'
  <2>1. rows' \subseteq Row
    BY <1>2, <1>4
  <2> QED BY <1>2, <1>6, <1>8, <2>1 DEF AlignmentTypes
<1>10. CASE rows = {}
  <2>1. UNCHANGED <<rows, made, crossed>>
    BY <1>2, <1>10
  <2>2. session # "none" /\ session' # "none"
    BY <1>0, <1>2, FrameSteps DEF NothingBefore
  <2> QED BY <1>7, <1>8, <1>9, <2>1, <2>2, QuietStep
<1>11. CASE rows # {}
  <2>1. \A v \in Workers : task'[v].at \in {"generate", "delete", "save"} => task'[v] = task[v]
    BY <1>7, <1>8
  <2> QED BY <1>2, <1>4, <1>5, <1>9, <1>11, <2>1, RewriteStep
<1> QED BY <1>10, <1>11

LEMMA AlignmentDecides ==
    ASSUME AlignmentInv, NEW r \in rows, NEW status \in {"accepted", "rejected"}, Decide(r, status)
    PROVE  AlignmentInv'
<1> USE DEF AlignmentInv
<1> DEFINE g == [r EXCEPT !.status = status]
           f == [c \in rows |-> IF c = r THEN g ELSE c]
<1>0. r \in Row
  BY DEF AlignmentTypes
<1>1. g \in Row /\ g.key = r.key /\ g.pair = r.pair
  BY <1>0 DEF Row
<1>2. rows' = (rows \ {r}) \cup {g} /\ UNCHANGED <<score, alive, session, made, masters, task, crossed>>
  BY DEF Decide
<1> HIDE DEF g
<1>3. f \in [rows -> Row] /\ rows' = {f[c] : c \in rows}
  BY <1>1, <1>2 DEF AlignmentTypes
<1>4. \A c \in rows : f[c].key = c.key /\ f[c].pair = c.pair
  BY <1>1
<1>5. IsFiniteSet(rows')
  <2>1. f \in Surjection(rows, rows')
    BY <1>3 DEF Surjection
  <2> QED BY <2>1, FS_Surjection DEF AlignmentTypes
<1> HIDE DEF f
<1>6. AlignmentTypes'
  <2>1. rows' \subseteq Row
    BY <1>1, <1>2 DEF AlignmentTypes
  <2> QED BY <1>2, <1>5, <2>1 DEF AlignmentTypes
<1> QED BY <1>2, <1>3, <1>4, <1>6, RewriteStep

-----------------------------------------------------------------------------
(* The repair.                                                              *)

\* One removal after the other from a finite set: every step looks at a
\* smaller one, so the function the code computes exists.
LEMMA RepairDefined ==
    ASSUME NEW accepted, IsFiniteSet(accepted)
    PROVE  \E kept : kept = [s \in SUBSET accepted |->
                IF Conflicts(s) = {} THEN {s} ELSE UNION {kept[s \ {v}] : v \in Victims(s)}]
<1> DEFINE Upto(n) == {s \in SUBSET accepted : Cardinality(s) < n}
           step(s, f) == IF Conflicts(s) = {} THEN {s} ELSE UNION {f[s \ {v}] : v \in Victims(s)}
           Computes(f, n) == f = [s \in Upto(n) |-> step(s, f)]
           Undefined == {n \in Nat : \A f : ~Computes(f, n)}
<1>1. \A s \in SUBSET accepted : IsFiniteSet(s) /\ Cardinality(s) \in Nat
                                /\ Cardinality(s) < Cardinality(accepted) + 1
  BY FS_Subset, FS_CardinalityType
<1>2. ASSUME NEW n \in Nat, NEW s \in Upto(n + 1), NEW v \in Victims(s)
      PROVE  s \ {v} \in Upto(n)
  <2>1. v \in s
    BY DEF Victims, ShortestPaths
  <2>2. IsFiniteSet(s)
    BY <1>1
  <2>3. Cardinality(s \ {v}) = Cardinality(s) - 1
    BY <2>1, <2>2, FS_RemoveElement
  <2> QED BY <1>1, <2>3
<1>3. Upto(0) = {} /\ Upto(Cardinality(accepted) + 1) = SUBSET accepted
  BY <1>1
<1>4. \A n \in Nat : Upto(n) \subseteq Upto(n + 1)
  BY <1>1
<1>5. ASSUME NEW s, NEW f, NEW g, \A v \in Victims(s) : f[s \ {v}] = g[s \ {v}]
      PROVE  step(s, f) = step(s, g)
  <2>1. {f[s \ {v}] : v \in Victims(s)} = {g[s \ {v}] : v \in Victims(s)}
    BY <1>5
  <2> QED BY <2>1
<1> HIDE DEF Upto, step
<1>6. \E f : Computes(f, 0)
  <2>1. Computes([s \in Upto(0) |-> {}], 0)
    BY <1>3
  <2> QED BY <2>1
<1>7. ASSUME NEW n \in Nat, NEW f, Computes(f, n)
      PROVE  \E g : Computes(g, n + 1)
  <2> DEFINE g == [s \in Upto(n + 1) |-> step(s, f)]
  <2>1. \A s \in Upto(n) : g[s] = f[s]
    BY <1>4, <1>7
  <2>2. \A s \in Upto(n + 1) : g[s] = step(s, f)
    OBVIOUS
  <2>3. g = [s \in Upto(n + 1) |-> g[s]]
    OBVIOUS
  <2> HIDE DEF g
  <2>4. \A s \in Upto(n + 1) : step(s, f) = step(s, g)
    BY <1>2, <1>5, <2>1
  <2>5. Computes(g, n + 1)
    BY <2>2, <2>3, <2>4
  <2> QED BY <2>5
<1> HIDE DEF Computes
<1>8. Undefined = {}
  <2> SUFFICES ASSUME Undefined # {} PROVE FALSE
    OBVIOUS
  <2>1. PICK n \in Undefined : \A m \in Undefined : ~(<<m, n>> \in OpToRel(<, Nat))
    BY NatLessThanWellFounded, WFMin, Undefined \subseteq Nat
  <2>2. n \in Nat /\ n # 0 /\ \A f : ~Computes(f, n)
    BY <1>6
  <2>3. PICK m \in Nat : n = m + 1
    BY <2>2
  <2>4. <<m, n>> \in OpToRel(<, Nat)
    BY <2>2, <2>3 DEF OpToRel
  <2>5. PICK f : Computes(f, m)
    BY <2>1, <2>4
  <2> QED BY <1>7, <2>2, <2>3, <2>5
<1>9. PICK m \in Nat : m = Cardinality(accepted) + 1
  BY <1>1
<1>10. PICK f : Computes(f, m)
  BY <1>8
<1>11. f = [s \in SUBSET accepted |-> step(s, f)]
  BY <1>3, <1>9, <1>10 DEF Computes
<1> QED BY <1>11 DEF step

\* What repair_correspondences keeps is conflict-free, and part of what was accepted.
LEMMA RepairConverges ==
    ASSUME NEW accepted, IsFiniteSet(accepted)
    PROVE  \A kept \in Repaired(accepted) : kept \subseteq accepted /\ Conflicts(kept) = {}
<1> DEFINE kept == CHOOSE f : f = [s \in SUBSET accepted |->
                IF Conflicts(s) = {} THEN {s} ELSE UNION {f[s \ {v}] : v \in Victims(s)}]
           Sound(s) == \A t \in kept[s] : t \subseteq accepted /\ Conflicts(t) = {}
           Unsound == {s \in SUBSET accepted : ~Sound(s)}
<1>1. kept = [s \in SUBSET accepted |->
                IF Conflicts(s) = {} THEN {s} ELSE UNION {kept[s \ {v}] : v \in Victims(s)}]
  BY RepairDefined
<1>2. Repaired(accepted) = kept[accepted]
  BY DEF Repaired
<1> HIDE DEF kept
<1>3. ASSUME NEW s \in SUBSET accepted, Conflicts(s) = {}
      PROVE  Sound(s)
  <2>1. kept[s] = {s}
    BY <1>1, <1>3
  <2> QED BY <1>3, <2>1
<1>4. ASSUME NEW s \in SUBSET accepted, \A v \in Victims(s) : Sound(s \ {v})
      PROVE  Sound(s)
  <2>1. CASE Conflicts(s) # {}
    <3>1. kept[s] = UNION {kept[s \ {v}] : v \in Victims(s)}
      BY <1>1, <2>1
    <3> QED BY <1>4, <3>1
  <2> QED BY <1>3, <2>1
<1> HIDE DEF Sound
<1>5. Unsound = {}
  <2> SUFFICES ASSUME Unsound # {} PROVE FALSE
    OBVIOUS
  <2>1. Unsound \subseteq FiniteSubsetsOf(accepted)
    BY FS_FiniteSubsetsOfFinite
  <2>2. PICK s \in Unsound : \A t \in Unsound : ~(<<t, s>> \in StrictSubsetOrdering(accepted))
    BY <2>1, FS_StrictSubsetOrderingWellFounded, WFMin
  <2>3. \A v \in Victims(s) : s \ {v} \in SUBSET accepted /\ s \ {v} # s
    BY DEF Victims, ShortestPaths
  <2>4. \A v \in Victims(s) : <<s \ {v}, s>> \in StrictSubsetOrdering(accepted)
    BY <2>3 DEF StrictSubsetOrdering
  <2>5. \A v \in Victims(s) : Sound(s \ {v})
    BY <2>2, <2>3, <2>4
  <2> QED BY <1>4, <2>5
<1>6. Sound(accepted)
  BY <1>5
<1> QED BY <1>2, <1>6 DEF Sound

\* Conflict-free clusters put no two disjoint classes in one.
LEMMA ConflictFree ==
    ASSUME NEW along, Conflicts(along) = {}
    PROVE  \A cluster \in Clusters(along), d \in Disjoint : ~(d \subseteq cluster)
BY DEF Conflicts

\* What a master may be built from, where the repair is switched on.
MasterFree(along) == AlignmentRepairEnabled => Conflicts(along) = {}

\* The steps of a materialization, and what begins a task that writes no row.
LEMMA AlignmentBegins ==
    ASSUME AlignmentInv, NEW w \in Workers, BeginAdjudicate(w) \/ BeginMaterialize(w)
    PROVE  /\ AlignmentInv' /\ UNCHANGED masters
           /\ \E g \in Frames : /\ task' = [task EXCEPT ![w] = g]
                                /\ g.at = "judge" \/ (g.at = "register" /\ MasterFree(g.rows))
<1> USE DEF AlignmentInv
<1>1. PICK g \in Frames : /\ task' = [task EXCEPT ![w] = g]
                          /\ g.at = "judge" \/ (g.at = "register" /\ MasterFree(g.rows))
  <2>1. CASE BeginAdjudicate(w)
    <3> DEFINE h == [Idle EXCEPT !.at = "judge", !.rows = {r \in rows : r.status = "candidate"}]
    <3>1. task' = [task EXCEPT ![w] = h]
      BY <2>1 DEF BeginAdjudicate, Start
    <3>2. h \in Frames /\ h.at = "judge"
      BY DEF Idle, Frames, Stages, AlignmentTypes
    <3> HIDE DEF h
    <3> QED BY <3>1, <3>2
  <2>2. CASE BeginMaterialize(w)
    <3> DEFINE accepted == {r \in rows : r.status = "accepted"}
               h(kept) == [Idle EXCEPT !.at = "register", !.rows = kept]
    <3>1. PICK kept \in IF AlignmentRepairEnabled THEN Repaired(accepted) ELSE {accepted} :
               task' = [task EXCEPT ![w] = h(kept)]
      BY <2>2 DEF BeginMaterialize, Start
    <3>2. IsFiniteSet(accepted)
      BY FS_Subset DEF AlignmentTypes
    <3>3. kept \subseteq Row /\ MasterFree(kept)
      BY <3>1, <3>2, RepairConverges DEF AlignmentTypes, MasterFree
    <3>4. h(kept) \in Frames /\ h(kept).at = "register" /\ h(kept).rows = kept
      BY <3>3 DEF Idle, Frames, Stages
    <3> HIDE DEF h
    <3> QED BY <3>1, <3>3, <3>4
  <2> QED BY <2>1, <2>2
<1>2. session # "none" /\ UNCHANGED <<score, alive, session, rows, made, masters, crossed>>
  BY DEF BeginAdjudicate, BeginMaterialize
<1>3. task' \in [Workers -> Frames] /\ task'[w] = g /\ \A v \in Workers : v # w => task'[v] = task[v]
  BY <1>1, FrameSteps
<1>4. AlignmentTypes'
  BY <1>2, <1>3 DEF AlignmentTypes
<1>5. AlignmentInv'
  <2>1. \A v \in Workers : task'[v].at \in {"generate", "delete", "save"} => task'[v] = task[v]
    BY <1>1, <1>3
  <2> QED BY <1>2, <1>4, <2>1, QuietStep
<1> QED BY <1>1, <1>2, <1>5

\* A master that is being built is fed from conflict-free correspondences.
MastersFed ==
    \A w \in Workers :
        /\ task[w].at \in {"register", "classes"} => MasterFree(task[w].rows)
        /\ task[w].at = "classes" => task[w].keys \subseteq 1..Len(masters)

AlignmentFullInv == AlignmentInv /\ MastersFed /\ MasterCoherent

LEMMA MaterializationSteps ==
    ASSUME AlignmentFullInv, NEW w \in Workers,
           RegisterMaster(w) \/ CreateMasterClass(w) \/ SetSessionMaster(w)
    PROVE  AlignmentFullInv'
<1> USE DEF AlignmentFullInv, AlignmentInv
<1>0. task[w] \in Frames /\ UNCHANGED <<score, alive, rows, made, crossed>>
  BY DEF AlignmentTypes, RegisterMaster, CreateMasterClass, SetSessionMaster
<1>1. session # "none"
  <2>1. task[w].at \in {"register", "classes"}
    BY DEF RegisterMaster, CreateMasterClass, SetSessionMaster, At_
  <2> QED BY <2>1, FrameSteps DEF NothingBefore
<1>2. CASE RegisterMaster(w)
  <2>0. PICK last \in Nat : last = Len(masters) + 1
    BY DEF AlignmentTypes
  <2> DEFINE g == [task[w] EXCEPT !.at = "classes", !.keys = {last}]
  <2>1. /\ task[w].at = "register" /\ masters' = Append(masters, {}) /\ UNCHANGED session
        /\ task' = [task EXCEPT ![w] = g]
    BY <1>2, <2>0 DEF RegisterMaster, At_
  <2>2. /\ masters' \in Seq(SUBSET AllClusters) /\ Len(masters') = Len(masters) + 1 /\ Len(masters) \in Nat
        /\ masters'[Len(masters) + 1] = {} /\ \A k \in 1..Len(masters) : masters'[k] = masters[k]
    BY <2>1 DEF AlignmentTypes
  <2>3. g \in Frames /\ g.at = "classes" /\ g.rows = task[w].rows /\ g.keys = {last}
    BY <1>0 DEF Frames, Stages
  <2> HIDE DEF g
  <2>4. task' \in [Workers -> Frames] /\ task'[w] = g /\ \A v \in Workers : v # w => task'[v] = task[v]
    BY <2>1, <2>3, FrameSteps
  <2>5. AlignmentTypes'
    BY <1>0, <2>2, <2>4 DEF AlignmentTypes
  <2>6. AlignmentInv'
    BY <1>0, <1>1, <2>1, <2>3, <2>4, <2>5, QuietStep
  <2>7. last \in 1..Len(masters') /\ 1..Len(masters) \subseteq 1..Len(masters')
    BY <2>0, <2>2
  <2>9. MastersFed'
    BY <2>1, <2>3, <2>4, <2>7 DEF MastersFed
  <2>8. MasterCoherent'
    BY <2>2 DEF MasterCoherent
  <2> QED BY <2>6, <2>8, <2>9
<1>3. CASE CreateMasterClass(w)
  <2>1. PICK k \in task[w].keys, cluster \in Clusters(task[w].rows) :
            masters' = [masters EXCEPT ![k] = masters[k] \cup {cluster}]
    BY <1>3 DEF CreateMasterClass
  <2>2. task[w].at = "classes" /\ UNCHANGED <<task, session>>
    BY <1>3 DEF CreateMasterClass, At_
  <2>3. k \in 1..Len(masters) /\ MasterFree(task[w].rows) /\ cluster \in AllClusters
    BY <1>0, <2>1, <2>2 DEF MastersFed, AllClusters, Frames
  <2>4. masters' \in Seq(SUBSET AllClusters) /\ Len(masters') = Len(masters)
        /\ masters'[k] = masters[k] \cup {cluster}
        /\ \A j \in 1..Len(masters) : j # k => masters'[j] = masters[j]
    BY <2>1, <2>3 DEF AlignmentTypes
  <2>5. AlignmentTypes'
    BY <1>0, <2>2, <2>4 DEF AlignmentTypes
  <2>6. AlignmentInv'
    BY <1>0, <1>1, <2>2, <2>5, QuietStep
  <2>7. MastersFed'
    BY <2>2, <2>4 DEF MastersFed
  <2>8. AlignmentRepairEnabled => \A d \in Disjoint : ~(d \subseteq cluster)
    BY <2>1, <2>3, ConflictFree DEF MasterFree
  <2>9. MasterCoherent'
    BY <2>3, <2>4, <2>8 DEF MasterCoherent
  <2> QED BY <2>6, <2>7, <2>9
<1>4. CASE SetSessionMaster(w)
  <2>1. task' = [task EXCEPT ![w] = Idle] /\ session' = "materialized" /\ UNCHANGED masters
    BY <1>4 DEF SetSessionMaster, Done
  <2>2. task' \in [Workers -> Frames] /\ task'[w] = Idle /\ Idle.at = "idle"
        /\ \A v \in Workers : v # w => task'[v] = task[v]
    BY <2>1, FrameSteps
  <2>3. AlignmentTypes'
    BY <1>0, <2>1, <2>2 DEF AlignmentTypes
  <2>4. AlignmentInv'
    BY <1>0, <1>1, <2>1, <2>2, <2>3, QuietStep
  <2>5. MastersFed' /\ MasterCoherent'
    BY <2>1, <2>2 DEF MastersFed, MasterCoherent
  <2> QED BY <2>4, <2>5
<1> QED BY <1>2, <1>3, <1>4

LEMMA AlignmentEdits ==
    ASSUME AlignmentInv, NEW n \in Changing, EditSource(n)
    PROVE  AlignmentInv'
<1> USE DEF AlignmentInv
<1>1. UNCHANGED <<session, rows, made, masters, task, crossed>>
  BY DEF EditSource
<1>2. score' \in [Pairs -> 0..2] /\ alive' \subseteq Nodes
  BY DEF EditSource, AlignmentTypes
<1>3. AlignmentTypes'
  BY <1>1, <1>2 DEF AlignmentTypes
<1> QED BY <1>1, <1>3, QuietStep

\* A step that starts or moves no materialization.
LEMMA MastersLeft ==
    ASSUME MastersFed, MasterCoherent, UNCHANGED masters,
           \A w \in Workers : task'[w].at \in {"register", "classes"} => task'[w] = task[w]
    PROVE  MastersFed' /\ MasterCoherent'
<1>1. MastersFed'
  BY DEF MastersFed
<1>2. MasterCoherent'
  BY DEF MasterCoherent
<1> QED BY <1>1, <1>2

LEMMA AlignmentStep ==
    ASSUME AlignmentFullInv, AlignmentNext
    PROVE  AlignmentFullInv'
<1> USE DEF AlignmentFullInv
<1>0. AlignmentTypes
  BY DEF AlignmentInv
<1>1. ASSUME NEW w \in Workers, RegisterMaster(w) \/ CreateMasterClass(w) \/ SetSessionMaster(w)
      PROVE  AlignmentFullInv'
  BY <1>1, MaterializationSteps
<1>2. ASSUME NEW w \in Workers, BeginAdjudicate(w) \/ BeginMaterialize(w)
      PROVE  AlignmentFullInv'
  <2>1. AlignmentInv' /\ UNCHANGED masters
    BY <1>2, AlignmentBegins
  <2>2. PICK g \in Frames : /\ task' = [task EXCEPT ![w] = g]
                            /\ g.at = "judge" \/ (g.at = "register" /\ MasterFree(g.rows))
    BY <1>2, AlignmentBegins
  <2>3. task'[w] = g /\ \A v \in Workers : v # w => task'[v] = task[v]
    BY <1>0, <2>2, FrameSteps
  <2>4. MastersFed' /\ MasterCoherent'
    BY <2>1, <2>2, <2>3 DEF MastersFed, MasterCoherent
  <2> QED BY <2>1, <2>4
<1>3. ASSUME NEW w \in Workers,
             \/ CreateSession(w) \/ Generate(w) \/ Save(w) \/ DeleteStale(w)
             \/ \E n \in Changing : BeginRefresh(w, {n})
             \/ \E r \in task[w].rows, verdict \in Verdicts : Adjudicate(w, r, verdict)
      PROVE  AlignmentFullInv'
  <2>1. AlignmentInv'
    BY <1>3, AlignmentStarts, AlignmentGenerates, AlignmentSaves, AlignmentDeletes,
       AlignmentRefreshes, AlignmentJudges
  <2>2. UNCHANGED masters
    BY <1>3 DEF CreateSession, Generate, Save, DeleteStale, BeginRefresh, Adjudicate
  <2>3. \A v \in Workers : task'[v].at \in {"register", "classes"} => task'[v] = task[v]
    <3> SUFFICES ASSUME NEW v \in Workers, task'[v].at \in {"register", "classes"}
                 PROVE  task'[v] = task[v]
      OBVIOUS
    <3>1. task \in [Workers -> Frames] /\ task[w] \in Frames /\ Idle \in Frames /\ Idle.at = "idle"
      BY <1>0, FrameSteps DEF AlignmentTypes
    <3>2. CASE CreateSession(w)
      BY <3>1, <3>2 DEF CreateSession, Frames
    <3>3. CASE Generate(w)
      BY <3>1, <3>3 DEF Generate, Frames
    <3>4. CASE Save(w)
      BY <3>1, <3>4 DEF Save, Done
    <3>5. CASE DeleteStale(w)
      BY <3>1, <3>5 DEF DeleteStale, Then_, Frames
    <3>6. CASE \E n \in Changing : BeginRefresh(w, {n})
      BY <3>1, <3>6 DEF BeginRefresh, Start
    <3>7. ASSUME NEW r \in task[w].rows, NEW verdict \in Verdicts, Adjudicate(w, r, verdict)
          PROVE  task'[v] = task[v]
      <4> DEFINE g == [task[w] EXCEPT !.rows = task[w].rows \ {r}]
      <4>1. /\ task[w].at = "judge"
            /\ task' = [task EXCEPT ![w] = IF task[w].rows = {r} THEN Idle ELSE g]
        BY <3>7 DEF Adjudicate, At_
      <4>2. g.at = "judge"
        BY <3>1, <4>1 DEF Frames
      <4> HIDE DEF g
      <4> QED BY <3>1, <4>1, <4>2
    <3> QED BY <1>3, <3>2, <3>3, <3>4, <3>5, <3>6, <3>7
  <2> QED BY <2>1, <2>2, <2>3, MastersLeft
<1>4. ASSUME NEW r \in rows, NEW status \in {"accepted", "rejected"}, Decide(r, status)
      PROVE  AlignmentFullInv'
  <2>1. UNCHANGED <<masters, task>>
    BY <1>4 DEF Decide
  <2> QED BY <1>4, <2>1, AlignmentDecides, MastersLeft
<1>5. ASSUME NEW n \in Changing, EditSource(n)
      PROVE  AlignmentFullInv'
  <2>1. UNCHANGED <<masters, task>>
    BY <1>5 DEF EditSource
  <2> QED BY <1>5, <2>1, AlignmentEdits, MastersLeft
<1> QED BY <1>1, <1>2, <1>3, <1>4, <1>5 DEF AlignmentNext, Task

LEMMA AlignmentStutters ==
    ASSUME AlignmentFullInv, UNCHANGED alignment
    PROVE  AlignmentFullInv'
<1> USE DEF AlignmentFullInv, AlignmentInv, alignment
<1>1. AlignmentTypes'
  BY DEF AlignmentTypes
<1>2. AlignmentInv'
  BY <1>1, QuietStep
<1> QED BY <1>2, MastersLeft

LEMMA AlignmentInvariant == AlignmentSpec => []AlignmentFullInv
<1>1. AlignmentInit => AlignmentFullInv
  <2> SUFFICES ASSUME AlignmentInit PROVE MastersFed /\ MasterCoherent
    BY AlignmentTypesInit DEF AlignmentFullInv
  <2> QED BY DEF AlignmentInit, Idle, MastersFed, MasterCoherent
<1>2. AlignmentFullInv /\ [AlignmentNext]_alignment => AlignmentFullInv'
  BY AlignmentStep, AlignmentStutters
<1> QED BY <1>1, <1>2, PTL DEF AlignmentSpec

(* With the repair on, no master class stands for two disjoint ones, however *)
(* materializations, decisions and refreshes interleave and whichever of    *)
(* the equally weak correspondences each repair removes (repair_            *)
(* correspondences keeps removing one until no conflict is left).           *)
THEOREM MastersAreCoherent == AlignmentSpec => []MasterCoherent
<1>1. AlignmentFullInv => MasterCoherent
  BY DEF AlignmentFullInv
<1> QED BY <1>1, AlignmentInvariant, PTL

(* A pair has one correspondence unless two refreshes overlapped: what a    *)
(* refresh will generate is what it has deleted or what had no row          *)
(* (refresh_alignment, save_correspondences).                              *)
THEOREM PairsMatchOnce == AlignmentSpec => []OneCorrespondence
<1>1. AlignmentFullInv => OneCorrespondence
  BY DEF AlignmentFullInv, AlignmentInv, OneRow, OneCorrespondence
<1> QED BY <1>1, AlignmentInvariant, PTL

-----------------------------------------------------------------------------
(* Lexicon.                                                                 *)

DecisionRows ==
    [uri : Concepts \cup {Missing}, label : Labels, ontology : Everywhere, live : BOOLEAN, supersedes : Nat]
Todos == Seq((Concepts \cup {Missing}) \X Labels \X Everywhere)

LexiconTypes ==
    /\ \A r \in extracted : r.uri \in Concepts
    /\ labelDecisions \in Seq(DecisionRows)
    /\ curator = [c \in Curators |-> [at |-> curator[c].at, label |-> curator[c].label,
                                      known |-> curator[c].known, todo |-> curator[c].todo,
                                      prior |-> curator[c].prior]]
    /\ \A c \in Curators : /\ curator[c].at \in {"rest", "read", "expire", "insert"}
                           /\ curator[c].todo \in Todos
                           /\ Recording(c) => curator[c].todo # <<>> /\ curator[c].prior \in 0..Len(labelDecisions)

Made(u) == {i \in 1..Len(labelDecisions) : labelDecisions[i].uri = u}
Latest(u) == {i \in Made(u) : \A j \in Made(u) : j <= i}

\* Whoever is about to expire a decision has one of the concept at hand.
PriorsOwned ==
    \A c \in Curators :
        curator[c].at = "expire" /\ curator[c].prior # 0
            => labelDecisions[curator[c].prior].uri = Concept(curator[c])

\* One resolution at a time records a decision of the concept.
OneRecorder ==
    \A c, d \in Curators :
        Recording(c) /\ Recording(d) /\ Concept(curator[c]) = Concept(curator[d])
        /\ Concept(curator[c]) \notin overlapped => c = d

Inserting(c, u) == curator[c].at = "insert" /\ Concept(curator[c]) = u
Expiring(c, u) == curator[c].at = "expire" /\ Concept(curator[c]) = u

\* The last decision of a concept is live, unless it has been expired for one
\* that is still to be inserted, or was to be when its recording was broken off.
LatestLive ==
    \A u \in Concepts \cup {Missing} :
        /\ Made(u) # {} => Latest(u) # {}
        /\ Latest(u) \subseteq LiveOf(u) \/ u \in lapsed \/ \E c \in Curators : Inserting(c, u)

\* No other is live where no two were recorded at once and no expiry failed, and
\* only what is about to be expired while one is being recorded.
OneLive ==
    \A u \in (Concepts \cup {Missing}) \ (overlapped \cup unexpired) :
        /\ LiveOf(u) \subseteq Latest(u)
        /\ \A c \in Curators : Inserting(c, u) => LiveOf(u) = {}
        /\ \A c \in Curators : Expiring(c, u) => LiveOf(u) \subseteq {curator[c].prior}

LexiconInv == LexiconTypes /\ PriorsOwned /\ OneRecorder /\ LatestLive /\ OneLive

LEMMA LexiconInit_ == LexiconInit => LexiconInv
<1> SUFFICES ASSUME LexiconInit PROVE LexiconInv
  OBVIOUS
<1>1. labelDecisions = <<>> /\ curator = [c \in Curators |-> AtRest] /\ AtRest.at = "rest"
      /\ AtRest.todo = <<>>
  BY DEF LexiconInit, AtRest
<1>2. \A c \in Curators : ~Recording(c) /\ curator[c].at \notin {"expire", "insert"}
  BY <1>1 DEF Recording
<1>3. LexiconTypes
  <2>1. labelDecisions \in Seq(DecisionRows) /\ <<>> \in Todos
    BY <1>1 DEF Todos
  <2>2. curator = [c \in Curators |-> [at |-> curator[c].at, label |-> curator[c].label,
                                      known |-> curator[c].known, todo |-> curator[c].todo,
                                      prior |-> curator[c].prior]]
    BY <1>1 DEF AtRest
  <2>3. \A r \in extracted : r.uri \in Concepts
    BY DEF LexiconInit
  <2> QED BY <1>1, <1>2, <2>1, <2>2, <2>3 DEF LexiconTypes
<1>4. PriorsOwned /\ OneRecorder
  BY <1>2 DEF PriorsOwned, OneRecorder
<1>5. LatestLive /\ OneLive
  <2>1. Len(labelDecisions) = 0
    BY <1>1
  <2>2. \A u : Made(u) = {} /\ Latest(u) = {} /\ LiveOf(u) = {}
    BY <2>1 DEF Made, Latest, LiveOf
  <2> QED BY <1>2, <2>2 DEF LatestLive, OneLive
<1> QED BY <1>3, <1>4, <1>5 DEF LexiconInv

\* A step that records nothing: no decision is written and no curator starts to;
\* one that stops before the insertion leaves its concept lapsed.
LEMMA LexiconQuiet ==
    ASSUME LexiconInv, UNCHANGED <<labelDecisions, overlapped, unexpired>>, lapsed \subseteq lapsed', LexiconTypes',
           \A c \in Curators : \/ curator'[c] = curator[c]
                               \/ ~Recording(c)' /\ \A u : Inserting(c, u) => u \in lapsed'
    PROVE  LexiconInv'
<1> USE DEF LexiconInv
<1>1. \A c \in Curators : Recording(c)' => curator'[c] = curator[c] /\ Recording(c)
  BY DEF Recording
<1>2. PriorsOwned'
  BY <1>1 DEF PriorsOwned, Recording
<1>3. OneRecorder'
  BY <1>1 DEF OneRecorder
<1>4. \A u : Made(u)' = Made(u) /\ Latest(u)' = Latest(u) /\ LiveOf(u)' = LiveOf(u)
  BY DEF Made, Latest, LiveOf
<1>5. \A c \in Curators : \A u : /\ Inserting(c, u)' => Inserting(c, u)
                                 /\ Expiring(c, u)' => Expiring(c, u) /\ curator'[c] = curator[c]
                                 /\ Inserting(c, u) => Inserting(c, u)' \/ u \in lapsed'
  BY <1>1 DEF Inserting, Expiring, Recording
<1>6. LatestLive'
  BY <1>4, <1>5 DEF LatestLive
<1>7. OneLive'
  BY <1>4, <1>5 DEF OneLive
<1> QED BY <1>2, <1>3, <1>6, <1>7

LEMMA CuratorStep ==
    ASSUME LexiconTypes, NEW c \in Curators, NEW g, curator' = [curator EXCEPT ![c] = g]
    PROVE  curator'[c] = g /\ \A d \in Curators : d # c => curator'[d] = curator[d]
BY DEF LexiconTypes

\* A frame of the shape the curators have.
Shaped(g) == /\ g = [at |-> g.at, label |-> g.label, known |-> g.known, todo |-> g.todo, prior |-> g.prior]
             /\ g.at \in {"rest", "read", "expire", "insert"} /\ g.todo \in Todos

LEMMA FramesShaped ==
    ASSUME LexiconTypes, NEW c \in Curators
    PROVE  Shaped(curator[c])
<1>1. \A d \in Curators : curator[d] = [at |-> curator[d].at, label |-> curator[d].label,
          known |-> curator[d].known, todo |-> curator[d].todo, prior |-> curator[d].prior]
  BY DEF LexiconTypes
<1> QED BY <1>1 DEF LexiconTypes, Shaped

\* What a curator has in hand after each step of recording a decision.
LEMMA ReshapedFrame ==
    ASSUME NEW f, Shaped(f)
    PROVE  /\ \A prior : LET g == [f EXCEPT !.prior = prior, !.at = "expire"] IN
                  Shaped(g) /\ g.at = "expire" /\ g.prior = prior /\ g.todo = f.todo
           /\ LET g == [f EXCEPT !.at = "insert"] IN
                  Shaped(g) /\ g.at = "insert" /\ g.prior = f.prior /\ g.todo = f.todo
           /\ f.todo # <<>> => LET g == [f EXCEPT !.at = "read", !.todo = Tail(f.todo)] IN
                  Shaped(g) /\ g.at = "read"
<1>1. PICK a, l, k, t, p : f = [at |-> a, label |-> l, known |-> k, todo |-> t, prior |-> p]
  BY DEF Shaped
<1>2. f.todo = t /\ f.prior = p /\ t \in Todos
  BY <1>1 DEF Shaped
<1>3. ASSUME NEW at \in {"rest", "read", "expire", "insert"}, NEW todo \in Todos, NEW prior
      PROVE  Shaped([at |-> at, label |-> l, known |-> k, todo |-> todo, prior |-> prior])
  BY DEF Shaped
<1>4. ASSUME NEW prior, NEW g, g = [f EXCEPT !.prior = prior, !.at = "expire"]
      PROVE  g = [at |-> "expire", label |-> l, known |-> k, todo |-> t, prior |-> prior]
  BY <1>1, <1>4
<1>5. [f EXCEPT !.at = "insert"] = [at |-> "insert", label |-> l, known |-> k, todo |-> t, prior |-> p]
  BY <1>1
<1>6. ASSUME NEW todo, NEW g, g = [f EXCEPT !.at = "read", !.todo = todo]
      PROVE  g = [at |-> "read", label |-> l, known |-> k, todo |-> todo, prior |-> p]
  BY <1>1, <1>6
<1>7. f.todo # <<>> => Tail(f.todo) \in Todos
  BY <1>2 DEF Todos
<1>8. \A prior : LET g == [f EXCEPT !.prior = prior, !.at = "expire"] IN
          Shaped(g) /\ g.at = "expire" /\ g.prior = prior /\ g.todo = f.todo
  <2> SUFFICES ASSUME NEW prior, NEW g, g = [f EXCEPT !.prior = prior, !.at = "expire"]
               PROVE  Shaped(g) /\ g.at = "expire" /\ g.prior = prior /\ g.todo = f.todo
    OBVIOUS
  <2>1. g = [at |-> "expire", label |-> l, known |-> k, todo |-> t, prior |-> prior]
    BY <1>4
  <2>2. Shaped([at |-> "expire", label |-> l, known |-> k, todo |-> t, prior |-> prior])
    BY <1>2, <1>3
  <2>3. g.at = "expire" /\ g.prior = prior /\ g.todo = f.todo
    BY <1>2, <2>1
  <2> QED BY <2>1, <2>2, <2>3
<1>9. LET g == [f EXCEPT !.at = "insert"] IN
          Shaped(g) /\ g.at = "insert" /\ g.prior = f.prior /\ g.todo = f.todo
  BY <1>2, <1>3, <1>5
<1>10. f.todo # <<>> => LET g == [f EXCEPT !.at = "read", !.todo = Tail(f.todo)] IN
          Shaped(g) /\ g.at = "read"
  <2> SUFFICES ASSUME f.todo # <<>>, NEW todo, todo = Tail(f.todo),
                      NEW g, g = [f EXCEPT !.at = "read", !.todo = todo]
               PROVE  Shaped(g) /\ g.at = "read"
    OBVIOUS
  <2>1. g = [at |-> "read", label |-> l, known |-> k, todo |-> todo, prior |-> p]
    BY <1>6
  <2>2. Shaped([at |-> "read", label |-> l, known |-> k, todo |-> todo, prior |-> p])
    BY <1>3, <1>7
  <2>3. g.at = "read"
    BY <2>1
  <2> QED BY <2>1, <2>2, <2>3
<1> QED BY <1>8, <1>9, <1>10

LEMMA CuratorTypes ==
    ASSUME LexiconTypes, NEW c \in Curators, NEW g, curator' = [curator EXCEPT ![c] = g], Shaped(g),
           UNCHANGED extracted, labelDecisions' \in Seq(DecisionRows), Len(labelDecisions) <= Len(labelDecisions'),
           g.at \in {"expire", "insert"} => g.todo # <<>> /\ g.prior \in 0..Len(labelDecisions')
    PROVE  LexiconTypes'
<1>1. curator'[c] = g /\ \A d \in Curators : d # c => curator'[d] = curator[d]
  BY CuratorStep
<1>2. \A d \in Curators : curator'[d] =
          [at |-> curator'[d].at, label |-> curator'[d].label, known |-> curator'[d].known,
           todo |-> curator'[d].todo, prior |-> curator'[d].prior]
  BY <1>1 DEF LexiconTypes, Shaped
<1>3. curator' = [d \in Curators |-> curator'[d]]
  BY DEF LexiconTypes
<1>4. curator' = [d \in Curators |->
          [at |-> curator'[d].at, label |-> curator'[d].label, known |-> curator'[d].known,
           todo |-> curator'[d].todo, prior |-> curator'[d].prior]]
  BY <1>2, <1>3
<1>5. Len(labelDecisions) \in Nat /\ Len(labelDecisions') \in Nat
  BY DEF LexiconTypes
<1>6. \A d \in Curators : /\ curator'[d].at \in {"rest", "read", "expire", "insert"}
                          /\ curator'[d].todo \in Todos
                          /\ Recording(d)' => curator'[d].todo # <<>> /\ curator'[d].prior \in 0..Len(labelDecisions')
  BY <1>1, <1>5 DEF LexiconTypes, Shaped, Recording
<1> QED BY <1>4, <1>6 DEF LexiconTypes

LEMMA LexiconReads ==
    ASSUME LexiconInv, NEW c \in Curators, ReadPrior(c)
    PROVE  LexiconInv'
<1> USE DEF LexiconInv
<1>0. PICK u : u = Concept(curator[c])
  OBVIOUS
<1>1. /\ curator[c].at = "read" /\ curator[c].todo # <<>>
      /\ UNCHANGED <<extracted, queue, labelDecisions, unexpired, lapsed>>
      /\ ~Recording(c)
  BY DEF ReadPrior, Recording
<1>2. Shaped(curator[c]) /\ Shaped(AtRest)
  <2>1. <<>> \in Todos
    BY DEF Todos
  <2>2. Shaped(AtRest)
    BY <2>1 DEF Shaped, AtRest
  <2> QED BY <2>2, FramesShaped
<1>3. labelDecisions \in Seq(DecisionRows) /\ Len(labelDecisions) \in Nat
  BY DEF LexiconTypes
<1>4. CASE u \notin curator[c].known
  <2>1. curator' = [curator EXCEPT ![c] = AtRest] /\ UNCHANGED overlapped
    BY <1>0, <1>4 DEF ReadPrior
  <2>2. AtRest.at = "rest"
    BY DEF AtRest
  <2>3. LexiconTypes'
    <3>1. UNCHANGED extracted /\ labelDecisions' \in Seq(DecisionRows)
          /\ Len(labelDecisions) <= Len(labelDecisions')
      BY <1>1, <1>3
    <3> QED BY <1>2, <2>1, <2>2, <3>1, CuratorTypes, Zenon
  <2>4. curator'[c] = AtRest /\ \A d \in Curators : d # c => curator'[d] = curator[d]
    BY <2>1, CuratorStep
  <2>5. ~Recording(c)' /\ \A v : ~Inserting(c, v)
    BY <1>1, <2>2, <2>4 DEF Recording, Inserting
  <2> QED BY <1>1, <2>1, <2>3, <2>4, <2>5, LexiconQuiet
<1>5. CASE u \in curator[c].known
  <2>1. PICK prior \in IF LiveOf(u) = {} THEN {0} ELSE LiveOf(u) :
            /\ curator' = [curator EXCEPT ![c].prior = prior, ![c].at = "expire"]
            /\ overlapped' = overlapped \cup
                      {v \in {u} : \E d \in Curators \ {c} : Recording(d) /\ Concept(curator[d]) = v}
    BY <1>0, <1>5 DEF ReadPrior
  <2> DEFINE g == [curator[c] EXCEPT !.prior = prior, !.at = "expire"]
  <2>2. curator' = [curator EXCEPT ![c] = g]
    BY <2>1 DEF LexiconTypes
  <2>g. g = [curator[c] EXCEPT !.prior = prior, !.at = "expire"]
    OBVIOUS
  <2> HIDE DEF g
  <2>3. Shaped(g) /\ g.at = "expire" /\ g.prior = prior /\ g.todo = curator[c].todo
    <3>1. \A p : LET h == [curator[c] EXCEPT !.prior = p, !.at = "expire"] IN
              Shaped(h) /\ h.at = "expire" /\ h.prior = p /\ h.todo = curator[c].todo
      BY <1>2, ReshapedFrame
    <3> QED BY <2>g, <3>1
  <2>4. prior \in 0..Len(labelDecisions)
    BY <1>3, <2>1 DEF LiveOf
  <2>5. LexiconTypes'
    <3>1. UNCHANGED extracted /\ labelDecisions' \in Seq(DecisionRows)
          /\ Len(labelDecisions) <= Len(labelDecisions')
      BY <1>1, <1>3
    <3>2. g.todo # <<>> /\ g.prior \in 0..Len(labelDecisions')
      BY <1>1, <2>3, <2>4
    <3> QED BY <2>2, <2>3, <3>1, <3>2, CuratorTypes, Zenon
  <2>6. curator'[c] = g /\ \A d \in Curators : d # c => curator'[d] = curator[d]
    BY <2>2, CuratorStep
  <2>7. Concept(g) = u
    BY <1>0, <2>3 DEF Concept
  <2>8. PriorsOwned'
    <3>1. prior # 0 => labelDecisions[prior].uri = u
      BY <2>1 DEF LiveOf
    <3> QED BY <1>1, <2>3, <2>6, <2>7, <3>1 DEF PriorsOwned
  <2>9. \A d \in Curators : d # c /\ Recording(d) /\ Concept(curator[d]) = u => u \in overlapped'
    BY <2>1
  <2>10. overlapped \subseteq overlapped' /\ \A v \in overlapped' : v \in overlapped \/ v = u
    BY <2>1
  <2>11. \A d \in Curators : d # c => (Recording(d)' <=> Recording(d)) /\ Concept(curator'[d]) = Concept(curator[d])
    BY <2>6 DEF Recording
  <2>12. OneRecorder'
    BY <2>6, <2>7, <2>9, <2>10, <2>11 DEF OneRecorder
  <2>13. \A v : Made(v)' = Made(v) /\ Latest(v)' = Latest(v) /\ LiveOf(v)' = LiveOf(v)
    BY <1>1 DEF Made, Latest, LiveOf
  <2>14. ASSUME u \in Concepts \cup {Missing}, u \notin overlapped \cup unexpired PROVE LiveOf(u) \subseteq {prior}
    <3>1. LiveOf(u) \subseteq Latest(u)
      BY <2>14 DEF OneLive
    <3>2. \A i, j \in Latest(u) : i \in Nat /\ i <= j /\ j <= i
      BY <1>3 DEF Latest, Made
    <3>3. \A i, j \in Latest(u) : i = j
      BY <3>2
    <3> QED BY <2>1, <3>1, <3>3
  <2>15. \A d \in Curators : \A v : /\ Inserting(d, v)' <=> Inserting(d, v)
                                    /\ Expiring(d, v)' => \/ Expiring(d, v) /\ curator'[d] = curator[d]
                                                          \/ v = u /\ curator'[d].prior = prior
    BY <1>1, <2>3, <2>6, <2>7 DEF Inserting, Expiring
  <2>16. LatestLive'
    BY <1>1, <2>13, <2>15 DEF LatestLive
  <2>17. OneLive'
    BY <1>1, <2>10, <2>13, <2>14, <2>15 DEF OneLive
  <2> QED BY <2>5, <2>8, <2>12, <2>16, <2>17
<1> QED BY <1>4, <1>5

LEMMA LexiconExpires ==
    ASSUME LexiconInv, NEW c \in Curators, ExpirePrior(c)
    PROVE  LexiconInv'
<1> USE DEF LexiconInv
<1> DEFINE g == [curator[c] EXCEPT !.at = "insert"]
<1>0. PICK u, prior : u = Concept(curator[c]) /\ prior = curator[c].prior
  OBVIOUS
<1>1. /\ curator[c].at = "expire" /\ Recording(c) /\ UNCHANGED <<extracted, queue, overlapped, lapsed>>
      /\ curator' = [curator EXCEPT ![c] = g]
      /\ \/ /\ labelDecisions' = IF prior = 0 THEN labelDecisions ELSE [labelDecisions EXCEPT ![prior].live = FALSE]
            /\ unexpired' = unexpired
         \/ labelDecisions' = labelDecisions /\ unexpired' = unexpired \cup {u}
  BY <1>0 DEF ExpirePrior, Recording
<1>2. /\ Shaped(curator[c]) /\ labelDecisions \in Seq(DecisionRows) /\ Len(labelDecisions) \in Nat
      /\ prior \in 0..Len(labelDecisions) /\ curator[c].todo # <<>>
  BY <1>0, <1>1 DEF LexiconTypes, Shaped
<1>g. g = [curator[c] EXCEPT !.at = "insert"]
  OBVIOUS
<1> HIDE DEF g
<1>3. Shaped(g) /\ g.at = "insert" /\ g.prior = prior /\ g.todo = curator[c].todo
  BY <1>0, <1>2, <1>g, ReshapedFrame
<1>4. /\ labelDecisions' \in Seq(DecisionRows) /\ Len(labelDecisions') = Len(labelDecisions)
      /\ \A i \in 1..Len(labelDecisions) :
            /\ labelDecisions'[i].uri = labelDecisions[i].uri
            /\ labelDecisions'[i].live => labelDecisions[i].live
            /\ i # prior => (labelDecisions'[i].live <=> labelDecisions[i].live)
      /\ prior # 0 => ~labelDecisions'[prior].live \/ unexpired' = unexpired \cup {u}
  <2>1. CASE prior = 0
    BY <1>1, <1>2, <2>1
  <2>3. CASE labelDecisions' = labelDecisions /\ unexpired' = unexpired \cup {u}
    BY <1>2, <2>3
  <2>2. CASE prior # 0 /\ labelDecisions' = [labelDecisions EXCEPT ![prior].live = FALSE]
    <3> DEFINE d == [labelDecisions[prior] EXCEPT !.live = FALSE]
    <3>1. prior \in 1..Len(labelDecisions) /\ labelDecisions[prior] \in DecisionRows
      BY <1>2, <2>2
    <3>2. d \in DecisionRows /\ d.uri = labelDecisions[prior].uri /\ d.live = FALSE
      BY <3>1 DEF DecisionRows
    <3>3. labelDecisions' = [labelDecisions EXCEPT ![prior] = d]
      BY <1>1, <2>2
    <3> HIDE DEF d
    <3> QED BY <1>2, <3>1, <3>2, <3>3
  <2> QED BY <1>1, <2>1, <2>2, <2>3
<1>5. LexiconTypes'
  <2>1. UNCHANGED extracted /\ Len(labelDecisions) <= Len(labelDecisions')
    BY <1>1, <1>2, <1>4
  <2>2. g.todo # <<>> /\ g.prior \in 0..Len(labelDecisions')
    BY <1>2, <1>3, <1>4
  <2> QED BY <1>1, <1>3, <1>4, <2>1, <2>2, CuratorTypes, Zenon
<1>6. curator'[c] = g /\ Concept(g) = u /\ \A d \in Curators : d # c => curator'[d] = curator[d]
  BY <1>0, <1>1, <1>3, CuratorStep DEF Concept
<1>7. PriorsOwned'
  <2>1. \A d \in Curators : curator'[d].at = "expire" => d # c /\ curator'[d] = curator[d]
    BY <1>3, <1>6
  <2>2. \A d \in Curators : curator[d].at = "expire" => curator[d].prior \in 0..Len(labelDecisions)
    BY DEF LexiconTypes, Recording
  <2> QED BY <1>2, <1>4, <2>1, <2>2 DEF PriorsOwned
<1>8. \A d \in Curators : (Recording(d)' <=> Recording(d)) /\ Concept(curator'[d]) = Concept(curator[d])
  BY <1>0, <1>1, <1>3, <1>6 DEF Recording
<1>9. OneRecorder'
  BY <1>1, <1>8 DEF OneRecorder
<1>10. \A v : Made(v)' = Made(v) /\ Latest(v)' = Latest(v)
  BY <1>4 DEF Made, Latest
<1>11. \A v : LiveOf(v)' \subseteq LiveOf(v) /\ LiveOf(v) \ {prior} \subseteq LiveOf(v)'
  BY <1>4 DEF LiveOf
<1>12. prior # 0 => labelDecisions[prior].uri = u
  BY <1>0, <1>1 DEF PriorsOwned
<1>13. \A v : v # u => LiveOf(v)' = LiveOf(v)
  <2> SUFFICES ASSUME NEW v, v # u PROVE prior \notin LiveOf(v)
    BY <1>11
  <2> QED BY <1>2, <1>12 DEF LiveOf
<1>14. u \notin unexpired' => prior \notin LiveOf(u)'
  BY <1>2, <1>4 DEF LiveOf
<1>15. unexpired \subseteq unexpired' /\ unexpired' \subseteq unexpired \cup {u}
  BY <1>1
<1>16. \A d \in Curators : \A v : /\ Inserting(d, v)' => Inserting(d, v) \/ v = u
                                  /\ Inserting(d, v) => Inserting(d, v)'
                                  /\ Expiring(d, v)' => Expiring(d, v) /\ curator'[d] = curator[d]
  BY <1>1, <1>3, <1>6 DEF Inserting, Expiring
<1>17. Inserting(c, u)'
  BY <1>3, <1>6 DEF Inserting
<1>18. LatestLive'
  BY <1>1, <1>10, <1>13, <1>16, <1>17 DEF LatestLive
<1>19. OneLive'
  <2> SUFFICES ASSUME NEW v \in Concepts \cup {Missing}, v \notin overlapped \cup unexpired'
               PROVE  /\ LiveOf(v)' \subseteq Latest(v)'
                      /\ \A d \in Curators : Inserting(d, v)' => LiveOf(v)' = {}
                      /\ \A d \in Curators : Expiring(d, v)' => LiveOf(v)' \subseteq {curator'[d].prior}
    BY <1>1 DEF OneLive
  <2>1. v \notin overlapped \cup unexpired
    BY <1>15
  <2>2. LiveOf(v)' \subseteq Latest(v)'
    BY <1>10, <1>11, <2>1 DEF OneLive
  <2>3. v = u => LiveOf(v)' = {}
    <3>1. LiveOf(v) \subseteq {prior} \/ v # u
      BY <1>0, <1>1, <2>1 DEF OneLive, Expiring
    <3> QED BY <1>11, <1>14, <3>1
  <2>4. \A d \in Curators : Inserting(d, v)' => LiveOf(v)' = {}
    BY <1>11, <1>16, <2>1, <2>3 DEF OneLive
  <2>5. \A d \in Curators : Expiring(d, v)' => LiveOf(v)' \subseteq {curator'[d].prior}
    BY <1>11, <1>16, <2>1 DEF OneLive
  <2> QED BY <2>2, <2>4, <2>5
<1> QED BY <1>5, <1>7, <1>9, <1>18, <1>19

LEMMA LexiconInserts ==
    ASSUME LexiconInv, NEW c \in Curators, InsertDecision(c)
    PROVE  LexiconInv'
<1> USE DEF LexiconInv
<1> DEFINE g == [curator[c] EXCEPT !.at = "read", !.todo = Tail(curator[c].todo)]
<1>0. /\ Shaped(curator[c]) /\ labelDecisions \in Seq(DecisionRows) /\ Len(labelDecisions) \in Nat
      /\ curator[c].at = "insert" /\ Recording(c) /\ curator[c].todo # <<>> /\ curator[c].todo \in Todos
      /\ curator[c].prior \in 0..Len(labelDecisions)
  BY SMTT(40), FramesShaped DEF InsertDecision, Recording, LexiconTypes
<1>1. PICK u, label, home : u = Concept(curator[c]) /\ label = Head(curator[c].todo)[2] /\ home = Head(curator[c].todo)[3]
  OBVIOUS
<1>2. PICK d : d = [uri |-> u, label |-> label, ontology |-> home, live |-> TRUE, supersedes |-> curator[c].prior]
  OBVIOUS
<1>3. labelDecisions' = Append(labelDecisions, d) /\ UNCHANGED <<extracted, queue, overlapped, unexpired>>
      /\ lapsed' = lapsed \ {u} /\ curator' = [curator EXCEPT ![c] = g]
  <2>1. labelDecisions' = Append(labelDecisions, d) /\ UNCHANGED <<extracted, queue, overlapped, unexpired>>
        /\ lapsed' = lapsed \ {u}
    BY <1>1, <1>2 DEF InsertDecision
  <2>2. curator' = [curator EXCEPT ![c].at = "read", ![c].todo = Tail(@)]
    BY DEF InsertDecision
  <2>3. curator' = [curator EXCEPT ![c] = g]
    BY <2>2 DEF LexiconTypes
  <2> QED BY <2>1, <2>3
<1>4. Shaped(g) /\ g.at = "read"
  BY <1>0, ReshapedFrame
<1> HIDE DEF g
<1>5. d \in DecisionRows /\ u \in Concepts \cup {Missing}
  <2>1. Head(curator[c].todo) \in (Concepts \cup {Missing}) \X Labels \X Everywhere
    BY <1>0 DEF Todos
  <2>2. u \in Concepts \cup {Missing} /\ label \in Labels /\ home \in Everywhere
    BY <1>1, <2>1 DEF Concept
  <2>3. curator[c].prior \in Nat
    BY <1>0
  <2> QED BY <1>2, <2>2, <2>3 DEF DecisionRows
<1>6. PICK n \in Nat : n = Len(labelDecisions) + 1
  BY <1>0
<1>7. /\ labelDecisions' \in Seq(DecisionRows) /\ Len(labelDecisions') = n
      /\ labelDecisions'[n].uri = u /\ labelDecisions'[n].live
      /\ 1..n = (1..Len(labelDecisions)) \cup {n} /\ n \notin 1..Len(labelDecisions)
      /\ \A i \in 1..Len(labelDecisions) : labelDecisions'[i] = labelDecisions[i] /\ i < n
  BY <1>0, <1>2, <1>3, <1>5, <1>6
<1>8. LexiconTypes'
  <2>1. UNCHANGED extracted /\ Len(labelDecisions) <= Len(labelDecisions')
    BY <1>0, <1>3, <1>6, <1>7
  <2> QED BY <1>3, <1>4, <1>7, <2>1, CuratorTypes, Zenon
<1>9. curator'[c] = g /\ \A e \in Curators : e # c => curator'[e] = curator[e]
  BY <1>3, CuratorStep
<1>10. ~Recording(c)' /\ \A e \in Curators : Recording(e)' => e # c /\ curator'[e] = curator[e] /\ Recording(e)
  BY <1>4, <1>9 DEF Recording
<1>11. OneRecorder'
  BY <1>3, <1>10 DEF OneRecorder
<1>12. PriorsOwned'
  <2>1. \A e \in Curators : curator'[e].at = "expire" => curator'[e] = curator[e]
    BY <1>4, <1>9
  <2>2. \A e \in Curators : curator[e].at = "expire" /\ curator[e].prior # 0
                               => curator[e].prior \in 1..Len(labelDecisions)
    BY <1>0 DEF LexiconTypes, Recording
  <2> QED BY <1>7, <2>1, <2>2 DEF PriorsOwned
<1>13. \A v : v # u => Made(v)' = Made(v) /\ LiveOf(v)' = LiveOf(v)
  BY <1>7 DEF Made, LiveOf
<1>14. \A v : v # u => Latest(v)' = Latest(v)
  BY <1>13 DEF Latest
<1>15. Made(u)' = Made(u) \cup {n} /\ LiveOf(u)' = LiveOf(u) \cup {n}
  BY <1>7 DEF Made, LiveOf
<1>16. Latest(u)' = {n}
  <2>1. \A i \in Made(u) : i \in Nat /\ i < n
    BY <1>0, <1>7 DEF Made
  <2>2. \A i \in Made(u)' : i <= n /\ (n <= i => i = n)
    BY <1>15, <2>1
  <2> QED BY <1>15, <2>2 DEF Latest
<1>17. \A e \in Curators : \A v : /\ Inserting(e, v)' => Inserting(e, v) /\ e # c
                                  /\ Inserting(e, v) => Inserting(e, v)' \/ v = u
                                  /\ Expiring(e, v)' => Expiring(e, v) /\ curator'[e] = curator[e] /\ e # c
  BY <1>1, <1>4, <1>9 DEF Inserting, Expiring
<1>18. LatestLive'
  <2> SUFFICES ASSUME NEW v \in Concepts \cup {Missing}
               PROVE  /\ Made(v)' # {} => Latest(v)' # {}
                      /\ Latest(v)' \subseteq LiveOf(v)' \/ v \in lapsed' \/ \E e \in Curators : Inserting(e, v)'
    BY DEF LatestLive
  <2>1. CASE v = u
    BY <1>15, <1>16, <2>1
  <2>2. CASE v # u
    BY <1>3, <1>13, <1>14, <1>17, <2>2 DEF LatestLive
  <2> QED BY <2>1, <2>2
<1>19. OneLive'
  <2> SUFFICES ASSUME NEW v \in Concepts \cup {Missing}, v \notin overlapped \cup unexpired
               PROVE  /\ LiveOf(v)' \subseteq Latest(v)'
                      /\ \A e \in Curators : Inserting(e, v)' => LiveOf(v)' = {}
                      /\ \A e \in Curators : Expiring(e, v)' => LiveOf(v)' \subseteq {curator'[e].prior}
    BY <1>3 DEF OneLive
  <2>1. CASE v = u
    <3>1. LiveOf(u) = {}
      BY <1>0, <1>1, <2>1 DEF OneLive, Inserting
    <3>2. \A e \in Curators : e # c => ~Inserting(e, u) /\ ~Expiring(e, u)
      BY <1>0, <1>1, <2>1 DEF OneRecorder, Inserting, Expiring, Recording
    <3> QED BY <1>15, <1>16, <1>17, <2>1, <3>1, <3>2
  <2>2. CASE v # u
    <3>1. LiveOf(v)' = LiveOf(v) /\ Latest(v)' = Latest(v)
      BY <1>13, <1>14, <2>2
    <3> QED BY <1>17, <3>1 DEF OneLive
  <2> QED BY <2>1, <2>2
<1> QED BY <1>8, <1>11, <1>12, <1>18, <1>19

LEMMA LexiconRests ==
    ASSUME LexiconInv, NEW c \in Curators,
           CloseCollision(c) \/ BreakOff(c) \/ \E l \in Labels, r \in Resolutions : BeginResolve(c, l, r)
    PROVE  LexiconInv'
<1> USE DEF LexiconInv
<1>1. /\ UNCHANGED <<extracted, labelDecisions, overlapped, unexpired>> /\ lapsed \subseteq lapsed'
      /\ \A u : Inserting(c, u) => u \in lapsed'
  <2>1. CASE CloseCollision(c)
    BY <2>1 DEF CloseCollision, asRecorded, Inserting
  <2>2. CASE \E l \in Labels, r \in Resolutions : BeginResolve(c, l, r)
    <3>1. UNCHANGED <<extracted, asRecorded>> /\ curator[c] = AtRest
      BY <2>2 DEF BeginResolve
    <3>2. AtRest.at = "rest"
      BY DEF AtRest
    <3> QED BY <3>1, <3>2 DEF asRecorded, Inserting
  <2>3. CASE BreakOff(c)
    <3>1. ASSUME curator[c].at = "insert" PROVE Concept(curator[c]) \in Concepts \cup {Missing}
      <4>1. curator[c].todo \in Todos /\ curator[c].todo # <<>>
        BY <3>1 DEF LexiconTypes, Recording
      <4>2. Head(curator[c].todo) \in (Concepts \cup {Missing}) \X Labels \X Everywhere
        BY <4>1 DEF Todos
      <4> QED BY <4>2 DEF Concept
    <3> QED BY <2>3, <3>1 DEF BreakOff, Inserting
  <2> QED BY <2>1, <2>2, <2>3
<1>2. PICK g : Shaped(g) /\ g.at \in {"rest", "read"} /\ curator' = [curator EXCEPT ![c] = g]
  <2>1. CASE CloseCollision(c)
    <3>1. <<>> \in Todos
      BY DEF Todos
    <3>2. Shaped(AtRest) /\ AtRest.at = "rest"
      BY <3>1 DEF Shaped, AtRest
    <3> QED BY <2>1, <3>2 DEF CloseCollision
  <2>3. CASE BreakOff(c)
    <3>1. <<>> \in Todos
      BY DEF Todos
    <3>2. Shaped(AtRest) /\ AtRest.at = "rest"
      BY <3>1 DEF Shaped, AtRest
    <3> QED BY <2>3, <3>2 DEF BreakOff
  <2>2. ASSUME NEW l \in Labels, NEW r \in Resolutions, BeginResolve(c, l, r)
        PROVE  \E g : Shaped(g) /\ g.at \in {"rest", "read"} /\ curator' = [curator EXCEPT ![c] = g]
    <3>1. PICK known : known = queue[l].occurrences
      OBVIOUS
    <3> DEFINE h == [at |-> "read", label |-> l, known |-> known, todo |-> r, prior |-> 0]
    <3>2. curator' = [curator EXCEPT ![c] = h]
      BY <2>2, <3>1 DEF BeginResolve
    <3>3. r \in Todos
      BY LexiconAssumption DEF Todos
    <3>4. Shaped(h) /\ h.at = "read"
      BY <3>3 DEF Shaped
    <3> HIDE DEF h
    <3> QED BY <3>2, <3>4
  <2> QED BY <2>1, <2>2, <2>3
<1>3. LexiconTypes'
  <2>1. /\ UNCHANGED extracted /\ labelDecisions' \in Seq(DecisionRows)
        /\ Len(labelDecisions) <= Len(labelDecisions') /\ g.at \notin {"expire", "insert"}
    BY <1>1, <1>2 DEF LexiconTypes
  <2> QED BY <1>2, <2>1, CuratorTypes, Zenon
<1>4. curator'[c] = g /\ \A d \in Curators : d # c => curator'[d] = curator[d]
  BY <1>2, CuratorStep
<1>5. ~Recording(c)'
  BY <1>2, <1>4 DEF Recording
<1> QED BY <1>1, <1>3, <1>4, <1>5, LexiconQuiet

LEMMA LexiconProduces ==
    ASSUME LexiconInv,
           \/ Detect \/ Ingest \/ UNCHANGED lexicon
           \/ \E u \in Concepts, l \in Labels, h \in Homes : Reextract(u, l, h)
           \/ \E l \in Labels : Dismiss(l)
    PROVE  LexiconInv'
<1> USE DEF LexiconInv
<1>1. UNCHANGED <<labelDecisions, curator, overlapped, unexpired, lapsed>>
  BY DEF Detect, Ingest, lexicon, Reextract, Dismiss, asRecorded
<1>2. \A r \in extracted' : r.uri \in Concepts
  <2>1. CASE \E u \in Concepts, l \in Labels, h \in Homes : Reextract(u, l, h)
    <3>1. PICK u \in Concepts, l \in Labels, h \in Homes : Reextract(u, l, h)
      BY <2>1
    <3>2. \A r \in extracted' : r \in extracted \/ r = [uri |-> u, label |-> l, ontology |-> h]
      BY <3>1 DEF Reextract
    <3> QED BY <3>2 DEF LexiconTypes
  <2>2. CASE UNCHANGED extracted
    BY <2>2 DEF LexiconTypes
  <2> QED BY <2>1, <2>2 DEF Detect, Ingest, lexicon, Dismiss
<1>3. LexiconTypes'
  BY <1>1, <1>2 DEF LexiconTypes, Recording
<1> QED BY <1>1, <1>3, LexiconQuiet

LEMMA LexiconInvariant == LexiconSpec => []LexiconInv
<1>1. LexiconInv /\ [LexiconNext]_lexicon => LexiconInv'
  <2> SUFFICES ASSUME LexiconInv, [LexiconNext]_lexicon PROVE LexiconInv'
    OBVIOUS
  <2> QED BY LexiconReads, LexiconExpires, LexiconInserts, LexiconRests, LexiconProduces DEF LexiconNext
<1> QED BY <1>1, LexiconInit_, PTL DEF LexiconSpec

(* What was decided last about a concept is among what it is called,        *)
(* whatever an extraction calls it since, in every read that covers the     *)
(* ontology of the decision, unless its recording was broken off; and it is *)
(* all, unless two recorded a decision of the concept at once               *)
(* (record_label_decision reads, expires and inserts in three calls) or an  *)
(* expiry failed unnoticed.                                                 *)
THEOREM DecisionsAlwaysStand == LexiconSpec => []DecisionsStand
<1>1. LexiconInv => DecisionsStand
  <2> SUFFICES ASSUME LexiconInv, NEW r \in extracted, NEW scope, NEW last, Made(r.uri) # {},
                      last = CHOOSE i \in Made(r.uri) : \A j \in Made(r.uri) : j <= i,
                      labelDecisions[last].ontology \in scope, r.uri \notin lapsed,
                      \A c \in Curators : Recording(c) => Concept(curator[c]) # r.uri
               PROVE  /\ labelDecisions[last].label \in Shown(r, scope)
                      /\ r.uri \notin overlapped \cup unexpired => Shown(r, scope) = {labelDecisions[last].label}
    BY DEF DecisionsStand, Made
  <2> USE DEF LexiconInv
  <2>1. PICK u \in Concepts : u = r.uri
    BY DEF LexiconTypes
  <2>2. Latest(u) # {} /\ Latest(u) \subseteq LiveOf(u)
    BY <2>1 DEF LatestLive, Recording, Inserting
  <2>3. last \in Latest(u)
    BY <2>1, <2>2 DEF Latest
  <2>4. labelDecisions[last].label \in Shown(r, scope)
    BY <2>1, <2>2, <2>3 DEF Shown
  <2>5. ASSUME u \notin overlapped \cup unexpired PROVE Shown(r, scope) = {labelDecisions[last].label}
    <3>1. \A i \in Latest(u) : i \in Nat /\ i <= last /\ last <= i
      BY <2>3 DEF Latest, Made, LexiconTypes
    <3>2. \A i \in LiveOf(u) : i = last
      BY <2>3, <2>5, <3>1 DEF OneLive
    <3> QED BY <2>1, <2>2, <2>3, <3>2 DEF Shown
  <2> QED BY <2>1, <2>4, <2>5
<1> QED BY <1>1, LexiconInvariant, PTL

-----------------------------------------------------------------------------
(* Exchange.                                                                *)

\* No property of a file has two ranges.
OneRange(f) == \A d, e \in f.ranges : d[1] = e[1] => d[2] = e[2]
OneRangeEach == \A f \in Files : OneRange(f)

ClassDoc(c, s, f) ==
    /\ c = [uri |-> c.uri, id |-> c.id, live |-> c.live]
    /\ c.id \in 1..s.made /\ c.live \in BOOLEAN /\ c.uri \in Wanted(f)

PropertyDoc(p, s, f) ==
    /\ p = [uri |-> p.uri, kind |-> p.kind, id |-> p.id, live |-> p.live, range |-> p.range, inverse |-> p.inverse]
    /\ p.id \in 1..s.made /\ p.live \in BOOLEAN
    /\ [uri |-> p.uri, kind |-> p.kind] \in f.properties
    /\ \E t \in AnyValue(f.ranges, p.uri) : p.range = t.text

EdgeDoc(e, s, f) ==
    /\ e = Edge(e.type, e.from, e.to, e.assertion)
    /\ e.type = "subclass_of" =>
           \E c, d \in Live(s.classes) : e.from = c.id /\ e.to = d.id /\ <<c.uri, d.uri>> \in f.subclass
    /\ e.type = "rdfs_range_class" /\ e.assertion = "rdfs" =>
           \E p \in Live(s.properties), c \in Live(s.classes) :
               e.from = p.id /\ e.to = c.id /\ <<p.uri, Iri(c.uri)>> \in f.ranges

ConstraintDoc(k, s, f) ==
    /\ k.on \in 1..s.made /\ k.property \in 0..s.made
    /\ \A p \in Live(s.properties) : p.id = k.property => p.uri = k.uri
    /\ k.property = 0 <=> ~(\E q \in f.properties : q.uri = k.uri)
    /\ k.type = "owl:Restriction" => \A c \in Live(s.classes) : c.id = k.on =>
           RowOf("owl:Restriction", c.uri, k.uri, k.kind, k.value, NoText) \in OwlRows(f)

OwnIds(s) ==
    /\ \A c, d \in s.classes : c.id = d.id => c = d
    /\ \A p, q \in s.properties : p.id = q.id => p = q
    /\ \A c \in s.classes, p \in s.properties : c.id # p.id

StoreShaped(s) ==
    s = [classes |-> s.classes, properties |-> s.properties, edges |-> s.edges,
         constraints |-> s.constraints, made |-> s.made]

\* The documents come from the file, and name each other.
StoreDocs(s, f) ==
    /\ StoreShaped(s) /\ s.made \in Nat /\ OwnIds(s)
    /\ \A c \in s.classes : ClassDoc(c, s, f)
    /\ \A p \in s.properties : PropertyDoc(p, s, f)
    /\ \A e \in s.edges : EdgeDoc(e, s, f)
    /\ \A k \in s.constraints : ConstraintDoc(k, s, f)
    /\ IsFiniteSet({k \in s.constraints : k.type = "owl:Restriction"})

\* What a file has is there.
AllClasses(s, f) == \A u \in Wanted(f) : \E c \in Live(s.classes) : c.uri = u
AllProperties(s, f) == \A q \in f.properties : \E p \in Live(s.properties) : p.uri = q.uri /\ p.kind = q.kind
Linked(s, from, to) ==
    \E e \in s.edges : \E c, d \in Live(s.classes) :
        e.type = "subclass_of" /\ e.from = c.id /\ e.to = d.id /\ c.uri = from /\ d.uri = to
AllSubclasses(s, f) == \A e \in f.subclass : {e[1], e[2]} \subseteq Wanted(f) => Linked(s, e[1], e[2])
AllRows(s, f) ==
    \A r \in OwlRows(f) : \E k \in s.constraints, c \in Live(s.classes) :
        k.type = "owl:Restriction" /\ k.on = c.id /\ c.uri = r.class
        /\ k.uri = r.uri /\ k.kind = r.kind /\ k.value = r.value

KnownIds(j, s, f) ==
    /\ DOMAIN j.ids = Wanted(f)
    /\ \A u \in Wanted(f) : \E c \in Live(s.classes) : c.id = j.ids[u] /\ c.uri = u
KnownRanges(j, s, f) ==
    \A m \in j.metas : m.range.assertion = "rdfs" =>
        \E p \in Live(s.properties), e \in f.ranges : p.id = m.from /\ e[1] = p.uri /\ m.range.uris = {e[2].text}

\* A job has done what its step comes after.
JobDone(j, s, f, again) ==
    /\ j = [at |-> j.at, via |-> j.via, ids |-> j.ids, metas |-> j.metas]
    /\ j.at \in {"properties", "edges"} => KnownIds(j, s, f)
    /\ j.at = "edges" => KnownRanges(j, s, f)
    /\ j.at \in {"properties", "edges", "restrictions", "shapes", "register"} => AllClasses(s, f)
    /\ j.at \in {"edges", "restrictions", "shapes", "register"} => AllProperties(s, f)
    /\ j.at \in {"restrictions", "shapes", "register"} => AllSubclasses(s, f)
    /\ j.at \in {"shapes", "register"} /\ again => AllRows(s, f)

\* The summary of what is made of a file.
RangeOf(f, uri) == (CHOOSE t \in AnyValue(f.ranges, uri) : TRUE).text
FileSummary(f) ==
    [classes |-> f.declared, subclass |-> f.subclass,
     properties |-> {[uri |-> q.uri, kind |-> q.kind, range |-> NamedRange(RangeOf(f, q.uri))] : q \in f.properties},
     restrictions |-> {[on |-> r.class, uri |-> r.uri, kind |-> r.kind, value |-> r.value] : r \in OwlRows(f)}]

\* What the second round starts from.
FromExport(f, summaries) ==
    /\ OneRangeEach => summaries = {FileSummary(f)}
    /\ f.declared = Wanted(f) /\ f.shapes = {}
    /\ f.subclass \subseteq f.declared \X f.declared
    /\ \A r \in OwlRows(f) : IsBound(r.kind) => r.value.text \notin Negative

ExchangeInv ==
    /\ FileAssumption(file) /\ (OneRangeEach => OneRange(file))
    /\ StoreDocs(store, file)
    /\ importJob = [w \in Callers |-> importJob[w]]
    /\ \A w \in Callers : JobDone(importJob[w], store, file, original # {})
    /\ registered => AllClasses(store, file) /\ AllProperties(store, file) /\ AllSubclasses(store, file)
    /\ registered /\ original # {} => AllRows(store, file)
    /\ original # {} => faults = MaxFaults /\ FromExport(file, original)

LEMMA Places ==
    ASSUME NEW u \in ToSet(UriOrder)
    PROVE  Place(u) \in 1..Len(UriOrder) /\ UriOrder[Place(u)] = u
<1>1. DOMAIN UriOrder = 1..Len(UriOrder)
  BY ExchangeAssumption
<1>2. PICK i \in DOMAIN UriOrder : UriOrder[i] = u
  BY DEF ToSet
<1> QED BY <1>1, <1>2 DEF Place

\* Two URIs, and two properties, have two places.
LEMMA PlacesDiffer ==
    ASSUME NEW p \in [uri : ToSet(UriOrder), kind : {"object", "datatype"}],
           NEW q \in [uri : ToSet(UriOrder), kind : {"object", "datatype"}]
    PROVE  /\ PropertyPlace(p) \in 1..2 * Len(UriOrder)
           /\ PropertyPlace(p) = PropertyPlace(q) => p = q
<1>0. Len(UriOrder) \in Nat
  BY ExchangeAssumption
<1>1. /\ p = [uri |-> p.uri, kind |-> p.kind] /\ q = [uri |-> q.uri, kind |-> q.kind]
      /\ p.uri \in ToSet(UriOrder) /\ q.uri \in ToSet(UriOrder)
      /\ p.kind \in {"object", "datatype"} /\ q.kind \in {"object", "datatype"}
  OBVIOUS
<1>2. /\ Place(p.uri) \in 1..Len(UriOrder) /\ Place(q.uri) \in 1..Len(UriOrder)
      /\ UriOrder[Place(p.uri)] = p.uri /\ UriOrder[Place(q.uri)] = q.uri
  BY <1>1, Places
<1>3. PropertyPlace(p) \in 1..2 * Len(UriOrder)
  BY <1>0, <1>1, <1>2 DEF PropertyPlace
<1>4. ASSUME PropertyPlace(p) = PropertyPlace(q)
      PROVE  p = q
  <2>1. p.kind = q.kind /\ Place(p.uri) = Place(q.uri)
    BY <1>0, <1>1, <1>2, <1>4 DEF PropertyPlace
  <2> QED BY <1>1, <1>2, <2>1
<1> QED BY <1>3, <1>4

LEMMA UriOfId ==
    ASSUME NEW s, OwnIds(s)
    PROVE  /\ \A c \in s.classes : UriOf(s, c.id) = c.uri
           /\ \A p \in s.properties : UriOf(s, p.id) = p.uri
<1>1. ASSUME NEW r \in s.classes \cup s.properties
      PROVE  UriOf(s, r.id) = r.uri
  <2> DEFINE x == CHOOSE q \in s.classes \cup s.properties : q.id = r.id
  <2>1. x \in s.classes \cup s.properties /\ x.id = r.id
    OBVIOUS
  <2>2. x = r
    BY <2>1, <1>1 DEF OwnIds
  <2> QED BY <2>2 DEF UriOf
<1> QED BY <1>1

LEMMA Picked ==
    ASSUME NEW options, NEW f \in Selections(options), NEW x \in DOMAIN options
    PROVE  f[x] \in options[x]
BY DEF Selections

\* What is made of finitely many is finite.
LEMMA FiniteImage ==
    ASSUME NEW S, IsFiniteSet(S), NEW f, DOMAIN f = S, NEW T, \A y \in T : \E x \in S : f[x] = y
    PROVE  IsFiniteSet(T)
<1> DEFINE I == {f[x] : x \in S}
           g == [x \in S |-> f[x]]
<1>1. g \in Surjection(S, I)
  <2>1. g \in [S -> I]
    OBVIOUS
  <2>2. \A y \in I : \E x \in S : g[x] = y
    OBVIOUS
  <2> QED BY <2>1, <2>2 DEF Surjection
<1>2. IsFiniteSet(I)
  BY <1>1, FS_Surjection
<1>3. T \subseteq I
  OBVIOUS
<1> QED BY <1>2, <1>3, FS_Subset

\* The first kind that is said is said.
LEMMA FirstKind ==
    ASSUME NEW S \in SUBSET Nat, S # {}
    PROVE  (CHOOSE i \in S : \A j \in S : i <= j) \in S
<1>1. PICK n \in S : \A m \in S : ~(<<m, n>> \in OpToRel(<, Nat))
  BY NatLessThanWellFounded, WFMin
<1>2. \A m \in S : m \in Nat /\ n \in Nat /\ ~(m < n)
  BY <1>1 DEF OpToRel
<1>3. \A m \in S : n <= m
  BY <1>2
<1> QED BY <1>3

\* A row of OwlRows: its class is declared, its value as RestrictionTerm reads it.
LEMMA RowsOfFile ==
    ASSUME NEW f, NEW x \in OwlRows(f)
    PROVE  /\ x = RowOf("owl:Restriction", x.class, x.uri, x.kind, x.value, NoText)
           /\ x.class \in f.declared
           /\ IF IsBound(x.kind) THEN x.value = Count(x.value)
              ELSE x.value = Stored(x.value) /\ x.kind \in {"allValuesFrom", "someValuesFrom", "hasValue"}
<1>1. PICK r \in f.restrictions : r.on \in f.declared /\ x \in Interpreted(r)
  BY DEF OwlRows
<1> DEFINE said == {i \in DOMAIN Kinds : Kinds[i] \in DOMAIN r.says}
           n == CHOOSE i \in said : \A j \in said : i <= j
           kind == Kinds[n]
<1>2. said # {} /\ said \subseteq 1..6
  BY SMTT(40), <1>1 DEF Interpreted, Kinds
<1>3. n \in 1..6
  BY <1>2, FirstKind
<1>4. IsBound(kind) \/ kind \in {"allValuesFrom", "someValuesFrom", "hasValue"}
  <2>1. kind \in {"minCardinality", "maxCardinality", "cardinality", "allValuesFrom", "someValuesFrom", "hasValue"}
    <3>1. \A i \in 1..6 : Kinds[i] \in {"minCardinality", "maxCardinality", "cardinality", "allValuesFrom", "someValuesFrom", "hasValue"}
      BY DEF Kinds
    <3> HIDE DEF n
    <3> QED BY <1>3, <3>1
  <2> QED BY <2>1 DEF IsBound
<1>5. \/ IsBound(kind) /\ x = RowOf("owl:Restriction", r.on, r.property.text, kind, Count(r.says[kind]), NoText)
      \/ ~IsBound(kind) /\ x = RowOf("owl:Restriction", r.on, r.property.text, kind, Stored(r.says[kind]), NoText)
  BY <1>1 DEF Interpreted
<1>6. x.kind = kind /\ x.class = r.on
  BY <1>5 DEF RowOf
<1>7. CASE IsBound(kind)
  BY <1>1, <1>5, <1>6, <1>7 DEF RowOf, Count
<1>8. CASE ~IsBound(kind)
  BY SMTT(40), <1>1, <1>4, <1>5, <1>6, <1>8 DEF RowOf, Stored
<1> QED BY <1>7, <1>8

LEMMA RowsAreFinite ==
    ASSUME NEW f, IsFiniteSet(f.restrictions)
    PROVE  IsFiniteSet(OwlRows(f))
<1> DEFINE g == [r \in f.restrictions |-> CHOOSE x : x \in Interpreted(r)]
<1>1. ASSUME NEW x \in OwlRows(f)
      PROVE  \E r \in f.restrictions : g[r] = x
  <2>1. PICK r \in f.restrictions : x \in Interpreted(r)
    BY DEF OwlRows
  <2>2. \A y, z \in Interpreted(r) : y = z
    BY DEF Interpreted
  <2> QED BY <2>1, <2>2
<1>2. DOMAIN g = f.restrictions
  OBVIOUS
<1> HIDE DEF g
<1> QED BY <1>1, <1>2, FiniteImage

LEMMA Changed ==
    ASSUME NEW s, StoreShaped(s)
    PROVE  /\ \A C, newest : [s EXCEPT !.classes = C, !.made = newest]
                  = [classes |-> C, properties |-> s.properties, edges |-> s.edges,
                     constraints |-> s.constraints, made |-> newest]
           /\ \A C, newest : [s EXCEPT !.properties = C, !.made = newest]
                  = [classes |-> s.classes, properties |-> C, edges |-> s.edges,
                     constraints |-> s.constraints, made |-> newest]
           /\ \A C : [s EXCEPT !.edges = C]
                  = [classes |-> s.classes, properties |-> s.properties, edges |-> C,
                     constraints |-> s.constraints, made |-> s.made]
           /\ \A C : [s EXCEPT !.constraints = C]
                  = [classes |-> s.classes, properties |-> s.properties, edges |-> s.edges,
                     constraints |-> C, made |-> s.made]
           /\ \A C, P, E, newest : [s EXCEPT !.classes = C, !.properties = P, !.edges = E, !.made = newest]
                  = [classes |-> C, properties |-> P, edges |-> E, constraints |-> s.constraints, made |-> newest]
<1>1. PICK c, p, e, k, m : s = [classes |-> c, properties |-> p, edges |-> e, constraints |-> k, made |-> m]
  BY DEF StoreShaped
<1>2. c = s.classes /\ p = s.properties /\ e = s.edges /\ k = s.constraints /\ m = s.made
  BY <1>1
<1>3. ASSUME NEW C, NEW newest
      PROVE  [s EXCEPT !.classes = C, !.made = newest] = [classes |-> C, properties |-> s.properties, edges |-> s.edges, constraints |-> s.constraints, made |-> newest]
  <2>3. [s EXCEPT !.classes = C] = [classes |-> C, properties |-> p, edges |-> e, constraints |-> k, made |-> m]
    BY <1>1
  <2>7. [s EXCEPT !.classes = C, !.made = newest] = [classes |-> C, properties |-> p, edges |-> e, constraints |-> k, made |-> newest]
    <3>1. [s EXCEPT !.classes = C, !.made = newest] = [[s EXCEPT !.classes = C] EXCEPT !.made = newest]
      BY <1>1
    <3>2. PICK u : u = [s EXCEPT !.classes = C]
      OBVIOUS
    <3>3. u = [classes |-> C, properties |-> p, edges |-> e, constraints |-> k, made |-> m]
      BY <2>3, <3>2
    <3>4. [u EXCEPT !.made = newest] = [classes |-> C, properties |-> p, edges |-> e, constraints |-> k, made |-> newest]
      BY <3>3
    <3> QED BY <3>1, <3>2, <3>4, Zenon
  <2> QED BY <2>7, <1>2, Zenon
<1>4. ASSUME NEW C, NEW newest
      PROVE  [s EXCEPT !.properties = C, !.made = newest] = [classes |-> s.classes, properties |-> C, edges |-> s.edges, constraints |-> s.constraints, made |-> newest]
  <2>4. [s EXCEPT !.properties = C] = [classes |-> c, properties |-> C, edges |-> e, constraints |-> k, made |-> m]
    BY <1>1
  <2>8. [s EXCEPT !.properties = C, !.made = newest] = [classes |-> c, properties |-> C, edges |-> e, constraints |-> k, made |-> newest]
    <3>1. [s EXCEPT !.properties = C, !.made = newest] = [[s EXCEPT !.properties = C] EXCEPT !.made = newest]
      BY <1>1
    <3>2. PICK u : u = [s EXCEPT !.properties = C]
      OBVIOUS
    <3>3. u = [classes |-> c, properties |-> C, edges |-> e, constraints |-> k, made |-> m]
      BY <2>4, <3>2
    <3>4. [u EXCEPT !.made = newest] = [classes |-> c, properties |-> C, edges |-> e, constraints |-> k, made |-> newest]
      BY <3>3
    <3> QED BY <3>1, <3>2, <3>4, Zenon
  <2> QED BY <2>8, <1>2, Zenon
<1>5. ASSUME NEW C
      PROVE  [s EXCEPT !.edges = C] = [classes |-> s.classes, properties |-> s.properties, edges |-> C, constraints |-> s.constraints, made |-> s.made]
  <2>1. [s EXCEPT !.edges = C] = [classes |-> c, properties |-> p, edges |-> C, constraints |-> k, made |-> m]
    BY <1>1
  <2> QED BY <2>1, <1>2, Zenon
<1>6. ASSUME NEW C
      PROVE  [s EXCEPT !.constraints = C] = [classes |-> s.classes, properties |-> s.properties, edges |-> s.edges, constraints |-> C, made |-> s.made]
  <2>1. [s EXCEPT !.constraints = C] = [classes |-> c, properties |-> p, edges |-> e, constraints |-> C, made |-> m]
    BY <1>1
  <2> QED BY <2>1, <1>2, Zenon
<1>7. ASSUME NEW C, NEW P, NEW E, NEW newest
      PROVE  [s EXCEPT !.classes = C, !.properties = P, !.edges = E, !.made = newest] = [classes |-> C, properties |-> P, edges |-> E, constraints |-> s.constraints, made |-> newest]
  <2>3. [s EXCEPT !.classes = C] = [classes |-> C, properties |-> p, edges |-> e, constraints |-> k, made |-> m]
    BY <1>1
  <2>9. [s EXCEPT !.classes = C, !.properties = P, !.edges = E, !.made = newest]
            = [classes |-> C, properties |-> P, edges |-> E, constraints |-> k, made |-> newest]
    <3>1. [s EXCEPT !.classes = C, !.properties = P, !.edges = E, !.made = newest]
              = [[[[s EXCEPT !.classes = C] EXCEPT !.properties = P] EXCEPT !.edges = E] EXCEPT !.made = newest]
      BY <1>1
    <3>2. PICK u : u = [s EXCEPT !.classes = C]
      OBVIOUS
    <3>3. PICK v : v = [u EXCEPT !.properties = P]
      OBVIOUS
    <3>4. PICK x : x = [v EXCEPT !.edges = E]
      OBVIOUS
    <3>5. u = [classes |-> C, properties |-> p, edges |-> e, constraints |-> k, made |-> m]
      BY <2>3, <3>2
    <3>6. v = [classes |-> C, properties |-> P, edges |-> e, constraints |-> k, made |-> m]
      BY <3>3, <3>5
    <3>7. x = [classes |-> C, properties |-> P, edges |-> E, constraints |-> k, made |-> m]
      BY <3>4, <3>6
    <3>8. [x EXCEPT !.made = newest] = [classes |-> C, properties |-> P, edges |-> E, constraints |-> k, made |-> newest]
      BY <3>7
    <3> QED BY <3>1, <3>2, <3>3, <3>4, <3>8, Zenon
  <2> QED BY <2>9, <1>2, Zenon
<1> QED BY <1>3, <1>4, <1>5, <1>6, <1>7

-----------------------------------------------------------------------------
(* What is done stays done while documents are only added.                  *)

Grows(s, t) ==
    /\ s.classes \subseteq t.classes /\ s.properties \subseteq t.properties
    /\ s.edges \subseteq t.edges /\ s.constraints \subseteq t.constraints

LEMMA DoneStays ==
    ASSUME NEW s, NEW t, NEW f, Grows(s, t)
    PROVE  /\ AllClasses(s, f) => AllClasses(t, f)
           /\ AllProperties(s, f) => AllProperties(t, f)
           /\ AllSubclasses(s, f) => AllSubclasses(t, f)
           /\ AllRows(s, f) => AllRows(t, f)
           /\ \A j, again : JobDone(j, s, f, again) => JobDone(j, t, f, again)
<1>1. /\ Live(s.classes) \subseteq Live(t.classes) /\ Live(s.properties) \subseteq Live(t.properties)
      /\ s.edges \subseteq t.edges /\ s.constraints \subseteq t.constraints
  BY DEF Grows, Live
<1>2. AllClasses(s, f) => AllClasses(t, f)
  BY <1>1 DEF AllClasses
<1>3. AllProperties(s, f) => AllProperties(t, f)
  BY <1>1 DEF AllProperties
<1>4. \A from, to : Linked(s, from, to) => Linked(t, from, to)
  BY <1>1 DEF Linked
<1>5. AllSubclasses(s, f) => AllSubclasses(t, f)
  BY <1>4 DEF AllSubclasses
<1>6. AllRows(s, f) => AllRows(t, f)
  <2> SUFFICES ASSUME AllRows(s, f), NEW r \in OwlRows(f)
               PROVE  \E k \in t.constraints, c \in Live(t.classes) :
                          k.type = "owl:Restriction" /\ k.on = c.id /\ c.uri = r.class
                          /\ k.uri = r.uri /\ k.kind = r.kind /\ k.value = r.value
    BY DEF AllRows
  <2>1. PICK k \in s.constraints, c \in Live(s.classes) :
            k.type = "owl:Restriction" /\ k.on = c.id /\ c.uri = r.class
            /\ k.uri = r.uri /\ k.kind = r.kind /\ k.value = r.value
    BY DEF AllRows
  <2> QED BY <1>1, <2>1
<1>7. \A j : KnownIds(j, s, f) => KnownIds(j, t, f)
  BY <1>1 DEF KnownIds
<1>8. \A j : KnownRanges(j, s, f) => KnownRanges(j, t, f)
  BY <1>1 DEF KnownRanges
<1>9. ASSUME NEW j, NEW again, JobDone(j, s, f, again)
      PROVE  JobDone(j, t, f, again)
  BY <1>2, <1>3, <1>5, <1>6, <1>7, <1>8, <1>9 DEF JobDone
<1> QED BY <1>2, <1>3, <1>5, <1>6, <1>9

-----------------------------------------------------------------------------
(* What an import adds comes from the file.                                 *)

\* Documents of the store, seen from the store with more of them.
LEMMA DocumentsLater ==
    ASSUME NEW s, NEW t, NEW f, Grows(s, t), s.made \in Nat, t.made \in Nat, s.made <= t.made
    PROVE  /\ \A c : ClassDoc(c, s, f) => ClassDoc(c, t, f)
           /\ \A p : PropertyDoc(p, s, f) => PropertyDoc(p, t, f)
           /\ \A e : EdgeDoc(e, s, f) => EdgeDoc(e, t, f)
<1>1. \A i : i \in 1..s.made => i \in 1..t.made
  OBVIOUS
<1>2. /\ Live(s.classes) \subseteq Live(t.classes) /\ Live(s.properties) \subseteq Live(t.properties)
  BY DEF Grows, Live
<1>3. \A c : ClassDoc(c, s, f) => ClassDoc(c, t, f)
  BY <1>1 DEF ClassDoc
<1>4. \A p : PropertyDoc(p, s, f) => PropertyDoc(p, t, f)
  BY <1>1 DEF PropertyDoc
<1>5. \A e : EdgeDoc(e, s, f) => EdgeDoc(e, t, f)
  <2> SUFFICES ASSUME NEW e, EdgeDoc(e, s, f) PROVE EdgeDoc(e, t, f)
    OBVIOUS
  <2> QED BY <1>2 DEF EdgeDoc
<1> QED BY <1>3, <1>4, <1>5

LEMMA AddClasses ==
    ASSUME NEW s, NEW f, StoreDocs(s, f), NEW X, NEW newest \in Nat, s.made <= newest,
           \A c \in X : /\ c = [uri |-> c.uri, id |-> c.id, live |-> TRUE]
                        /\ c.id \in s.made + 1..newest /\ c.uri \in Wanted(f),
           \A c, d \in X : c.id = d.id => c = d
    PROVE  LET t == [s EXCEPT !.classes = s.classes \cup X, !.made = newest] IN StoreDocs(t, f) /\ Grows(s, t)
<1> DEFINE t == [s EXCEPT !.classes = s.classes \cup X, !.made = newest]
<1>1. /\ t = [classes |-> s.classes \cup X, properties |-> s.properties, edges |-> s.edges,
              constraints |-> s.constraints, made |-> newest]
      /\ t.classes = s.classes \cup X /\ t.properties = s.properties /\ t.edges = s.edges
      /\ t.constraints = s.constraints /\ t.made = newest
  <2>1. StoreShaped(s)
    BY DEF StoreDocs
  <2>2. \A C, m : [s EXCEPT !.classes = C, !.made = m]
            = [classes |-> C, properties |-> s.properties, edges |-> s.edges, constraints |-> s.constraints, made |-> m]
    BY <2>1, Changed
  <2>3. t = [classes |-> s.classes \cup X, properties |-> s.properties, edges |-> s.edges,
             constraints |-> s.constraints, made |-> newest]
    BY <2>2, Zenon
  <2> HIDE DEF t
  <2> QED BY <2>3
<1> HIDE DEF t
<1>2. Grows(s, t)
  BY <1>1 DEF Grows
<1>3. s.made \in Nat
  BY DEF StoreDocs
<1>4. /\ \A c \in s.classes : ClassDoc(c, t, f)
      /\ \A p \in t.properties : PropertyDoc(p, t, f)
      /\ \A e \in t.edges : EdgeDoc(e, t, f)
  <2>1. /\ \A c \in s.classes : ClassDoc(c, s, f)
        /\ \A p \in s.properties : PropertyDoc(p, s, f)
        /\ \A e \in s.edges : EdgeDoc(e, s, f)
    BY DEF StoreDocs
  <2>2. s.made <= t.made /\ t.made \in Nat
    BY <1>1
  <2>3. /\ \A c : ClassDoc(c, s, f) => ClassDoc(c, t, f)
        /\ \A p : PropertyDoc(p, s, f) => PropertyDoc(p, t, f)
        /\ \A e : EdgeDoc(e, s, f) => EdgeDoc(e, t, f)
    BY <1>2, <1>3, <2>2, DocumentsLater
  <2> QED BY <1>1, <2>1, <2>3
<1>5. \A c \in X : ClassDoc(c, t, f)
  <2> TAKE c \in X
  <2>1. c.live = TRUE
    OBVIOUS
  <2>2. c.id \in 1..newest
    BY <1>3
  <2> QED BY <1>1, <2>1, <2>2 DEF ClassDoc
<1>6. OwnIds(t)
  <2>1. \A c \in s.classes : c.id \in Nat /\ c.id <= s.made
    BY <1>3 DEF StoreDocs, ClassDoc
  <2>2. \A p \in s.properties : p.id \in Nat /\ p.id <= s.made
    <3>1. \A p \in s.properties : PropertyDoc(p, s, f)
      BY DEF StoreDocs
    <3>2. \A p \in s.properties : p.id \in 1..s.made
      BY <3>1 DEF PropertyDoc
    <3> QED BY <1>3, <3>2
  <2>3. \A c \in X : c.id \in Nat /\ c.id > s.made
    BY <1>3
  <2>4. OwnIds(s)
    BY DEF StoreDocs
  <2> QED BY <1>1, <1>3, <2>1, <2>2, <2>3, <2>4 DEF OwnIds
<1>7. \A k \in t.constraints : ConstraintDoc(k, t, f)
  <2> SUFFICES ASSUME NEW k \in s.constraints PROVE ConstraintDoc(k, t, f)
    BY <1>1
  <2>1. ConstraintDoc(k, s, f)
    BY DEF StoreDocs
  <2>2. k.on \in 1..newest /\ k.property \in 0..newest /\ k.on <= s.made /\ k.on \in Nat
    BY <1>3, <2>1 DEF ConstraintDoc
  <2>3. ASSUME NEW c \in Live(t.classes), c.id = k.on
        PROVE  c \in Live(s.classes)
    <3>1. c \notin X
      BY <1>3, <2>2, <2>3
    <3> QED BY <1>1, <2>3, <3>1 DEF Live
  <2> QED BY <1>1, <2>1, <2>2, <2>3 DEF ConstraintDoc
<1>8. IsFiniteSet({k \in t.constraints : k.type = "owl:Restriction"})
  BY <1>1 DEF StoreDocs
<1>9. \A c \in t.classes : ClassDoc(c, t, f)
  BY <1>1, <1>4, <1>5
<1>10. StoreDocs(t, f)
  BY <1>1, <1>4, <1>6, <1>7, <1>8, <1>9 DEF StoreDocs, StoreShaped
<1> QED BY <1>2, <1>10 DEF t

LEMMA AddProperties ==
    ASSUME NEW s, NEW f, StoreDocs(s, f), NEW X, NEW newest \in Nat, s.made <= newest,
           \A p \in X : p = [uri |-> p.uri, kind |-> p.kind, id |-> p.id, live |-> p.live, range |-> p.range, inverse |-> p.inverse],
           \A p \in X : p.live = TRUE, \A p \in X : p.id \in s.made + 1..newest,
           \A p \in X : [uri |-> p.uri, kind |-> p.kind] \in f.properties,
           \A p \in X : \E v \in AnyValue(f.ranges, p.uri) : p.range = v.text,
           \A p, q \in X : p.id = q.id => p = q
    PROVE  LET t == [s EXCEPT !.properties = s.properties \cup X, !.made = newest] IN StoreDocs(t, f) /\ Grows(s, t)
<1> DEFINE t == [s EXCEPT !.properties = s.properties \cup X, !.made = newest]
<1>1. /\ t = [classes |-> s.classes, properties |-> s.properties \cup X, edges |-> s.edges,
              constraints |-> s.constraints, made |-> newest]
      /\ t.classes = s.classes /\ t.properties = s.properties \cup X /\ t.edges = s.edges
      /\ t.constraints = s.constraints /\ t.made = newest
  <2>1. StoreShaped(s)
    BY DEF StoreDocs
  <2>2. \A C, m : [s EXCEPT !.properties = C, !.made = m]
            = [classes |-> s.classes, properties |-> C, edges |-> s.edges, constraints |-> s.constraints, made |-> m]
    BY <2>1, Changed
  <2>3. t = [classes |-> s.classes, properties |-> s.properties \cup X, edges |-> s.edges,
             constraints |-> s.constraints, made |-> newest]
    BY <2>2, Zenon
  <2> HIDE DEF t
  <2> QED BY <2>3
<1> HIDE DEF t
<1>2. Grows(s, t)
  BY <1>1 DEF Grows
<1>3. s.made \in Nat /\ OwnIds(s) /\ t.made \in Nat /\ s.made <= t.made
  BY <1>1 DEF StoreDocs
<1>4. /\ \A c \in t.classes : ClassDoc(c, t, f)
      /\ \A p \in s.properties : PropertyDoc(p, t, f)
      /\ \A e \in t.edges : EdgeDoc(e, t, f)
  <2>1. /\ \A c \in s.classes : ClassDoc(c, s, f)
        /\ \A p \in s.properties : PropertyDoc(p, s, f)
        /\ \A e \in s.edges : EdgeDoc(e, s, f)
    BY DEF StoreDocs
  <2>2. /\ \A c : ClassDoc(c, s, f) => ClassDoc(c, t, f)
        /\ \A p : PropertyDoc(p, s, f) => PropertyDoc(p, t, f)
        /\ \A e : EdgeDoc(e, s, f) => EdgeDoc(e, t, f)
    BY <1>2, <1>3, DocumentsLater
  <2> QED BY <1>1, <2>1, <2>2
<1>5. \A p \in X : PropertyDoc(p, t, f)
  <2> TAKE p \in X
  <2>1. p.live = TRUE
    OBVIOUS
  <2>2. p.id \in 1..newest
    BY <1>3
  <2> QED BY <1>1, <2>1, <2>2 DEF PropertyDoc
<1>6. OwnIds(t)
  <2>1. \A c \in s.classes : c.id \in Nat /\ c.id <= s.made
    BY <1>3 DEF StoreDocs, ClassDoc
  <2>2. \A p \in s.properties : p.id \in 1..s.made
    BY DEF StoreDocs, PropertyDoc
  <2>3. \A p \in X : p.id \in Nat /\ p.id > s.made
    BY <1>3
  <2>4. \A p \in s.properties : p.id \in Nat /\ p.id <= s.made
    BY <1>3, <2>2
  <2> QED BY <1>1, <1>3, <2>1, <2>3, <2>4 DEF OwnIds
<1>7. \A k \in t.constraints : ConstraintDoc(k, t, f)
  <2> SUFFICES ASSUME NEW k \in s.constraints PROVE ConstraintDoc(k, t, f)
    BY <1>1
  <2>1. ConstraintDoc(k, s, f)
    BY DEF StoreDocs
  <2>2. k.on \in 1..newest /\ k.property \in 0..newest /\ k.property <= s.made /\ k.property \in Nat
    BY <1>3, <2>1 DEF ConstraintDoc
  <2>3. ASSUME NEW p \in Live(t.properties), p.id = k.property
        PROVE  p \in Live(s.properties)
    <3>1. p \notin X
      BY <1>3, <2>2, <2>3
    <3> QED BY <1>1, <2>3, <3>1 DEF Live
  <2> QED BY <1>1, <2>1, <2>2, <2>3 DEF ConstraintDoc
<1>8. IsFiniteSet({k \in t.constraints : k.type = "owl:Restriction"})
  BY <1>1 DEF StoreDocs
<1>9. \A p \in t.properties : PropertyDoc(p, t, f)
  BY <1>1, <1>4, <1>5
<1>10. StoreDocs(t, f)
  BY <1>1, <1>4, <1>6, <1>7, <1>8, <1>9 DEF StoreDocs, StoreShaped
<1> QED BY <1>2, <1>10 DEF t

LEMMA AddEdges ==
    ASSUME NEW s, NEW f, StoreDocs(s, f), NEW X, \A e \in X : EdgeDoc(e, s, f)
    PROVE  LET t == [s EXCEPT !.edges = s.edges \cup X] IN StoreDocs(t, f) /\ Grows(s, t)
<1> DEFINE t == [s EXCEPT !.edges = s.edges \cup X]
<1>1. /\ t = [classes |-> s.classes, properties |-> s.properties, edges |-> s.edges \cup X,
              constraints |-> s.constraints, made |-> s.made]
      /\ t.classes = s.classes /\ t.properties = s.properties /\ t.edges = s.edges \cup X
      /\ t.constraints = s.constraints /\ t.made = s.made
  <2>1. StoreShaped(s)
    BY DEF StoreDocs
  <2>2. \A C : [s EXCEPT !.edges = C]
            = [classes |-> s.classes, properties |-> s.properties, edges |-> C, constraints |-> s.constraints, made |-> s.made]
    BY <2>1, Changed
  <2>3. t = [classes |-> s.classes, properties |-> s.properties, edges |-> s.edges \cup X,
             constraints |-> s.constraints, made |-> s.made]
    BY <2>2, Zenon
  <2> HIDE DEF t
  <2> QED BY <2>3
<1> HIDE DEF t
<1>2. Grows(s, t)
  BY <1>1 DEF Grows
<1>3. /\ \A c \in s.classes : ClassDoc(c, s, f)
      /\ \A p \in s.properties : PropertyDoc(p, s, f)
      /\ \A e \in s.edges \cup X : EdgeDoc(e, s, f)
      /\ \A k \in s.constraints : ConstraintDoc(k, s, f)
      /\ s.made \in Nat /\ OwnIds(s)
      /\ IsFiniteSet({k \in s.constraints : k.type = "owl:Restriction"})
  BY DEF StoreDocs
<1>4. /\ \A c : ClassDoc(c, s, f) => ClassDoc(c, t, f)
      /\ \A p : PropertyDoc(p, s, f) => PropertyDoc(p, t, f)
      /\ \A e : EdgeDoc(e, s, f) => EdgeDoc(e, t, f)
  <2>1. t.made \in Nat /\ s.made <= t.made
    BY <1>1, <1>3
  <2> QED BY <1>2, <1>3, <2>1, DocumentsLater
<1>5. \A k : ConstraintDoc(k, s, f) => ConstraintDoc(k, t, f)
  BY <1>1 DEF ConstraintDoc
<1>6. StoreDocs(t, f)
  BY <1>1, <1>3, <1>4, <1>5 DEF StoreDocs, StoreShaped, OwnIds
<1> QED BY <1>2, <1>6 DEF t

LEMMA AddConstraints ==
    ASSUME NEW s, NEW f, StoreDocs(s, f), NEW X, \A k \in X : ConstraintDoc(k, s, f),
           IsFiniteSet({k \in X : k.type = "owl:Restriction"})
    PROVE  LET t == [s EXCEPT !.constraints = s.constraints \cup X] IN StoreDocs(t, f) /\ Grows(s, t)
<1> DEFINE t == [s EXCEPT !.constraints = s.constraints \cup X]
<1>1. /\ t = [classes |-> s.classes, properties |-> s.properties, edges |-> s.edges,
              constraints |-> s.constraints \cup X, made |-> s.made]
      /\ t.classes = s.classes /\ t.properties = s.properties /\ t.edges = s.edges
      /\ t.constraints = s.constraints \cup X /\ t.made = s.made
  <2>1. StoreShaped(s)
    BY DEF StoreDocs
  <2>2. \A C : [s EXCEPT !.constraints = C]
            = [classes |-> s.classes, properties |-> s.properties, edges |-> s.edges, constraints |-> C, made |-> s.made]
    BY <2>1, Changed
  <2>3. t = [classes |-> s.classes, properties |-> s.properties, edges |-> s.edges,
             constraints |-> s.constraints \cup X, made |-> s.made]
    BY <2>2, Zenon
  <2> HIDE DEF t
  <2> QED BY <2>3
<1> HIDE DEF t
<1>2. Grows(s, t)
  BY <1>1 DEF Grows
<1>3. /\ \A c \in s.classes : ClassDoc(c, s, f)
      /\ \A p \in s.properties : PropertyDoc(p, s, f)
      /\ \A e \in s.edges : EdgeDoc(e, s, f)
      /\ \A k \in s.constraints \cup X : ConstraintDoc(k, s, f)
      /\ s.made \in Nat /\ OwnIds(s)
      /\ IsFiniteSet({k \in s.constraints : k.type = "owl:Restriction"})
  BY DEF StoreDocs
<1>4. /\ \A c : ClassDoc(c, s, f) => ClassDoc(c, t, f)
      /\ \A p : PropertyDoc(p, s, f) => PropertyDoc(p, t, f)
      /\ \A e : EdgeDoc(e, s, f) => EdgeDoc(e, t, f)
  <2>1. t.made \in Nat /\ s.made <= t.made
    BY <1>1, <1>3
  <2> QED BY <1>2, <1>3, <2>1, DocumentsLater
<1>5. \A k : ConstraintDoc(k, s, f) => ConstraintDoc(k, t, f)
  BY <1>1 DEF ConstraintDoc
<1>6. IsFiniteSet({k \in t.constraints : k.type = "owl:Restriction"})
  <2>1. PICK A : A = {k \in s.constraints : k.type = "owl:Restriction"}
    OBVIOUS
  <2>2. PICK B : B = {k \in X : k.type = "owl:Restriction"}
    OBVIOUS
  <2>3. {k \in t.constraints : k.type = "owl:Restriction"} = A \cup B
    BY <1>1, <2>1, <2>2
  <2>4. IsFiniteSet(A) /\ IsFiniteSet(B)
    BY <1>3, <2>1, <2>2
  <2>5. IsFiniteSet(A \cup B)
    BY <2>4, FS_Union
  <2> QED BY <2>3, <2>5
<1>7. StoreDocs(t, f)
  BY <1>1, <1>3, <1>4, <1>5, <1>6 DEF StoreDocs, StoreShaped, OwnIds
<1> QED BY <1>2, <1>7 DEF t

-----------------------------------------------------------------------------
(* The steps of an import.                                                  *)

LEMMA StepKeepsInv ==
    ASSUME ExchangeInv, UNCHANGED <<file, original>>, StoreDocs(store', file), Grows(store, store'),
           importJob' = [v \in Callers |-> importJob'[v]],
           \A v \in Callers : \/ importJob'[v] = importJob[v]
                              \/ JobDone(importJob'[v], store', file, original # {}),
           registered' => \/ registered
                          \/ /\ AllClasses(store', file) /\ AllProperties(store', file) /\ AllSubclasses(store', file)
                             /\ original # {} => AllRows(store', file),
           original # {} => faults' = faults
    PROVE  ExchangeInv'
<1>1. /\ AllClasses(store, file) => AllClasses(store', file)
      /\ AllProperties(store, file) => AllProperties(store', file)
      /\ AllSubclasses(store, file) => AllSubclasses(store', file)
      /\ AllRows(store, file) => AllRows(store', file)
      /\ \A j, again : JobDone(j, store, file, again) => JobDone(j, store', file, again)
  BY DoneStays
<1>2. \A v \in Callers : JobDone(importJob'[v], store', file, original # {})
  BY <1>1 DEF ExchangeInv
<1>3. registered' => AllClasses(store', file) /\ AllProperties(store', file) /\ AllSubclasses(store', file)
  BY <1>1 DEF ExchangeInv
<1>4. registered' /\ original # {} => AllRows(store', file)
  BY <1>1 DEF ExchangeInv
<1>5. original # {} => faults' = MaxFaults /\ FromExport(file, original)
  BY DEF ExchangeInv
<1>6. FileAssumption(file) /\ (OneRangeEach => OneRange(file))
  BY DEF ExchangeInv
<1> QED BY <1>2, <1>3, <1>4, <1>5, <1>6 DEF ExchangeInv

\* A job that has nothing to show yet.
LEMMA FreshJob ==
    ASSUME NEW s, NEW f, NEW again, NEW step \in {"idle", "upload", "parse"}, NEW via
    PROVE  JobDone(JobAt(step, via), s, f, again)
<1>1. JobAt(step, via) = [at |-> step, via |-> via, ids |-> <<>>, metas |-> {}]
  BY DEF JobAt
<1>2. JobAt(step, via) = [at |-> JobAt(step, via).at, via |-> JobAt(step, via).via, ids |-> JobAt(step, via).ids,
                          metas |-> JobAt(step, via).metas]
  BY <1>1
<1>3. JobAt(step, via).at = step
  BY <1>1
<1> QED BY <1>2, <1>3 DEF JobDone

LEMMA OneJobMoves ==
    ASSUME ExchangeInv, NEW w \in Callers, NEW j, importJob' = [importJob EXCEPT ![w] = j]
    PROVE  /\ importJob' = [v \in Callers |-> importJob'[v]] /\ importJob'[w] = j
           /\ \A v \in Callers : v # w => importJob'[v] = importJob[v]
<1>1. importJob = [v \in Callers |-> importJob[v]]
  BY DEF ExchangeInv
<1> QED BY <1>1

LEMMA SameStore ==
    ASSUME ExchangeInv, store' = store
    PROVE  StoreDocs(store', file) /\ Grows(store, store')
<1>1. StoreDocs(store, file)
  BY DEF ExchangeInv
<1> QED BY <1>1 DEF Grows

\* What is written before a call raises: documents of the file.
LEMMA RaisingStep ==
    ASSUME ExchangeInv, NEW w \in Callers, NEW draft, ImportRaises(w, draft),
           StoreDocs(draft, file), Grows(store, draft)
    PROVE  ExchangeInv'
<1>1. /\ UNCHANGED <<file, registered, original>> /\ faults < MaxFaults /\ store' = draft
      /\ importJob' = [importJob EXCEPT ![w] = NoJob]
  BY DEF ImportRaises
<1>2. /\ importJob' = [v \in Callers |-> importJob'[v]] /\ importJob'[w] = NoJob
      /\ \A v \in Callers : v # w => importJob'[v] = importJob[v]
  BY <1>1, OneJobMoves
<1>3. JobDone(NoJob, store', file, original # {})
  BY FreshJob DEF NoJob
<1>4. original = {}
  <2>1. original # {} => faults = MaxFaults
    BY DEF ExchangeInv
  <2> QED BY <1>1, <2>1, ExchangeAssumption
<1> QED BY <1>1, <1>2, <1>3, <1>4, StepKeepsInv

\* Steps that only bring a job forward.
LEMMA QuietSteps ==
    ASSUME ExchangeInv, NEW w \in Callers,
           RequestImport(w) \/ StartImport(w) \/ ImportCatalogEntry(w) \/ ParseFile(w)
    PROVE  ExchangeInv'
<1>1. UNCHANGED <<file, store, registered, original, faults>>
  BY DEF RequestImport, StartImport, ImportCatalogEntry, ParseFile
<1>2. PICK j : importJob' = [importJob EXCEPT ![w] = j] /\ JobDone(j, store, file, original # {})
  <2>1. CASE RequestImport(w)
    <3>1. importJob' = [importJob EXCEPT ![w] = JobAt("upload", "upload")]
      BY <2>1 DEF RequestImport
    <3> QED BY <3>1, FreshJob
  <2>2. CASE ImportCatalogEntry(w)
    <3>1. importJob' = [importJob EXCEPT ![w] = JobAt("parse", "catalog")]
      BY <2>2 DEF ImportCatalogEntry
    <3> QED BY <3>1, FreshJob
  <2>3. CASE StartImport(w) \/ ParseFile(w)
    <3>1. CASE importJob' = [importJob EXCEPT ![w] = NoJob]
      BY <3>1, FreshJob DEF NoJob
    <3>2. ASSUME NEW step \in {"parse", "classes"}, GoTo(w, step)
          PROVE  \E j : importJob' = [importJob EXCEPT ![w] = j] /\ JobDone(j, store, file, original # {})
      <4>1. PICK j : j = [at |-> step, via |-> importJob[w].via, ids |-> importJob[w].ids, metas |-> importJob[w].metas]
        OBVIOUS
      <4>2. importJob' = [importJob EXCEPT ![w] = j]
        BY <3>2, <4>1 DEF GoTo, Onward
      <4>3. j = [at |-> j.at, via |-> j.via, ids |-> j.ids, metas |-> j.metas] /\ j.at = step
        BY <4>1
      <4> QED BY <4>2, <4>3 DEF JobDone
    <3> QED BY <2>3, <3>1, <3>2 DEF StartImport, ParseFile
  <2> QED BY <2>1, <2>2, <2>3
<1>3. /\ importJob' = [v \in Callers |-> importJob'[v]] /\ importJob'[w] = j
      /\ \A v \in Callers : v # w => importJob'[v] = importJob[v]
  BY <1>2, OneJobMoves
<1>4. StoreDocs(store', file) /\ Grows(store, store')
  BY <1>1, SameStore
<1>5. \A v \in Callers : importJob'[v] = importJob[v] \/ JobDone(importJob'[v], store', file, original # {})
  BY <1>1, <1>2, <1>3
<1> QED BY <1>1, <1>3, <1>4, <1>5, StepKeepsInv

\* A job has written something and goes on.
LEMMA OnwardStep ==
    ASSUME ExchangeInv, NEW w \in Callers, NEW step, NEW ids, NEW metas, Onward(w, step, ids, metas),
           UNCHANGED <<file, registered, original>>, original # {} => faults' = faults,
           StoreDocs(store', file), Grows(store, store'),
           \A j : j.at = step /\ j.ids = ids /\ j.metas = metas
                  /\ j = [at |-> j.at, via |-> j.via, ids |-> j.ids, metas |-> j.metas]
                      => JobDone(j, store', file, original # {})
    PROVE  ExchangeInv'
<1>1. PICK j : j = [at |-> step, via |-> importJob[w].via, ids |-> ids, metas |-> metas]
  OBVIOUS
<1>2. importJob' = [importJob EXCEPT ![w] = j]
  BY <1>1 DEF Onward
<1>3. /\ importJob' = [v \in Callers |-> importJob'[v]] /\ importJob'[w] = j
      /\ \A v \in Callers : v # w => importJob'[v] = importJob[v]
  BY <1>2, OneJobMoves
<1>4. j.at = step /\ j.ids = ids /\ j.metas = metas
      /\ j = [at |-> j.at, via |-> j.via, ids |-> j.ids, metas |-> j.metas]
  BY <1>1
<1>5. JobDone(j, store', file, original # {})
  BY <1>4
<1>6. \A v \in Callers : importJob'[v] = importJob[v] \/ JobDone(importJob'[v], store', file, original # {})
  BY <1>3, <1>5
<1> QED BY <1>3, <1>6, StepKeepsInv

LEMMA MadeClasses ==
    ASSUME ExchangeInv, NEW n \in Nat
    PROVE  StoreDocs(WithClasses(n), file) /\ Grows(store, WithClasses(n))
<1> DEFINE X == ClassesMade(n)
           newest == store.made + Len(UriOrder)
<1>1. Len(UriOrder) \in Nat /\ store.made \in Nat /\ StoreDocs(store, file) /\ Wanted(file) \subseteq ToSet(UriOrder)
  BY ExchangeAssumption DEF ExchangeInv, StoreDocs, FileAssumption, Wanted
<1>2. \A c \in X : \E u \in Wanted(file) : c = [uri |-> u, id |-> store.made + Place(u), live |-> TRUE]
  BY DEF ClassesMade
<1>3. \A u \in Wanted(file) : Place(u) \in 1..Len(UriOrder) /\ UriOrder[Place(u)] = u
  BY <1>1, Places
<1>4. newest \in Nat /\ store.made <= newest
  BY <1>1
<1>5. ASSUME NEW c \in X
      PROVE  /\ c = [uri |-> c.uri, id |-> c.id, live |-> TRUE]
             /\ c.id \in store.made + 1..newest /\ c.uri \in Wanted(file)
  <2>1. PICK u \in Wanted(file) : c = [uri |-> u, id |-> store.made + Place(u), live |-> TRUE]
    BY <1>2
  <2>2. c.uri = u /\ c.id = store.made + Place(u)
    BY <2>1
  <2>3. Place(u) \in 1..Len(UriOrder)
    BY <1>3
  <2>4. c.id \in store.made + 1..newest
    BY <1>1, <2>2, <2>3
  <2> QED BY <2>1, <2>2, <2>4
<1>6. ASSUME NEW c \in X, NEW d \in X, c.id = d.id
      PROVE  c = d
  <2>1. PICK u \in Wanted(file) : c = [uri |-> u, id |-> store.made + Place(u), live |-> TRUE]
    BY <1>2
  <2>2. PICK v \in Wanted(file) : d = [uri |-> v, id |-> store.made + Place(v), live |-> TRUE]
    BY <1>2
  <2>3. Place(u) = Place(v)
    <3>1. store.made + Place(u) = store.made + Place(v)
      BY <1>6, <2>1, <2>2
    <3>2. Place(u) \in 1..Len(UriOrder) /\ Place(v) \in 1..Len(UriOrder)
      BY <1>3
    <3> QED BY <1>1, <3>1, <3>2
  <2>4. u = v
    BY <1>3, <2>3
  <2> QED BY <2>1, <2>2, <2>4
<1> HIDE DEF X, newest
<1>7. LET t == [store EXCEPT !.classes = store.classes \cup X, !.made = newest] IN StoreDocs(t, file) /\ Grows(store, t)
  BY <1>1, <1>4, <1>5, <1>6, AddClasses
<1>8. WithClasses(n) = [store EXCEPT !.classes = store.classes \cup X, !.made = newest]
  BY DEF WithClasses, X, newest
<1> QED BY <1>7, <1>8

LEMMA CreateClassesStep ==
    ASSUME ExchangeInv, NEW w \in Callers, CreateClasses(w)
    PROVE  ExchangeInv'
<1>0. Len(UriOrder) \in Nat
  BY ExchangeAssumption
<1>1. CASE \E n \in 0..Len(UriOrder) : ImportRaises(w, WithClasses(n))
  BY <1>0, <1>1, MadeClasses, RaisingStep
<1>2. CASE /\ store' = WithClasses(Len(UriOrder))
           /\ Onward(w, "properties", [u \in Wanted(file) |-> store.made + Place(u)], {})
           /\ UNCHANGED <<file, registered, jobStatus, imported, faults, edits, original>>
  <2>1. StoreDocs(store', file) /\ Grows(store, store')
    BY <1>0, <1>2, MadeClasses
  <2>2. Wanted(file) \subseteq ToSet(UriOrder) /\ StoreShaped(store)
    BY DEF ExchangeInv, StoreDocs, FileAssumption, Wanted
  <2>3. store'.classes = store.classes \cup ClassesMade(Len(UriOrder))
    <3>1. \A C, m : [store EXCEPT !.classes = C, !.made = m] =
              [classes |-> C, properties |-> store.properties, edges |-> store.edges,
               constraints |-> store.constraints, made |-> m]
      BY <2>2, Changed
    <3>2. WithClasses(Len(UriOrder)) =
              [classes |-> store.classes \cup ClassesMade(Len(UriOrder)), properties |-> store.properties,
               edges |-> store.edges, constraints |-> store.constraints, made |-> store.made + Len(UriOrder)]
      BY <3>1, Zenon DEF WithClasses
    <3> QED BY <1>2, <3>2
  <2>4. ASSUME NEW u \in Wanted(file)
        PROVE  \E c \in Live(store'.classes) : c.id = store.made + Place(u) /\ c.uri = u
    <3>1. PICK c : c = [uri |-> u, id |-> store.made + Place(u), live |-> TRUE]
      OBVIOUS
    <3>2. Place(u) <= Len(UriOrder)
      BY <1>0, <2>2, Places
    <3>3. c \in ClassesMade(Len(UriOrder))
      BY <3>1, <3>2 DEF ClassesMade
    <3>4. c.id = store.made + Place(u) /\ c.uri = u /\ c.live = TRUE
      BY <3>1
    <3> QED BY <2>3, <3>3, <3>4 DEF Live
  <2>5. AllClasses(store', file)
    BY <2>4 DEF AllClasses
  <2>6. ASSUME NEW j, j.at = "properties", j.ids = [u \in Wanted(file) |-> store.made + Place(u)],
               j = [at |-> j.at, via |-> j.via, ids |-> j.ids, metas |-> j.metas]
        PROVE  JobDone(j, store', file, original # {})
    <3>1. DOMAIN j.ids = Wanted(file) /\ \A u \in Wanted(file) : j.ids[u] = store.made + Place(u)
      BY <2>6
    <3>2. KnownIds(j, store', file)
      BY <2>4, <3>1 DEF KnownIds
    <3> QED BY <2>5, <2>6, <3>2 DEF JobDone
  <2> QED BY <1>2, <2>1, <2>6, OnwardStep
<1> QED BY <1>1, <1>2 DEF CreateClasses

LEMMA MadeProperties ==
    ASSUME ExchangeInv, NEW range \in PickedValues(file.ranges), NEW inverse, NEW n \in Nat
    PROVE  StoreDocs(WithProperties(range, inverse, n), file) /\ Grows(store, WithProperties(range, inverse, n))
<1> DEFINE X == PropertiesMade(range, inverse, n)
           newest == store.made + 2 * Len(UriOrder)
           Other(p) == IF p.uri \in DOMAIN inverse THEN inverse[p.uri] ELSE NoText
           doc(p) == [uri |-> p.uri, kind |-> p.kind, id |-> store.made + PropertyPlace(p), live |-> TRUE,
                      range |-> range[p].text, inverse |-> Other(p)]
<1>1. /\ Len(UriOrder) \in Nat /\ store.made \in Nat /\ StoreDocs(store, file)
      /\ file.properties \subseteq [uri : ToSet(UriOrder), kind : {"object", "datatype"}]
  BY ExchangeAssumption DEF ExchangeInv, StoreDocs, FileAssumption
<1>2. \A x \in X : \E p \in file.properties : x = doc(p)
  BY DEF PropertiesMade
<1>3. \A p, q \in file.properties :
          /\ PropertyPlace(p) \in 1..2 * Len(UriOrder)
          /\ PropertyPlace(p) = PropertyPlace(q) => p = q
          /\ p = [uri |-> p.uri, kind |-> p.kind]
  BY <1>1, PlacesDiffer
<1>4. newest \in Nat /\ store.made <= newest
  BY <1>1
<1>5. \A p \in file.properties : range[p] \in AnyValue(file.ranges, p.uri)
  <2> TAKE p \in file.properties
  <2> DEFINE options == [q \in file.properties |-> AnyValue(file.ranges, q.uri)]
  <2>1. range \in Selections(options) /\ p \in DOMAIN options /\ options[p] = AnyValue(file.ranges, p.uri)
    BY DEF PickedValues
  <2> HIDE DEF options
  <2> QED BY <2>1, Picked
<1>6. ASSUME NEW x \in X
      PROVE  /\ x = [uri |-> x.uri, kind |-> x.kind, id |-> x.id, live |-> x.live, range |-> x.range, inverse |-> x.inverse]
             /\ x.live = TRUE /\ x.id \in store.made + 1..newest
             /\ [uri |-> x.uri, kind |-> x.kind] \in file.properties
             /\ \E v \in AnyValue(file.ranges, x.uri) : x.range = v.text
  <2>1. PICK p \in file.properties : x = doc(p)
    BY <1>2
  <2> HIDE DEF Other
  <2>2. /\ x.uri = p.uri /\ x.kind = p.kind /\ x.id = store.made + PropertyPlace(p) /\ x.live = TRUE
        /\ x.range = range[p].text /\ x.inverse = Other(p)
    BY <2>1
  <2>3. x.id \in store.made + 1..newest
    BY <1>1, <1>3, <2>2
  <2>4. [uri |-> x.uri, kind |-> x.kind] \in file.properties
    BY <1>3, <2>2
  <2>5. x = [uri |-> x.uri, kind |-> x.kind, id |-> x.id, live |-> x.live, range |-> x.range, inverse |-> x.inverse]
    BY <2>1, <2>2
  <2> QED BY <1>5, <2>2, <2>3, <2>4, <2>5
<1>7. ASSUME NEW x \in X, NEW y \in X, x.id = y.id
      PROVE  x = y
  <2> HIDE DEF Other
  <2>1. PICK p \in file.properties : x = doc(p)
    BY <1>2
  <2>2. PICK q \in file.properties : y = doc(q)
    BY <1>2
  <2>3. store.made + PropertyPlace(p) = store.made + PropertyPlace(q)
    BY <1>7, <2>1, <2>2
  <2>4. PropertyPlace(p) \in 1..2 * Len(UriOrder) /\ PropertyPlace(q) \in 1..2 * Len(UriOrder)
    BY <1>3
  <2>5. PropertyPlace(p) = PropertyPlace(q)
    BY <1>1, <2>3, <2>4
  <2>6. p = q
    BY <1>3, <2>5
  <2> HIDE DEF doc
  <2> QED BY <2>1, <2>2, <2>6
<1> HIDE DEF X, newest
<1>8. LET t == [store EXCEPT !.properties = store.properties \cup X, !.made = newest] IN StoreDocs(t, file) /\ Grows(store, t)
  <2>1. \A x \in X : x = [uri |-> x.uri, kind |-> x.kind, id |-> x.id, live |-> x.live, range |-> x.range, inverse |-> x.inverse]
    BY <1>6
  <2>2. (\A x \in X : x.live = TRUE) /\ (\A x \in X : x.id \in store.made + 1..newest)
    BY <1>6
  <2>3. /\ \A x \in X : [uri |-> x.uri, kind |-> x.kind] \in file.properties
        /\ \A x \in X : \E v \in AnyValue(file.ranges, x.uri) : x.range = v.text
    BY <1>6
  <2>4. \A x, y \in X : x.id = y.id => x = y
    BY <1>7
  <2> QED BY <1>1, <1>4, <2>1, <2>2, <2>3, <2>4, AddProperties
<1>9. WithProperties(range, inverse, n) = [store EXCEPT !.properties = store.properties \cup X, !.made = newest]
  BY DEF WithProperties, X, newest
<1> QED BY <1>8, <1>9

LEMMA CreatePropertiesStep ==
    ASSUME ExchangeInv, NEW w \in Callers, CreateProperties(w)
    PROVE  ExchangeInv'
<1>0. Len(UriOrder) \in Nat
  BY ExchangeAssumption
<1>1. PICK domain \in PickedValues(file.domains), range \in PickedValues(file.ranges), inverse \in InverseIndexes(file.inverses) :
      LET meta(p) ==
              [from |-> Holder(p), kind |-> p.kind,
               domain |-> Attachment(domain[p], ValuesOf(file.softDomains, p.uri)),
               range |-> Attachment(range[p], ValuesOf(file.softRanges, p.uri))]
      IN \/ /\ store' = WithProperties(range, inverse, 2 * Len(UriOrder))
            /\ Onward(w, "edges", importJob[w].ids, {meta(p) : p \in file.properties})
            /\ UNCHANGED <<file, registered, jobStatus, imported, faults, edits, original>>
         \/ \E n \in 0..2 * Len(UriOrder) : ImportRaises(w, WithProperties(range, inverse, n))
  BY DEF CreateProperties
<1> DEFINE meta(p) ==
              [from |-> Holder(p), kind |-> p.kind,
               domain |-> Attachment(domain[p], ValuesOf(file.softDomains, p.uri)),
               range |-> Attachment(range[p], ValuesOf(file.softRanges, p.uri))]
           full == 2 * Len(UriOrder)
<1>2. CASE \E n \in 0..full : ImportRaises(w, WithProperties(range, inverse, n))
  <2>1. PICK n \in 0..full : ImportRaises(w, WithProperties(range, inverse, n))
    BY <1>2
  <2>2. n \in Nat
    BY <1>0
  <2>3. StoreDocs(WithProperties(range, inverse, n), file) /\ Grows(store, WithProperties(range, inverse, n))
    BY <2>2, MadeProperties
  <2> QED BY <2>1, <2>3, RaisingStep
<1>3. CASE /\ store' = WithProperties(range, inverse, full)
           /\ Onward(w, "edges", importJob[w].ids, {meta(p) : p \in file.properties})
           /\ UNCHANGED <<file, registered, jobStatus, imported, faults, edits, original>>
  <2>1. StoreDocs(store', file) /\ Grows(store, store')
    BY <1>0, <1>3, MadeProperties
  <2>2. /\ file.properties \subseteq [uri : ToSet(UriOrder), kind : {"object", "datatype"}]
        /\ StoreShaped(store) /\ importJob[w].at = "properties" /\ JobDone(importJob[w], store, file, original # {})
    BY DEF ExchangeInv, StoreDocs, FileAssumption, CreateProperties, AtStep
  <2>3. store'.properties = store.properties \cup PropertiesMade(range, inverse, full)
    <3>1. \A C, m : [store EXCEPT !.properties = C, !.made = m] =
              [classes |-> store.classes, properties |-> C, edges |-> store.edges,
               constraints |-> store.constraints, made |-> m]
      BY <2>2, Changed
    <3>2. WithProperties(range, inverse, full) =
              [classes |-> store.classes, properties |-> store.properties \cup PropertiesMade(range, inverse, full),
               edges |-> store.edges, constraints |-> store.constraints, made |-> store.made + 2 * Len(UriOrder)]
      BY <3>1, Zenon DEF WithProperties
    <3> QED BY <1>3, <3>2
  <2>4. ASSUME NEW p \in file.properties
        PROVE  \E x \in Live(store'.properties) : x.id = store.made + PropertyPlace(p) /\ x.uri = p.uri /\ x.kind = p.kind
    <3>1. PICK x : x = [uri |-> p.uri, kind |-> p.kind, id |-> store.made + PropertyPlace(p), live |-> TRUE,
                        range |-> range[p].text,
                        inverse |-> IF p.uri \in DOMAIN inverse THEN inverse[p.uri] ELSE NoText]
      OBVIOUS
    <3>2. PropertyPlace(p) <= full
      BY <1>0, <2>2, PlacesDiffer
    <3>3. x \in PropertiesMade(range, inverse, full)
      BY <3>1, <3>2 DEF PropertiesMade
    <3>4. x.id = store.made + PropertyPlace(p) /\ x.uri = p.uri /\ x.kind = p.kind /\ x.live = TRUE
      BY <3>1
    <3> QED BY <2>3, <3>3, <3>4 DEF Live
  <2>5. AllProperties(store', file)
    BY <2>4 DEF AllProperties
  <2>6. ASSUME NEW p \in file.properties
        PROVE  \E x \in Live(store'.properties) : x.id = Holder(p) /\ x.uri = p.uri
    <3>1. PICK last : last = [p EXCEPT !.kind = "datatype"]
      OBVIOUS
    <3>2. last.uri = p.uri
      BY <2>2, <3>1
    <3>3. Holder(p) = store.made + PropertyPlace(IF last \in file.properties THEN last ELSE p)
      BY <3>1 DEF Holder
    <3> QED BY <2>4, <3>2, <3>3
  <2>7. ASSUME NEW p \in file.properties, meta(p).range.assertion = "rdfs"
        PROVE  \E x \in Live(store'.properties), e \in file.ranges :
                   x.id = meta(p).from /\ e[1] = x.uri /\ meta(p).range.uris = {e[2].text}
    <3> DEFINE options == [q \in file.properties |-> AnyValue(file.ranges, q.uri)]
    <3>1. range \in Selections(options) /\ p \in DOMAIN options /\ options[p] = AnyValue(file.ranges, p.uri)
      BY DEF PickedValues
    <3> HIDE DEF options
    <3>2. range[p] \in AnyValue(file.ranges, p.uri)
      BY <3>1, Picked
    <3>3. /\ meta(p).from = Holder(p)
          /\ meta(p).range = Attachment(range[p], ValuesOf(file.softRanges, p.uri))
      OBVIOUS
    <3>4. range[p] # NoTerm /\ meta(p).range.uris = {range[p].text}
      <4>1. Attachment(range[p], ValuesOf(file.softRanges, p.uri)).assertion = "rdfs"
        BY <2>7, <3>3
      <4>2. range[p] # NoTerm
        BY <4>1 DEF Attachment
      <4> QED BY <3>3, <4>2 DEF Attachment
    <3>5. PICK e \in file.ranges : e[1] = p.uri /\ e[2] = range[p]
      BY <3>2, <3>4 DEF AnyValue, ValuesOf
    <3>6. PICK x \in Live(store'.properties) : x.id = Holder(p) /\ x.uri = p.uri
      BY <2>6
    <3> QED BY <3>3, <3>4, <3>5, <3>6
  <2> HIDE DEF meta
  <2>8. KnownIds(importJob[w], store', file) /\ AllClasses(store', file)
    <3>1. JobDone(importJob[w], store', file, original # {})
      BY <2>1, <2>2, DoneStays
    <3> QED BY <2>2, <3>1 DEF JobDone
  <2>9. ASSUME NEW j, j.at = "edges", j.ids = importJob[w].ids, j.metas = {meta(p) : p \in file.properties},
               j = [at |-> j.at, via |-> j.via, ids |-> j.ids, metas |-> j.metas]
        PROVE  JobDone(j, store', file, original # {})
    <3>1. KnownIds(j, store', file)
      BY <2>8, <2>9 DEF KnownIds
    <3>2. KnownRanges(j, store', file)
      BY <2>7, <2>9 DEF KnownRanges
    <3> QED BY <2>5, <2>8, <2>9, <3>1, <3>2 DEF JobDone
  <2> QED BY <1>3, <2>1, <2>9, OnwardStep
<1> QED BY <1>1, <1>2, <1>3

\* The edges of a job come from the file.
LEMMA JobEdges ==
    ASSUME ExchangeInv, NEW w \in Callers, importJob[w].at = "edges", NEW x \in EdgesOf(importJob[w])
    PROVE  EdgeDoc(x, store, file)
<1> DEFINE job == importJob[w]
<1>1. KnownIds(job, store, file) /\ KnownRanges(job, store, file)
  BY DEF ExchangeInv, JobDone
<1>2. /\ \A e \in file.subclass : e = <<e[1], e[2]>>
      /\ \A e \in file.ranges : e[2].text \in file.declared => e = <<e[1], Iri(e[2].text)>>
  BY DEF ExchangeInv, FileAssumption
<1>3. ASSUME NEW t, NEW from, NEW to, NEW assertion, x = Edge(t, from, to, assertion)
      PROVE  x = Edge(x.type, x.from, x.to, x.assertion) /\ x.type = t /\ x.from = from /\ x.to = to /\ x.assertion = assertion
  BY <1>3 DEF Edge
<1>4. CASE \E e \in file.subclass : {e[1], e[2]} \subseteq DOMAIN job.ids
                                   /\ x = Edge("subclass_of", job.ids[e[1]], job.ids[e[2]], NoText)
  <2>1. PICK e \in file.subclass : /\ {e[1], e[2]} \subseteq DOMAIN job.ids
                                   /\ x = Edge("subclass_of", job.ids[e[1]], job.ids[e[2]], NoText)
    BY <1>4
  <2>2. PICK c \in Live(store.classes) : c.id = job.ids[e[1]] /\ c.uri = e[1]
    BY <1>1, <2>1 DEF KnownIds
  <2>3. PICK d \in Live(store.classes) : d.id = job.ids[e[2]] /\ d.uri = e[2]
    BY <1>1, <2>1 DEF KnownIds
  <2>4. x = Edge(x.type, x.from, x.to, x.assertion) /\ x.type = "subclass_of" /\ x.from = job.ids[e[1]] /\ x.to = job.ids[e[2]]
    BY SMTT(40), <1>3, <2>1
  <2>5. <<c.uri, d.uri>> \in file.subclass
    BY <1>2, <2>1, <2>2, <2>3
  <2> QED BY <2>2, <2>3, <2>4, <2>5 DEF EdgeDoc
<1>5. CASE \E m \in job.metas : \E u \in m.domain.uris \cap DOMAIN job.ids :
               x = Edge("rdfs_domain", m.from, job.ids[u], m.domain.assertion)
  <2>1. PICK from, to, assertion : x = Edge("rdfs_domain", from, to, assertion)
    BY <1>5
  <2>2. x = Edge(x.type, x.from, x.to, x.assertion) /\ x.type = "rdfs_domain"
    BY <1>3, <2>1
  <2> QED BY <2>2 DEF EdgeDoc
<1>6. CASE \E m \in job.metas : \E u \in m.range.uris \cap DOMAIN job.ids :
               x = Edge("rdfs_range_class", m.from, job.ids[u], m.range.assertion)
  <2>1. PICK m \in job.metas : \E u \in m.range.uris \cap DOMAIN job.ids :
               x = Edge("rdfs_range_class", m.from, job.ids[u], m.range.assertion)
    BY <1>6
  <2>2. PICK u \in m.range.uris \cap DOMAIN job.ids : x = Edge("rdfs_range_class", m.from, job.ids[u], m.range.assertion)
    BY <2>1
  <2>3. /\ x = Edge(x.type, x.from, x.to, x.assertion) /\ x.type = "rdfs_range_class"
        /\ x.from = m.from /\ x.to = job.ids[u] /\ x.assertion = m.range.assertion
    BY <1>3, <2>2
  <2>4. ASSUME x.assertion = "rdfs"
        PROVE  \E p \in Live(store.properties), c \in Live(store.classes) :
                   x.from = p.id /\ x.to = c.id /\ <<p.uri, Iri(c.uri)>> \in file.ranges
    <3>1. m.range.assertion = "rdfs"
      BY <2>3, <2>4
    <3>2. PICK p \in Live(store.properties), e \in file.ranges : p.id = m.from /\ e[1] = p.uri /\ m.range.uris = {e[2].text}
      BY <1>1, <3>1 DEF KnownRanges
    <3>3. PICK c \in Live(store.classes) : c.id = job.ids[u] /\ c.uri = u
      BY <1>1, <2>2 DEF KnownIds
    <3>4. u = e[2].text /\ u \in Wanted(file)
      BY <1>1, <2>2, <3>2 DEF KnownIds
    <3>5. e = <<e[1], Iri(e[2].text)>>
      BY <1>2, <3>4 DEF Wanted
    <3>6. <<p.uri, Iri(c.uri)>> \in file.ranges
      BY <3>2, <3>3, <3>4, <3>5
    <3> QED BY <2>3, <3>2, <3>3, <3>6
  <2> QED BY <2>3, <2>4 DEF EdgeDoc
<1> DEFINE Domains(m) == {Edge("rdfs_domain", m.from, job.ids[u], m.domain.assertion) : u \in m.domain.uris \cap DOMAIN job.ids}
           Ranges(m) == {Edge("rdfs_range_class", m.from, job.ids[u], m.range.assertion) : u \in m.range.uris \cap DOMAIN job.ids}
           Links == {Edge("subclass_of", job.ids[e[1]], job.ids[e[2]], NoText) :
                        e \in {d \in file.subclass : {d[1], d[2]} \subseteq DOMAIN job.ids}}
           DomainEdges == UNION {Domains(m) : m \in job.metas}
           RangeEdges == UNION {Ranges(m) : m \in {n \in job.metas : n.kind = "object"}}
<1>7. x \in Links \/ x \in DomainEdges \/ x \in RangeEdges
  <2>1. EdgesOf(job) = Links \cup DomainEdges \cup RangeEdges
    BY Zenon DEF EdgesOf
  <2> HIDE DEF Links, DomainEdges, RangeEdges
  <2> QED BY <2>1
<1>8. CASE x \in DomainEdges
  <2>1. PICK m \in job.metas : x \in Domains(m)
    BY <1>8
  <2>2. \E u \in m.domain.uris \cap DOMAIN job.ids : x = Edge("rdfs_domain", m.from, job.ids[u], m.domain.assertion)
    BY <2>1
  <2> QED BY <1>5, <2>2
<1>9. CASE x \in RangeEdges
  <2>1. PICK m \in job.metas : x \in Ranges(m)
    BY <1>9
  <2>2. \E u \in m.range.uris \cap DOMAIN job.ids : x = Edge("rdfs_range_class", m.from, job.ids[u], m.range.assertion)
    BY <2>1
  <2> QED BY <1>6, <2>2
<1>10. CASE x \in Links
  <2>1. \E e \in file.subclass : {e[1], e[2]} \subseteq DOMAIN job.ids
                                 /\ x = Edge("subclass_of", job.ids[e[1]], job.ids[e[2]], NoText)
    BY <1>10
  <2> QED BY <1>4, <2>1
<1> QED BY <1>7, <1>8, <1>9, <1>10

LEMMA CreateEdgesStep ==
    ASSUME ExchangeInv, NEW w \in Callers, CreateEdges(w)
    PROVE  ExchangeInv'
<1> DEFINE job == importJob[w]
           new == EdgesOf(job)
<1>1. job.at = "edges" /\ StoreDocs(store, file) /\ JobDone(job, store, file, original # {})
  BY DEF CreateEdges, AtStep, ExchangeInv
<1>2. ASSUME NEW X \in SUBSET new
      PROVE  LET t == [store EXCEPT !.edges = store.edges \cup X] IN StoreDocs(t, file) /\ Grows(store, t)
  <2>1. \A x \in X : EdgeDoc(x, store, file)
    BY <1>1, JobEdges
  <2> QED BY <1>1, <2>1, AddEdges
<1>3. CASE \E X \in SUBSET new : ImportRaises(w, [store EXCEPT !.edges = store.edges \cup X])
  <2>1. PICK X \in SUBSET new : ImportRaises(w, [store EXCEPT !.edges = store.edges \cup X])
    BY <1>3
  <2>2. StoreDocs([store EXCEPT !.edges = store.edges \cup X], file) /\ Grows(store, [store EXCEPT !.edges = store.edges \cup X])
    BY <1>2
  <2> QED BY <2>1, <2>2, RaisingStep
<1>4. CASE /\ store' = [store EXCEPT !.edges = store.edges \cup new]
           /\ GoTo(w, "restrictions")
           /\ UNCHANGED <<file, registered, jobStatus, imported, faults, edits, original>>
  <2>1. StoreDocs(store', file) /\ Grows(store, store')
    BY <1>2, <1>4
  <2>2. StoreShaped(store)
    BY <1>1 DEF StoreDocs
  <2>3. store'.edges = store.edges \cup new
    <3>1. \A C : [store EXCEPT !.edges = C] =
              [classes |-> store.classes, properties |-> store.properties, edges |-> C,
               constraints |-> store.constraints, made |-> store.made]
      BY <2>2, Changed
    <3> HIDE DEF new
    <3>2. [store EXCEPT !.edges = store.edges \cup new] =
              [classes |-> store.classes, properties |-> store.properties, edges |-> store.edges \cup new,
               constraints |-> store.constraints, made |-> store.made]
      BY <3>1, Zenon
    <3> QED BY <1>4, <3>2
  <2>4. JobDone(job, store', file, original # {})
    BY <1>1, <2>1, DoneStays
  <2>5. KnownIds(job, store', file) /\ AllClasses(store', file) /\ AllProperties(store', file)
    BY <1>1, <2>4 DEF JobDone
  <2>6. AllSubclasses(store', file)
    <3> SUFFICES ASSUME NEW e \in file.subclass, {e[1], e[2]} \subseteq Wanted(file)
                 PROVE  Linked(store', e[1], e[2])
      BY DEF AllSubclasses
    <3>1. PICK c \in Live(store'.classes) : c.id = job.ids[e[1]] /\ c.uri = e[1]
      BY <2>5 DEF KnownIds
    <3>2. PICK d \in Live(store'.classes) : d.id = job.ids[e[2]] /\ d.uri = e[2]
      BY <2>5 DEF KnownIds
    <3>3. {e[1], e[2]} \subseteq DOMAIN job.ids
      BY <2>5 DEF KnownIds
    <3>4. PICK x : x = Edge("subclass_of", job.ids[e[1]], job.ids[e[2]], NoText)
      OBVIOUS
    <3>5. x \in new
      BY <3>3, <3>4 DEF EdgesOf
    <3>6. x.type = "subclass_of" /\ x.from = c.id /\ x.to = d.id
      BY <3>1, <3>2, <3>4 DEF Edge
    <3>7. x \in store'.edges
      BY <2>3, <3>5
    <3> QED BY <3>1, <3>2, <3>6, <3>7 DEF Linked
  <2>7. ASSUME NEW j, j.at = "restrictions", j = [at |-> j.at, via |-> j.via, ids |-> j.ids, metas |-> j.metas]
        PROVE  JobDone(j, store', file, original # {})
    BY <2>5, <2>6, <2>7 DEF JobDone
  <2>8. Onward(w, "restrictions", job.ids, job.metas)
    BY <1>4 DEF GoTo
  <2> QED BY <1>4, <2>1, <2>7, <2>8, OnwardStep
<1> QED BY <1>3, <1>4 DEF CreateEdges

-----------------------------------------------------------------------------
(* The constraints.                                                         *)

LEMMA ShapeRowTypes ==
    ASSUME NEW f
    PROVE  /\ \A r \in ShapeRows(f) : r.type = "sh:PropertyShape"
           /\ f.shapes = {} => ShapeRows(f) = {}
BY DEF ShapeRows, RowOf

\* The property a row is tied to.
LEMMA TiedProperty ==
    ASSUME ExchangeInv, AllProperties(store, file), NEW uri, NEW id \in PropertyIds(uri)
    PROVE  /\ id \in 0..store.made
           /\ \A p \in Live(store.properties) : p.id = id => p.uri = uri
           /\ id = 0 <=> ~(\E q \in file.properties : q.uri = uri)
<1>1. /\ store.made \in Nat /\ OwnIds(store)
      /\ \A p \in store.properties : PropertyDoc(p, store, file)
      /\ file.properties \subseteq [uri : ToSet(UriOrder), kind : {"object", "datatype"}]
  BY DEF ExchangeInv, StoreDocs, FileAssumption
<1>2. \A p \in Live(store.properties) :
          p \in store.properties /\ p.id \in 1..store.made /\ [uri |-> p.uri, kind |-> p.kind] \in file.properties
  BY <1>1 DEF Live, PropertyDoc
<1>3. \A p \in Live(store.properties) : p.kind \in {"object", "datatype"}
  <2> TAKE p \in Live(store.properties)
  <2>1. PICK q \in file.properties : q = [uri |-> p.uri, kind |-> p.kind]
    BY <1>2
  <2> QED BY <1>1, <2>1
<1>4. CASE \E p \in Live(store.properties) : p.uri = uri
  <2>1. PICK x \in Live(store.properties) : x.uri = uri /\ id = x.id
    BY <1>3, <1>4 DEF PropertyIds
  <2>2. \E q \in file.properties : q.uri = uri
    <3>1. PICK q \in file.properties : q = [uri |-> x.uri, kind |-> x.kind]
      BY <1>2, <2>1
    <3> QED BY <2>1, <3>1
  <2>3. id \in 1..store.made
    BY <1>2, <2>1
  <2>4. \A p \in Live(store.properties) : p.id = id => p = x
    BY <1>1, <1>2, <2>1 DEF OwnIds
  <2> QED BY <1>1, <2>1, <2>2, <2>3, <2>4
<1>5. CASE ~(\E p \in Live(store.properties) : p.uri = uri)
  <2>1. id = 0
    BY <1>5 DEF PropertyIds
  <2>2. ~(\E q \in file.properties : q.uri = uri)
    BY <1>5 DEF AllProperties
  <2>3. ASSUME NEW p \in Live(store.properties)
        PROVE  p.id # 0
    <3>1. p.id \in 1..store.made
      BY <1>2
    <3> QED BY <1>1, <3>1
  <2> QED BY <1>1, <2>1, <2>2, <2>3
<1> QED BY <1>4, <1>5

\* Rows of the file, as constraints of the store.
LEMMA RowConstraint ==
    ASSUME ExchangeInv, AllProperties(store, file), NEW row, row \in OwlRows(file) \/ row \in ShapeRows(file),
           NEW class \in ClassIds(row.class), NEW property \in PropertyIds(row.uri)
    PROVE  ConstraintDoc(Constraint(row, class, property), store, file)
<1> DEFINE k == Constraint(row, class, property)
<1>1. /\ k.type = row.type /\ k.on = class /\ k.property = property /\ k.uri = row.uri /\ k.kind = row.kind
      /\ k.value = row.value
  BY DEF Constraint
<1> HIDE DEF k
<1>2. OwnIds(store) /\ \A c \in store.classes : ClassDoc(c, store, file)
  BY DEF ExchangeInv, StoreDocs
<1>3. PICK c \in Live(store.classes) : c.uri = row.class /\ class = c.id
  BY DEF ClassIds
<1>4. k.on \in 1..store.made
  BY <1>1, <1>2, <1>3 DEF ClassDoc, Live
<1>5. /\ k.property \in 0..store.made
      /\ \A p \in Live(store.properties) : p.id = k.property => p.uri = k.uri
      /\ k.property = 0 <=> ~(\E q \in file.properties : q.uri = k.uri)
  BY <1>1, TiedProperty
<1>6. ASSUME k.type = "owl:Restriction", NEW d \in Live(store.classes), d.id = k.on
      PROVE  RowOf("owl:Restriction", d.uri, k.uri, k.kind, k.value, NoText) \in OwlRows(file)
  <2>1. d = c
    BY <1>1, <1>2, <1>3, <1>6 DEF OwnIds, Live
  <2>2. row \in OwlRows(file)
    <3>1. \A r \in ShapeRows(file) : r.type = "sh:PropertyShape"
      BY ShapeRowTypes
    <3> QED BY <1>1, <1>6, <3>1
  <2>3. row = RowOf("owl:Restriction", row.class, row.uri, row.kind, row.value, NoText)
    BY <2>2, RowsOfFile
  <2>4. d.uri = row.class /\ k.uri = row.uri /\ k.kind = row.kind /\ k.value = row.value
    BY <1>1, <1>3, <2>1
  <2> HIDE DEF k
  <2> QED BY <2>2, <2>3, <2>4
<1>7. ConstraintDoc(k, store, file)
  BY <1>4, <1>5, <1>6 DEF ConstraintDoc
<1> QED BY <1>7 DEF k

LEMMA ImportConstraintsStep ==
    ASSUME ExchangeInv, NEW w \in Callers, NEW step, NEW due, NEW next, ImportConstraints(w, step, due, next),
           \/ step = "restrictions" /\ due = OwlRows(file) /\ next = "shapes"
           \/ step = "shapes" /\ due = ShapeRows(file) /\ next = "register"
    PROVE  ExchangeInv'
<1> DEFINE job == importJob[w]
           known == {r \in due : ClassIds(r.class) # {}}
           classes == [u \in {r.class : r \in known} |-> ClassIds(u)]
           properties == [u \in {r.uri : r \in known} |-> PropertyIds(u)]
<1>1. /\ job.at = step /\ StoreDocs(store, file) /\ JobDone(job, store, file, original # {})
      /\ GoTo(w, next) /\ UNCHANGED <<file, registered, jobStatus, imported, edits, original>>
  BY DEF ImportConstraints, AtStep, ExchangeInv
<1>2. AllClasses(store, file) /\ AllProperties(store, file) /\ AllSubclasses(store, file)
  BY <1>1 DEF JobDone
<1>3. PICK classOf \in Selections(classes), propertyOf \in Selections(properties), refused \in SUBSET known :
          /\ Cardinality(refused) <= MaxFaults - faults
          /\ store' = [store EXCEPT !.constraints = store.constraints \cup
                 {Constraint(r, classOf[r.class], propertyOf[r.uri]) : r \in known \ refused}]
          /\ faults' = faults + Cardinality(refused)
  BY DEF ImportConstraints
<1>4. \A r \in known : classOf[r.class] \in ClassIds(r.class) /\ propertyOf[r.uri] \in PropertyIds(r.uri)
  <2> TAKE r \in known
  <2>1. r.class \in DOMAIN classes /\ classes[r.class] = ClassIds(r.class)
    OBVIOUS
  <2>2. r.uri \in DOMAIN properties /\ properties[r.uri] = PropertyIds(r.uri)
    OBVIOUS
  <2> HIDE DEF classes, properties
  <2> QED BY <2>1, <2>2, Picked
<1> HIDE DEF classes, properties
<1>5. StoreDocs(store', file) /\ Grows(store, store')
  <2>1. PICK some : some = known \ refused
    OBVIOUS
  <2>2. \A r \in some : classOf[r.class] \in ClassIds(r.class) /\ propertyOf[r.uri] \in PropertyIds(r.uri)
    BY <1>4, <2>1
  <2>3. some \subseteq OwlRows(file) \/ some \subseteq ShapeRows(file)
    BY <2>1
  <2>4. PICK X : X = {Constraint(r, classOf[r.class], propertyOf[r.uri]) : r \in some}
    OBVIOUS
  <2>5. \A x \in X : \E r \in some : x = Constraint(r, classOf[r.class], propertyOf[r.uri])
    BY <2>4
  <2> DEFINE k(r) == Constraint(r, classOf[r.class], propertyOf[r.uri])
  <2>6. \A x \in X : ConstraintDoc(x, store, file)
    <3> TAKE x \in X
    <3>1. PICK r \in some : x = k(r)
      BY <2>5
    <3>2. r \in OwlRows(file) \/ r \in ShapeRows(file)
      BY <2>3
    <3> QED BY <1>2, <2>2, <3>1, <3>2, RowConstraint
  <2>7. IsFiniteSet({x \in X : x.type = "owl:Restriction"})
    <3> DEFINE g == [r \in OwlRows(file) |-> k(r)]
    <3>1. IsFiniteSet(OwlRows(file))
      BY RowsAreFinite DEF ExchangeInv, FileAssumption
    <3>2. ASSUME NEW x \in X, x.type = "owl:Restriction"
          PROVE  \E r \in OwlRows(file) : g[r] = x
      <4>1. PICK r \in some : x = k(r)
        BY <2>5
      <4>2. r.type = "owl:Restriction"
        BY <3>2, <4>1 DEF Constraint
      <4>3. r \in OwlRows(file)
        BY <2>3, <4>2, ShapeRowTypes
      <4> QED BY <4>1, <4>3
    <3>3. DOMAIN g = OwlRows(file)
      OBVIOUS
    <3>4. \A x \in {y \in X : y.type = "owl:Restriction"} : \E r \in OwlRows(file) : g[r] = x
      BY <3>2
    <3> HIDE DEF g
    <3> QED BY <3>1, <3>3, <3>4, FiniteImage
  <2>8. LET t == [store EXCEPT !.constraints = store.constraints \cup X] IN StoreDocs(t, file) /\ Grows(store, t)
    BY <1>1, <2>6, <2>7, AddConstraints
  <2>9. store' = [store EXCEPT !.constraints = store.constraints \cup X]
    BY <1>3, <2>1, <2>4
  <2> QED BY <2>8, <2>9
<1>6. ASSUME original # {}, IsFiniteSet(due)
      PROVE  refused = {}
  <2>1. faults = MaxFaults /\ MaxFaults \in Nat
    BY <1>6, ExchangeAssumption DEF ExchangeInv
  <2>2. IsFiniteSet(refused)
    BY <1>6, FS_Subset
  <2>3. Cardinality(refused) \in Nat
    BY <2>2, FS_CardinalityType
  <2>4. Cardinality(refused) = 0
    BY <1>3, <2>1, <2>3
  <2> QED BY <2>2, <2>4, FS_EmptySet
<1>7. original # {} => IsFiniteSet(due)
  <2>1. IsFiniteSet(OwlRows(file))
    BY RowsAreFinite DEF ExchangeInv, FileAssumption
  <2>2. original # {} => ShapeRows(file) = {}
    BY ShapeRowTypes DEF ExchangeInv, FromExport
  <2> QED BY <2>1, <2>2, FS_EmptySet
<1>8. original # {} => faults' = faults
  <2> HAVE original # {}
  <2>1. refused = {}
    BY <1>6, <1>7
  <2>2. faults = MaxFaults /\ MaxFaults \in Nat /\ Cardinality(refused) = 0
    BY <2>1, ExchangeAssumption, FS_EmptySet DEF ExchangeInv
  <2> QED BY <1>3, <2>2
<1>9. JobDone(job, store', file, original # {})
  BY <1>1, <1>5, DoneStays
<1>10. ASSUME original # {}, step = "restrictions"
       PROVE  AllRows(store', file)
  <2> SUFFICES ASSUME NEW r \in OwlRows(file)
               PROVE  \E k \in store'.constraints, c \in Live(store'.classes) :
                          k.type = "owl:Restriction" /\ k.on = c.id /\ c.uri = r.class
                          /\ k.uri = r.uri /\ k.kind = r.kind /\ k.value = r.value
    BY DEF AllRows
  <2>1. r = RowOf("owl:Restriction", r.class, r.uri, r.kind, r.value, NoText) /\ r.class \in file.declared
    BY RowsOfFile
  <2>2. r.type = "owl:Restriction"
    <3>1. RowOf("owl:Restriction", r.class, r.uri, r.kind, r.value, NoText).type = "owl:Restriction"
      BY DEF RowOf
    <3> QED BY <2>1, <3>1
  <2>3. due = OwlRows(file) /\ refused = {}
    BY <1>6, <1>7, <1>10
  <2>4. \E c \in Live(store.classes) : c.uri = r.class
    <3>1. file.declared = Wanted(file)
      BY <1>10 DEF ExchangeInv, FromExport
    <3> QED BY <1>2, <2>1, <3>1 DEF AllClasses
  <2>5. r \in known
    BY <2>3, <2>4 DEF ClassIds
  <2>6. PICK c \in Live(store.classes) : c.uri = r.class /\ classOf[r.class] = c.id
    BY <1>4, <2>5 DEF ClassIds
  <2>7. PICK k : k = Constraint(r, classOf[r.class], propertyOf[r.uri])
    OBVIOUS
  <2>8. k.type = r.type /\ k.on = classOf[r.class] /\ k.uri = r.uri /\ k.kind = r.kind /\ k.value = r.value
    BY <2>7 DEF Constraint
  <2>9. k \in store'.constraints
    <3> DEFINE X == {Constraint(q, classOf[q.class], propertyOf[q.uri]) : q \in known \ refused}
    <3>1. k \in X
      BY <2>3, <2>5, <2>7
    <3>2. StoreShaped(store)
      BY <1>1 DEF StoreDocs
    <3>3. \A C : [store EXCEPT !.constraints = C] =
              [classes |-> store.classes, properties |-> store.properties, edges |-> store.edges,
               constraints |-> C, made |-> store.made]
      BY <3>2, Changed
    <3>4. store' = [store EXCEPT !.constraints = store.constraints \cup X]
      BY <1>3
    <3> HIDE DEF X
    <3>5. store' = [classes |-> store.classes, properties |-> store.properties, edges |-> store.edges,
               constraints |-> store.constraints \cup X, made |-> store.made]
      BY <3>3, <3>4, Zenon
    <3> QED BY <3>1, <3>5
  <2>10. c \in Live(store'.classes)
    BY <1>5 DEF Grows, Live
  <2> QED BY <2>2, <2>6, <2>8, <2>9, <2>10
<1>11. AllClasses(store', file) /\ AllProperties(store', file) /\ AllSubclasses(store', file)
  BY <1>2, <1>5, DoneStays
<1>12. original # {} => AllRows(store', file)
  BY <1>1, <1>9, <1>10 DEF JobDone
<1>13. ASSUME NEW j, j.at = next, j = [at |-> j.at, via |-> j.via, ids |-> j.ids, metas |-> j.metas]
       PROVE  JobDone(j, store', file, original # {})
  <2>1. j.at \in {"shapes", "register"}
    BY <1>13
  <2> QED BY <1>11, <1>12, <1>13, <2>1 DEF JobDone
<1>14. Onward(w, next, job.ids, job.metas)
  BY <1>1 DEF GoTo
<1> QED BY <1>1, <1>5, <1>8, <1>13, <1>14, OnwardStep

\* The entry in the registry, and the death of the process.
LEMMA LastSteps ==
    ASSUME ExchangeInv, (\E w \in Callers : Register(w)) \/ ImporterDies
    PROVE  ExchangeInv'
<1>1. UNCHANGED <<file, store, original>>
  BY DEF Register, ImporterDies
<1>2. StoreDocs(store', file) /\ Grows(store, store')
  BY <1>1, SameStore
<1>3. \A v \in Callers : JobDone(NoJob, store', file, original # {})
  BY FreshJob DEF NoJob
<1>4. CASE \E w \in Callers : Register(w)
  <2>1. PICK w \in Callers : Register(w)
    BY <1>4
  <2>2. importJob' = [importJob EXCEPT ![w] = NoJob] /\ faults' = faults /\ importJob[w].at = "register"
    BY <2>1 DEF Register, AtStep
  <2>3. /\ importJob' = [v \in Callers |-> importJob'[v]] /\ importJob'[w] = NoJob
        /\ \A v \in Callers : v # w => importJob'[v] = importJob[v]
    BY <2>2, OneJobMoves
  <2>4. JobDone(importJob[w], store', file, original # {})
    BY <1>1 DEF ExchangeInv
  <2>5. /\ AllClasses(store', file) /\ AllProperties(store', file) /\ AllSubclasses(store', file)
        /\ original # {} => AllRows(store', file)
    BY <2>2, <2>4 DEF JobDone
  <2> QED BY <1>1, <1>2, <1>3, <2>2, <2>3, <2>5, StepKeepsInv
<1>5. CASE ImporterDies
  <2>1. importJob' = [v \in Callers |-> NoJob] /\ registered' = registered /\ faults < MaxFaults
    BY <1>5 DEF ImporterDies
  <2>2. original = {}
    <3>1. original # {} => faults = MaxFaults
      BY DEF ExchangeInv
    <3> QED BY <2>1, <3>1, ExchangeAssumption
  <2>3. importJob' = [v \in Callers |-> importJob'[v]] /\ \A v \in Callers : importJob'[v] = NoJob
    BY <2>1
  <2> QED BY <1>1, <1>2, <1>3, <2>1, <2>2, <2>3, StepKeepsInv
<1> QED BY <1>4, <1>5

-----------------------------------------------------------------------------
(* Edits.                                                                   *)

\* What a new version of one document does to the others.
LEMMA EditKeeps ==
    ASSUME NEW s, NEW t, NEW f, StoreDocs(s, f), StoreShaped(t), t.made = s.made + 1, t.constraints = s.constraints,
           NEW old, \A x \in t.edges : \E e \in s.edges : x = NewId(e, old, t.made),
           \A e \in s.edges : NewId(e, old, t.made) \in t.edges,
           \A c \in t.classes : ClassDoc(c, t, f), \A p \in t.properties : PropertyDoc(p, t, f), OwnIds(t),
           \A c \in Live(s.classes) : \E d \in Live(t.classes) :
               d.uri = c.uri /\ d.id = (IF c.id = old THEN t.made ELSE c.id),
           \A p \in Live(s.properties) : \E q \in Live(t.properties) :
               q.uri = p.uri /\ q.kind = p.kind /\ q.id = (IF p.id = old THEN t.made ELSE p.id),
           \A d \in Live(t.classes) : d.id # t.made => d \in Live(s.classes),
           \A q \in Live(t.properties) : q.id # t.made => q \in Live(s.properties)
    PROVE  /\ StoreDocs(t, f)
           /\ AllClasses(s, f) => AllClasses(t, f)
           /\ AllProperties(s, f) => AllProperties(t, f)
           /\ AllSubclasses(s, f) => AllSubclasses(t, f)
<1> DEFINE Now(id) == IF id = old THEN t.made ELSE id
<1>1. \A e : /\ NewId(e, old, t.made) = Edge(e.type, Now(e.from), Now(e.to), e.assertion)
             /\ NewId(e, old, t.made).type = e.type /\ NewId(e, old, t.made).assertion = e.assertion
             /\ NewId(e, old, t.made).from = Now(e.from) /\ NewId(e, old, t.made).to = Now(e.to)
  BY DEF NewId, Edge
<1>2. s.made \in Nat /\ t.made \in Nat
  BY DEF StoreDocs
<1>3. \A x \in t.edges : EdgeDoc(x, t, f)
  <2> TAKE x \in t.edges
  <2>1. PICK e \in s.edges : x = NewId(e, old, t.made)
    OBVIOUS
  <2>2. EdgeDoc(e, s, f)
    BY DEF StoreDocs
  <2>3. /\ x = Edge(x.type, x.from, x.to, x.assertion)
        /\ x.type = e.type /\ x.from = Now(e.from) /\ x.to = Now(e.to) /\ x.assertion = e.assertion
    BY <1>1, <2>1
  <2>4. ASSUME x.type = "subclass_of"
        PROVE  \E c, d \in Live(t.classes) : x.from = c.id /\ x.to = d.id /\ <<c.uri, d.uri>> \in f.subclass
    <3>1. PICK a, b \in Live(s.classes) : e.from = a.id /\ e.to = b.id /\ <<a.uri, b.uri>> \in f.subclass
      BY <2>2, <2>3, <2>4 DEF EdgeDoc
    <3>2. PICK c \in Live(t.classes) : c.uri = a.uri /\ c.id = Now(a.id)
      OBVIOUS
    <3>3. PICK d \in Live(t.classes) : d.uri = b.uri /\ d.id = Now(b.id)
      OBVIOUS
    <3>4. x.from = c.id /\ x.to = d.id
      BY <2>3, <3>1, <3>2, <3>3
    <3>5. <<c.uri, d.uri>> \in f.subclass
      BY <3>1, <3>2, <3>3
    <3> QED BY <3>4, <3>5
  <2>5. ASSUME x.type = "rdfs_range_class", x.assertion = "rdfs"
        PROVE  \E p \in Live(t.properties), c \in Live(t.classes) :
                   x.from = p.id /\ x.to = c.id /\ <<p.uri, Iri(c.uri)>> \in f.ranges
    <3>1. PICK a \in Live(s.properties), b \in Live(s.classes) :
              e.from = a.id /\ e.to = b.id /\ <<a.uri, Iri(b.uri)>> \in f.ranges
      BY <2>2, <2>3, <2>5 DEF EdgeDoc
    <3>2. PICK p \in Live(t.properties) : p.uri = a.uri /\ p.id = Now(a.id)
      OBVIOUS
    <3>3. PICK d \in Live(t.classes) : d.uri = b.uri /\ d.id = Now(b.id)
      OBVIOUS
    <3>4. x.from = p.id /\ x.to = d.id
      BY <2>3, <3>1, <3>2, <3>3
    <3>5. <<p.uri, Iri(d.uri)>> \in f.ranges
      BY <3>1, <3>2, <3>3
    <3> QED BY <3>4, <3>5
  <2> QED BY <2>3, <2>4, <2>5 DEF EdgeDoc
<1>4. \A k \in t.constraints : ConstraintDoc(k, t, f)
  <2> TAKE k \in t.constraints
  <2>1. ConstraintDoc(k, s, f)
    BY DEF StoreDocs
  <2>2. k.on \in 1..s.made /\ k.property \in 0..s.made
    BY <2>1 DEF ConstraintDoc
  <2>3. k.on \in 1..t.made /\ k.property \in 0..t.made /\ k.on # t.made /\ k.property # t.made
    BY <1>2, <2>2
  <2>4. \A c \in Live(t.classes) : c.id = k.on => c \in Live(s.classes)
    BY <2>3
  <2>5. \A p \in Live(t.properties) : p.id = k.property => p \in Live(s.properties)
    BY <2>3
  <2> QED BY <2>1, <2>3, <2>4, <2>5 DEF ConstraintDoc
<1>5. StoreDocs(t, f)
  <2>1. IsFiniteSet({k \in t.constraints : k.type = "owl:Restriction"})
    BY DEF StoreDocs
  <2> QED BY <1>2, <1>3, <1>4, <2>1 DEF StoreDocs
<1>6. AllClasses(s, f) => AllClasses(t, f)
  BY DEF AllClasses
<1>7. AllProperties(s, f) => AllProperties(t, f)
  BY DEF AllProperties
<1>8. ASSUME NEW from, NEW to, Linked(s, from, to)
      PROVE  Linked(t, from, to)
  <2>1. PICK e \in s.edges : \E a, b \in Live(s.classes) :
            e.type = "subclass_of" /\ e.from = a.id /\ e.to = b.id /\ a.uri = from /\ b.uri = to
    BY <1>8 DEF Linked
  <2>2. PICK a, b \in Live(s.classes) :
            e.type = "subclass_of" /\ e.from = a.id /\ e.to = b.id /\ a.uri = from /\ b.uri = to
    BY <2>1
  <2>3. PICK c \in Live(t.classes) : c.uri = a.uri /\ c.id = Now(a.id)
    OBVIOUS
  <2>4. PICK d \in Live(t.classes) : d.uri = b.uri /\ d.id = Now(b.id)
    OBVIOUS
  <2>5. PICK x \in t.edges : x = NewId(e, old, t.made)
    OBVIOUS
  <2>6. x.type = "subclass_of" /\ x.from = c.id /\ x.to = d.id
    BY <1>1, <2>2, <2>3, <2>4, <2>5
  <2> QED BY <2>2, <2>3, <2>4, <2>6 DEF Linked
<1>9. AllSubclasses(s, f) => AllSubclasses(t, f)
  BY <1>8 DEF AllSubclasses
<1> QED BY <1>5, <1>6, <1>7, <1>9

\* The rows once r has a next version.
LEMMA NextVersions ==
    ASSUME NEW docs, NEW r \in Live(docs), NEW new, NEW dead, NEW fresh,
           dead = [r EXCEPT !.live = FALSE], fresh = [r EXCEPT !.id = new]
    PROVE  /\ \A q \in NextVersion(docs, r, new) : q = dead \/ q = fresh \/ (q \in docs /\ q # r)
           /\ \A q \in docs : q # r => q \in NextVersion(docs, r, new)
           /\ fresh \in NextVersion(docs, r, new)
BY DEF NextVersion

LEMMA EditInvariant ==
    ASSUME ExchangeInv, UNCHANGED <<file, registered, importJob, original>>, registered, ~Busy, original = {},
           StoreDocs(store', file),
           AllClasses(store, file) => AllClasses(store', file),
           AllProperties(store, file) => AllProperties(store', file),
           AllSubclasses(store, file) => AllSubclasses(store', file)
    PROVE  ExchangeInv'
<1>1. \A w \in Callers : JobDone(importJob[w], store', file, FALSE)
  <2> TAKE w \in Callers
  <2>1. importJob[w].at = "idle"
    BY DEF Busy, AtStep
  <2>2. importJob[w] = [at |-> importJob[w].at, via |-> importJob[w].via, ids |-> importJob[w].ids, metas |-> importJob[w].metas]
    BY DEF ExchangeInv, JobDone
  <2> QED BY <2>1, <2>2 DEF JobDone
<1>2. AllClasses(store', file) /\ AllProperties(store', file) /\ AllSubclasses(store', file)
  BY DEF ExchangeInv
<1>3. FileAssumption(file) /\ (OneRangeEach => OneRange(file)) /\ importJob = [w \in Callers |-> importJob[w]]
  BY DEF ExchangeInv
<1> QED BY <1>1, <1>2, <1>3 DEF ExchangeInv

\* The store after an edit.
LEMMA EditedStore ==
    ASSUME ExchangeInv, NEW r, NEW C, NEW P, EditImported(r, C, P)
    PROVE  /\ StoreShaped(store') /\ store'.classes = C /\ store'.properties = P /\ store'.constraints = store.constraints
           /\ store'.made = store.made + 1
           /\ \A x \in store'.edges : \E e \in store.edges : x = NewId(e, r.id, store'.made)
           /\ \A e \in store.edges : NewId(e, r.id, store'.made) \in store'.edges
<1> DEFINE E == {NewId(e, r.id, store.made + 1) : e \in store.edges}
<1>1. StoreShaped(store)
  BY DEF ExchangeInv, StoreDocs
<1>2. \A A, B, D, newest : [store EXCEPT !.classes = A, !.properties = B, !.edges = D, !.made = newest]
          = [classes |-> A, properties |-> B, edges |-> D, constraints |-> store.constraints, made |-> newest]
  BY <1>1, Changed
<1>3. store' = [store EXCEPT !.classes = C, !.properties = P, !.edges = E, !.made = store.made + 1]
  BY Zenon DEF EditImported
<1>4. store' = [classes |-> C, properties |-> P, edges |-> E, constraints |-> store.constraints, made |-> store.made + 1]
  <2> HIDE DEF E
  <2> QED BY <1>2, <1>3, Zenon
<1>5. /\ store'.classes = C /\ store'.properties = P /\ store'.constraints = store.constraints
      /\ store'.made = store.made + 1 /\ store'.edges = E
  <2> HIDE DEF E
  <2> QED BY <1>4
<1>6. StoreShaped(store')
  <2> HIDE DEF E
  <2> QED BY <1>4, <1>5 DEF StoreShaped
<1>7. /\ \A x \in store'.edges : \E e \in store.edges : x = NewId(e, r.id, store'.made)
      /\ \A e \in store.edges : NewId(e, r.id, store'.made) \in store'.edges
  BY <1>5
<1> QED BY <1>5, <1>6, <1>7

LEMMA EditClassStep ==
    ASSUME ExchangeInv, EditImportedClass
    PROVE  ExchangeInv'
<1> DEFINE new == store.made + 1
<1>1. PICK c \in Live(store.classes) : EditImported(c, NextVersion(store.classes, c, new), store.properties)
  BY DEF EditImportedClass
<1>2. /\ StoreShaped(store') /\ store'.classes = NextVersion(store.classes, c, new) /\ store'.properties = store.properties
      /\ store'.constraints = store.constraints /\ store'.made = new
      /\ \A x \in store'.edges : \E e \in store.edges : x = NewId(e, c.id, store'.made)
      /\ \A e \in store.edges : NewId(e, c.id, store'.made) \in store'.edges
  BY <1>1, EditedStore
<1>3. /\ StoreDocs(store, file) /\ store.made \in Nat /\ OwnIds(store)
      /\ \A d \in store.classes : ClassDoc(d, store, file)
      /\ \A p \in store.properties : PropertyDoc(p, store, file)
  BY DEF ExchangeInv, StoreDocs
<1>4. \A d \in store.classes : d.id \in 1..store.made
  BY <1>3 DEF ClassDoc
<1>5. \A p \in store.properties : p.id \in 1..store.made
  BY <1>3 DEF PropertyDoc
<1>6. PICK dead, fresh : dead = [c EXCEPT !.live = FALSE] /\ fresh = [c EXCEPT !.id = new]
  OBVIOUS
<1>7. c \in store.classes /\ c.live /\ c = [uri |-> c.uri, id |-> c.id, live |-> c.live] /\ c.uri \in Wanted(file) /\ c.live \in BOOLEAN
  BY <1>3 DEF Live, ClassDoc
<1>8. /\ dead = [uri |-> c.uri, id |-> c.id, live |-> FALSE] /\ fresh = [uri |-> c.uri, id |-> new, live |-> TRUE]
      /\ dead.id = c.id /\ ~dead.live /\ fresh.id = new /\ fresh.live /\ fresh.uri = c.uri /\ dead.uri = c.uri
  BY <1>6, <1>7
<1>9. /\ \A d \in store'.classes : d = dead \/ d = fresh \/ (d \in store.classes /\ d # c)
      /\ \A d \in store.classes : d # c => d \in store'.classes
      /\ fresh \in store'.classes
  BY <1>2, <1>6, NextVersions
<1>10. \A i \in 1..store.made : i \in 1..new /\ i # new
  BY <1>3
<1>11. \A d \in store'.classes : ClassDoc(d, store', file)
  <2> TAKE d \in store'.classes
  <2>0. new \in 1..new /\ c.id \in 1..new
    BY <1>3, <1>4, <1>7, <1>10
  <2>1. ClassDoc(dead, store', file) /\ ClassDoc(fresh, store', file)
    BY <1>2, <1>7, <1>8, <2>0 DEF ClassDoc
  <2>2. ASSUME d \in store.classes
        PROVE  ClassDoc(d, store', file)
    BY <1>2, <1>3, <1>10, <2>2 DEF ClassDoc
  <2> QED BY <1>9, <2>1, <2>2
<1>12. \A p \in store'.properties : PropertyDoc(p, store', file)
  <2> TAKE p \in store'.properties
  <2>1. p.id \in 1..store'.made
    BY <1>2, <1>5, <1>10
  <2> QED BY <1>2, <1>3, <2>1 DEF PropertyDoc
<1>13. OwnIds(store')
  <2>1. \A d, e \in store'.classes : d.id = e.id => d = e
    <3>1. \A d \in store.classes : d.id # new
      BY <1>4, <1>10
    <3>2. dead.id # new /\ \A d \in store.classes : d.id = c.id => d = c
      BY <1>3, <1>7, <1>8, <3>1 DEF OwnIds
    <3> HIDE DEF new
    <3> QED BY ZenonT(40), <1>3, <1>7, <1>8, <1>9, <3>1, <3>2 DEF OwnIds
  <2>2. \A d \in store'.classes, p \in store'.properties : d.id # p.id
    BY <1>2, <1>3, <1>5, <1>7, <1>8, <1>9, <1>10 DEF OwnIds
  <2> QED BY <1>2, <1>3, <2>1, <2>2 DEF OwnIds
<1>14. \A a \in Live(store.classes) : \E d \in Live(store'.classes) :
           d.uri = a.uri /\ d.id = (IF a.id = c.id THEN store'.made ELSE a.id)
  <2> TAKE a \in Live(store.classes)
  <2>1. CASE a = c
    BY <1>2, <1>8, <1>9, <2>1 DEF Live
  <2>2. CASE a # c
    <3>1. a.id # c.id /\ a \in store.classes
      BY <1>3, <1>7, <2>2 DEF OwnIds, Live
    <3> QED BY <1>9, <2>2, <3>1 DEF Live
  <2> QED BY <2>1, <2>2
<1>15. \A p \in Live(store.properties) : \E q \in Live(store'.properties) :
           q.uri = p.uri /\ q.kind = p.kind /\ q.id = (IF p.id = c.id THEN store'.made ELSE p.id)
  BY <1>2, <1>3, <1>7 DEF OwnIds, Live
<1>16. \A d \in Live(store'.classes) : d.id # store'.made => d \in Live(store.classes)
  BY <1>2, <1>8, <1>9 DEF Live
<1>17. /\ StoreDocs(store', file)
       /\ AllClasses(store, file) => AllClasses(store', file)
       /\ AllProperties(store, file) => AllProperties(store', file)
       /\ AllSubclasses(store, file) => AllSubclasses(store', file)
  BY <1>2, <1>3, <1>11, <1>12, <1>13, <1>14, <1>15, <1>16, EditKeeps
<1>18. UNCHANGED <<file, registered, importJob, original>> /\ registered /\ ~Busy /\ original = {}
  BY <1>1 DEF EditImported
<1> QED BY <1>17, <1>18, EditInvariant

LEMMA EditPropertyStep ==
    ASSUME ExchangeInv, EditImportedProperty
    PROVE  ExchangeInv'
<1> DEFINE new == store.made + 1
<1>1. PICK p \in Live(store.properties) : EditImported(p, store.classes, NextVersion(store.properties, p, new))
  BY DEF EditImportedProperty
<1>2. /\ StoreShaped(store') /\ store'.properties = NextVersion(store.properties, p, new) /\ store'.classes = store.classes
      /\ store'.constraints = store.constraints /\ store'.made = new
      /\ \A x \in store'.edges : \E e \in store.edges : x = NewId(e, p.id, store'.made)
      /\ \A e \in store.edges : NewId(e, p.id, store'.made) \in store'.edges
  BY <1>1, EditedStore
<1>3. /\ StoreDocs(store, file) /\ store.made \in Nat /\ OwnIds(store)
      /\ \A d \in store.classes : ClassDoc(d, store, file)
      /\ \A q \in store.properties : PropertyDoc(q, store, file)
  BY DEF ExchangeInv, StoreDocs
<1>4. \A d \in store.classes : d.id \in 1..store.made
  BY <1>3 DEF ClassDoc
<1>5. \A q \in store.properties : q.id \in 1..store.made
  BY <1>3 DEF PropertyDoc
<1>6. PICK dead, fresh : dead = [p EXCEPT !.live = FALSE] /\ fresh = [p EXCEPT !.id = new]
  OBVIOUS
<1>7. /\ p \in store.properties /\ p.live /\ PropertyDoc(p, store, file)
      /\ p = [uri |-> p.uri, kind |-> p.kind, id |-> p.id, live |-> p.live, range |-> p.range, inverse |-> p.inverse]
      /\ p.live \in BOOLEAN
  BY <1>3 DEF Live, PropertyDoc
<1>8. /\ dead = [uri |-> p.uri, kind |-> p.kind, id |-> p.id, live |-> FALSE, range |-> p.range, inverse |-> p.inverse]
      /\ fresh = [uri |-> p.uri, kind |-> p.kind, id |-> new, live |-> TRUE, range |-> p.range, inverse |-> p.inverse]
  BY <1>6, <1>7
<1>9. /\ dead.id = p.id /\ ~dead.live /\ dead.uri = p.uri /\ dead.kind = p.kind /\ dead.range = p.range /\ dead.live = FALSE
      /\ fresh.id = new /\ fresh.live /\ fresh.uri = p.uri /\ fresh.kind = p.kind /\ fresh.range = p.range /\ fresh.live = TRUE
      /\ dead.inverse = p.inverse /\ fresh.inverse = p.inverse
  BY <1>8
<1>10. /\ \A q \in store'.properties : q = dead \/ q = fresh \/ (q \in store.properties /\ q # p)
       /\ \A q \in store.properties : q # p => q \in store'.properties
       /\ fresh \in store'.properties
  BY <1>2, <1>6, NextVersions
<1>11. \A i \in 1..store.made : i \in 1..new /\ i # new
  BY <1>3
<1>12. \A q \in store'.properties : PropertyDoc(q, store', file)
  <2> TAKE q \in store'.properties
  <2>0. new \in 1..new /\ p.id \in 1..new
    BY <1>3, <1>5, <1>7, <1>11
  <2>1. PropertyDoc(dead, store', file) /\ PropertyDoc(fresh, store', file)
    BY <1>2, <1>7, <1>8, <1>9, <2>0 DEF PropertyDoc
  <2>2. ASSUME q \in store.properties
        PROVE  PropertyDoc(q, store', file)
    <3>1. q.id \in 1..store'.made
      BY <1>2, <1>5, <1>11, <2>2
    <3> QED BY <1>3, <2>2, <3>1 DEF PropertyDoc
  <2> QED BY <1>10, <2>1, <2>2
<1>13. \A d \in store'.classes : ClassDoc(d, store', file)
  BY <1>2, <1>3, <1>11 DEF ClassDoc
<1>14. OwnIds(store')
  <2>1. \A q, e \in store'.properties : q.id = e.id => q = e
    BY <1>3, <1>5, <1>7, <1>9, <1>10, <1>11 DEF OwnIds
  <2>2. \A d \in store'.classes, q \in store'.properties : d.id # q.id
    BY <1>2, <1>3, <1>4, <1>7, <1>9, <1>10, <1>11 DEF OwnIds
  <2> QED BY <1>2, <1>3, <2>1, <2>2 DEF OwnIds
<1>15. \A a \in Live(store.properties) : \E q \in Live(store'.properties) :
           q.uri = a.uri /\ q.kind = a.kind /\ q.id = (IF a.id = p.id THEN store'.made ELSE a.id)
  <2> TAKE a \in Live(store.properties)
  <2>1. CASE a = p
    BY <1>2, <1>9, <1>10, <2>1 DEF Live
  <2>2. CASE a # p
    <3>1. a.id # p.id /\ a \in store.properties
      BY <1>3, <1>7, <2>2 DEF OwnIds, Live
    <3> QED BY <1>10, <2>2, <3>1 DEF Live
  <2> QED BY <2>1, <2>2
<1>16. \A c \in Live(store.classes) : \E d \in Live(store'.classes) :
           d.uri = c.uri /\ d.id = (IF c.id = p.id THEN store'.made ELSE c.id)
  BY <1>2, <1>3, <1>7 DEF OwnIds, Live
<1>17. \A q \in Live(store'.properties) : q.id # store'.made => q \in Live(store.properties)
  BY <1>2, <1>9, <1>10 DEF Live
<1>18. /\ StoreDocs(store', file)
       /\ AllClasses(store, file) => AllClasses(store', file)
       /\ AllProperties(store, file) => AllProperties(store', file)
       /\ AllSubclasses(store, file) => AllSubclasses(store', file)
  <2>1. store'.made = store.made + 1
    BY <1>2
  <2> HIDE DEF new
  <2> QED BY <1>2, <1>3, <1>12, <1>13, <1>14, <1>15, <1>16, <1>17, <2>1, EditKeeps
<1>19. UNCHANGED <<file, registered, importJob, original>> /\ registered /\ ~Busy /\ original = {}
  BY <1>1 DEF EditImported
<1> QED BY <1>18, <1>19, EditInvariant

-----------------------------------------------------------------------------
(* What the store has, by URI, and what the export writes.                  *)

LEMMA LiveUris ==
    ASSUME NEW s, NEW f, StoreDocs(s, f), AllClasses(s, f)
    PROVE  {c.uri : c \in Live(s.classes)} = Wanted(f)
<1>1. \A c \in Live(s.classes) : c.uri \in Wanted(f)
  BY DEF StoreDocs, ClassDoc, Live
<1> QED BY <1>1 DEF AllClasses

LEMMA LiveNames ==
    ASSUME NEW s, NEW f, StoreDocs(s, f), AllProperties(s, f), FileAssumption(f)
    PROVE  {[uri |-> p.uri, kind |-> p.kind] : p \in Live(s.properties)} = f.properties
<1>1. \A p \in Live(s.properties) : [uri |-> p.uri, kind |-> p.kind] \in f.properties
  BY DEF StoreDocs, PropertyDoc, Live
<1>2. ASSUME NEW q \in f.properties
      PROVE  \E p \in Live(s.properties) : q = [uri |-> p.uri, kind |-> p.kind]
  <2>1. PICK p \in Live(s.properties) : p.uri = q.uri /\ p.kind = q.kind
    BY DEF AllProperties
  <2>2. q = [uri |-> q.uri, kind |-> q.kind]
    BY DEF FileAssumption
  <2> QED BY <2>1, <2>2
<1> QED BY <1>1, <1>2

LEMMA ExportedFields ==
    ASSUME NEW s
    PROVE  /\ Exported(s).declared = {c.uri : c \in Live(s.classes)}
           /\ Exported(s).described = {c.uri : c \in Live(s.classes)}
           /\ Exported(s).subclass = {<<UriOf(s, e.from), UriOf(s, e.to)>> : e \in {d \in s.edges : d.type = "subclass_of"}}
           /\ Exported(s).properties = {[uri |-> p.uri, kind |-> p.kind] : p \in Live(s.properties)}
           /\ Exported(s).ranges = {<<p.uri, Iri(Resolved(p.range))>> : p \in {q \in Live(s.properties) : q.range # NoText}}
           /\ Exported(s).restrictions = ExportedRestrictions(s)
           /\ Exported(s).shapes = {}
BY Zenon DEF Exported

LEMMA ExportedSubclasses ==
    ASSUME NEW s, NEW f, StoreDocs(s, f), AllSubclasses(s, f), FileAssumption(f)
    PROVE  Exported(s).subclass = {e \in f.subclass : {e[1], e[2]} \subseteq Wanted(f)}
<1>1. OwnIds(s) /\ \A c \in s.classes : ClassDoc(c, s, f)
  BY DEF StoreDocs
<1>2. \A c \in Live(s.classes) : UriOf(s, c.id) = c.uri /\ c.uri \in Wanted(f)
  BY <1>1, UriOfId DEF Live, ClassDoc
<1>3. \A e \in f.subclass : e = <<e[1], e[2]>>
  BY DEF FileAssumption
<1>4. ASSUME NEW e \in s.edges, e.type = "subclass_of"
      PROVE  <<UriOf(s, e.from), UriOf(s, e.to)>> \in {x \in f.subclass : {x[1], x[2]} \subseteq Wanted(f)}
  <2>1. EdgeDoc(e, s, f)
    BY DEF StoreDocs
  <2>2. PICK c, d \in Live(s.classes) : e.from = c.id /\ e.to = d.id /\ <<c.uri, d.uri>> \in f.subclass
    BY <1>4, <2>1 DEF EdgeDoc
  <2>3. UriOf(s, e.from) = c.uri /\ UriOf(s, e.to) = d.uri /\ c.uri \in Wanted(f) /\ d.uri \in Wanted(f)
    BY <1>2, <2>2
  <2> QED BY <2>2, <2>3
<1>5. ASSUME NEW x \in f.subclass, {x[1], x[2]} \subseteq Wanted(f)
      PROVE  \E e \in s.edges : e.type = "subclass_of" /\ x = <<UriOf(s, e.from), UriOf(s, e.to)>>
  <2>1. PICK e \in s.edges : \E c, d \in Live(s.classes) :
            e.type = "subclass_of" /\ e.from = c.id /\ e.to = d.id /\ c.uri = x[1] /\ d.uri = x[2]
    BY <1>5 DEF AllSubclasses, Linked
  <2>2. PICK c, d \in Live(s.classes) :
            e.type = "subclass_of" /\ e.from = c.id /\ e.to = d.id /\ c.uri = x[1] /\ d.uri = x[2]
    BY <2>1
  <2>3. UriOf(s, e.from) = x[1] /\ UriOf(s, e.to) = x[2]
    BY <1>2, <2>2
  <2> QED BY <1>3, <2>2, <2>3
<1>6. Exported(s).subclass = {<<UriOf(s, e.from), UriOf(s, e.to)>> : e \in {d \in s.edges : d.type = "subclass_of"}}
  BY ExportedFields
<1> QED BY <1>4, <1>5, <1>6

\* Where no property has two ranges, a document has the one there is.
LEMMA OneValue ==
    ASSUME NEW f, OneRange(f), NEW uri, NEW t \in AnyValue(f.ranges, uri), NEW u \in AnyValue(f.ranges, uri)
    PROVE  t = u
BY DEF OneRange, AnyValue, ValuesOf

LEMMA RangeKept ==
    ASSUME NEW s, NEW f, StoreDocs(s, f), OneRange(f), NEW p \in Live(s.properties)
    PROVE  p.range = RangeOf(f, p.uri)
<1>1. PICK t \in AnyValue(f.ranges, p.uri) : p.range = t.text
  BY DEF StoreDocs, PropertyDoc, Live
<1>2. PICK u \in AnyValue(f.ranges, p.uri) : RangeOf(f, p.uri) = u.text
  BY DEF RangeOf
<1> QED BY <1>1, <1>2, OneValue

\* A constraint of a restriction, as it is exported.
LEMMA OwlConstraint ==
    ASSUME NEW s, NEW f, StoreDocs(s, f), NEW k \in s.constraints, k.type = "owl:Restriction",
           NEW c \in Live(s.classes), c.id = k.on
    PROVE  /\ UriOf(s, k.on) = c.uri
           /\ ExportedProperty(s, k) = {k.uri}
           /\ RowOf("owl:Restriction", c.uri, k.uri, k.kind, k.value, NoText) \in OwlRows(f)
           /\ IF IsBound(k.kind) THEN k.value = Count(k.value)
              ELSE k.value = Stored(k.value) /\ k.kind \in {"allValuesFrom", "someValuesFrom", "hasValue"}
<1>1. OwnIds(s) /\ ConstraintDoc(k, s, f)
  BY DEF StoreDocs
<1>2. UriOf(s, k.on) = c.uri
  BY <1>1, UriOfId DEF Live
<1>3. ExportedProperty(s, k) = {k.uri}
  <2>1. ASSUME NEW p \in Live(s.properties), p.id = k.property
        PROVE  UriOf(s, k.property) = k.uri
    BY <1>1, <2>1, UriOfId DEF Live, ConstraintDoc
  <2> QED BY <2>1 DEF ExportedProperty
<1> DEFINE row == RowOf("owl:Restriction", c.uri, k.uri, k.kind, k.value, NoText)
<1>4. row \in OwlRows(f)
  BY <1>1 DEF ConstraintDoc
<1>5. row.kind = k.kind /\ row.value = k.value
  BY DEF RowOf
<1> HIDE DEF row
<1>6. IF IsBound(row.kind) THEN row.value = Count(row.value)
      ELSE row.value = Stored(row.value) /\ row.kind \in {"allValuesFrom", "someValuesFrom", "hasValue"}
  BY <1>4, RowsOfFile
<1> QED BY <1>2, <1>3, <1>4, <1>5, <1>6 DEF row

\* The importer reads a restriction as it was written.
LEMMA ReadBack ==
    ASSUME NEW r, NEW kind \in ToSet(Kinds), NEW term, r.says = [k \in {kind} |-> term], r.qualified = FALSE
    PROVE  LET row(value) == {RowOf("owl:Restriction", r.on, r.property.text, kind, value, NoText)} IN
           /\ IsBound(kind) /\ IsCount(term) => Interpreted(r) = row(Count(term))
           /\ ~IsBound(kind) /\ term.is # "blank" => Interpreted(r) = row(Stored(term))
<1>1. DOMAIN r.says = {kind} /\ r.says[kind] = term
  OBVIOUS
<1> DEFINE said == {i \in DOMAIN Kinds : Kinds[i] \in DOMAIN r.says}
           n == CHOOSE i \in said : \A j \in said : i <= j
<1>2. said # {} /\ said \subseteq Nat
  BY <1>1 DEF ToSet, Kinds
<1>3. n \in said
  <2> HIDE DEF said
  <2> QED BY <1>2, FirstKind
<1>4. Kinds[n] = kind
  BY <1>1, <1>3
<1> HIDE DEF n
<1>6. IsBound(kind) /\ IsCount(term) =>
          Interpreted(r) = {RowOf("owl:Restriction", r.on, r.property.text, kind, Count(term), NoText)}
  BY <1>1, <1>2, <1>4 DEF Interpreted, n
<1>7. ~IsBound(kind) /\ term.is # "blank" =>
          Interpreted(r) = {RowOf("owl:Restriction", r.on, r.property.text, kind, Stored(term), NoText)}
  BY <1>1, <1>2, <1>4 DEF Interpreted, n
<1> QED BY <1>6, <1>7

\* The constraints that are written, the row of one, and its restriction.
Written(s) == {k \in s.constraints : k.type = "owl:Restriction" /\ OnLive(s, k) /\ WellFormed(k)}
RowOfConstraint(s, k) == RowOf("owl:Restriction", UriOf(s, k.on), k.uri, k.kind, k.value, NoText)
RestrictionOf(s, k) ==
    [on |-> UriOf(s, k.on), property |-> Iri(k.uri), qualified |-> FALSE, says |-> [x \in {k.kind} |-> RestrictionTerm(k)]]

LEMMA WrittenAndReadBack ==
    ASSUME NEW s, NEW f, StoreDocs(s, f), NEW k \in Written(s)
    PROVE  Interpreted(RestrictionOf(s, k)) = {RowOfConstraint(s, k)}
<1>1. PICK c \in Live(s.classes) : c.id = k.on
  BY DEF Written, OnLive
<1>2. k \in s.constraints /\ k.type = "owl:Restriction"
  BY DEF Written
<1>3. IF IsBound(k.kind) THEN k.value = Count(k.value)
      ELSE k.value = Stored(k.value) /\ k.kind \in {"allValuesFrom", "someValuesFrom", "hasValue"}
  BY <1>1, <1>2, OwlConstraint
<1> DEFINE r == RestrictionOf(s, k)
           term == RestrictionTerm(k)
<1>4. /\ r.on = UriOf(s, k.on) /\ r.property.text = k.uri /\ r.qualified = FALSE
      /\ r.says = [x \in {k.kind} |-> term]
  BY DEF RestrictionOf, Iri
<1>5. k.kind \in ToSet(Kinds)
  <2>1. ToSet(Kinds) = {"minCardinality", "maxCardinality", "cardinality", "allValuesFrom", "someValuesFrom", "hasValue"}
    BY DEF ToSet, Kinds
  <2> QED BY <1>3, <2>1 DEF IsBound
<1> HIDE DEF r, term
<1>6. /\ IsBound(k.kind) /\ IsCount(term)
             => Interpreted(r) = {RowOf("owl:Restriction", r.on, r.property.text, k.kind, Count(term), NoText)}
      /\ ~IsBound(k.kind) /\ term.is # "blank"
             => Interpreted(r) = {RowOf("owl:Restriction", r.on, r.property.text, k.kind, Stored(term), NoText)}
  BY <1>4, <1>5, ReadBack
<1>7. CASE IsBound(k.kind)
  <2>1. term = Literal(k.value.text, "integer")
    BY <1>7 DEF term, RestrictionTerm
  <2>2. IsCount(term) /\ Count(term) = Count(k.value)
    BY <2>1 DEF Literal, IsCount, Count
  <2> QED BY <1>3, <1>4, <1>6, <1>7, <2>2 DEF RowOfConstraint, r
<1>8. CASE ~IsBound(k.kind)
  <2>1. term = TextTerm(k.value.text) \/ term = Iri(k.value.text)
    BY <1>8 DEF term, RestrictionTerm
  <2>2. term.is # "blank" /\ Stored(term) = Stored(k.value)
    BY <2>1 DEF TextTerm, Literal, Iri, Stored
  <2> QED BY <1>3, <1>4, <1>6, <1>8, <2>2 DEF RowOfConstraint, r
<1> QED BY <1>7, <1>8

LEMMA WrittenRestrictions ==
    ASSUME NEW s, NEW f, StoreDocs(s, f)
    PROVE  /\ ExportedRestrictions(s) = {RestrictionOf(s, k) : k \in Written(s)}
           /\ IsFiniteSet(ExportedRestrictions(s))
<1>1. ASSUME NEW k \in Written(s)
      PROVE  ExportedProperty(s, k) = {k.uri}
  <2>1. PICK c \in Live(s.classes) : c.id = k.on
    BY DEF Written, OnLive
  <2> QED BY <2>1, OwlConstraint DEF Written
<1> DEFINE forms(k) == {[on |-> UriOf(s, k.on), property |-> Iri(u), qualified |-> FALSE,
                        says |-> [x \in {k.kind} |-> RestrictionTerm(k)]] : u \in ExportedProperty(s, k)}
<1>2. ExportedRestrictions(s) = UNION {forms(k) : k \in Written(s)}
  BY DEF ExportedRestrictions, Written
<1>3. \A k \in Written(s) : forms(k) = {RestrictionOf(s, k)}
  BY <1>1 DEF RestrictionOf
<1> HIDE DEF forms
<1>4. ExportedRestrictions(s) = {RestrictionOf(s, k) : k \in Written(s)}
  BY <1>2, <1>3
<1>5. IsFiniteSet(Written(s))
  <2>1. PICK A : A = {k \in s.constraints : k.type = "owl:Restriction"}
    OBVIOUS
  <2>2. IsFiniteSet(A) /\ Written(s) \subseteq A
    BY <2>1 DEF StoreDocs, Written
  <2> QED BY <2>2, FS_Subset
<1>6. IsFiniteSet(ExportedRestrictions(s))
  <2> DEFINE g == [k \in Written(s) |-> RestrictionOf(s, k)]
  <2>1. DOMAIN g = Written(s)
    OBVIOUS
  <2>2. \A y \in ExportedRestrictions(s) : \E k \in Written(s) : g[k] = y
    BY <1>4
  <2> HIDE DEF g
  <2> QED BY <1>5, <2>1, <2>2, FiniteImage
<1> QED BY <1>4, <1>6

LEMMA ExportedRows ==
    ASSUME NEW s, NEW f, StoreDocs(s, f)
    PROVE  OwlRows(Exported(s)) = {RowOfConstraint(s, k) : k \in Written(s)}
<1> DEFINE x == Exported(s)
<1>1. x.declared = {c.uri : c \in Live(s.classes)} /\ x.restrictions = {RestrictionOf(s, k) : k \in Written(s)}
  BY ExportedFields, WrittenRestrictions
<1>2. ASSUME NEW k \in Written(s)
      PROVE  RestrictionOf(s, k).on \in x.declared /\ RestrictionOf(s, k).property.is = "iri"
  <2>1. PICK c \in Live(s.classes) : c.id = k.on
    BY DEF Written, OnLive
  <2>2. UriOf(s, k.on) = c.uri
    BY <2>1, OwlConstraint DEF Written
  <2> QED BY <1>1, <2>2 DEF RestrictionOf, Iri
<1> HIDE DEF x
<1>3. \A k \in Written(s) : Interpreted(RestrictionOf(s, k)) = {RowOfConstraint(s, k)}
  BY WrittenAndReadBack
<1>4. {q \in x.restrictions : q.on \in x.declared /\ q.property.is = "iri"} = {RestrictionOf(s, k) : k \in Written(s)}
  BY <1>1, <1>2
<1>5. OwlRows(x) = UNION {Interpreted(r) : r \in {RestrictionOf(s, k) : k \in Written(s)}}
  BY <1>4 DEF OwlRows
<1>6. OwlRows(x) = {RowOfConstraint(s, k) : k \in Written(s)}
  BY <1>3, <1>5
<1> QED BY <1>6 DEF x

\* A resolved range is named like the range.
LEMMA ResolvedName ==
    ASSUME NEW range
    PROVE  NamedRange(Resolved(range)) = NamedRange(range)
BY DEF NamedRange, Resolved

LEMMA ExportedFile ==
    ASSUME ExchangeInv, registered
    PROVE  FileAssumption(Exported(store)) /\ (OneRangeEach => OneRange(Exported(store)))
<1> DEFINE x == Exported(store)
<1>1. StoreDocs(store, file) /\ FileAssumption(file) /\ (OneRangeEach => OneRange(file))
  BY DEF ExchangeInv
<1>2. AllClasses(store, file) /\ AllProperties(store, file) /\ AllSubclasses(store, file)
  BY DEF ExchangeInv
<1>3. x.declared = Wanted(file)
  BY <1>1, <1>2, ExportedFields, LiveUris
<1>4. x.properties = file.properties
  BY <1>1, <1>2, ExportedFields, LiveNames
<1>5. x.subclass = {e \in file.subclass : {e[1], e[2]} \subseteq Wanted(file)}
  BY <1>1, <1>2, ExportedSubclasses
<1>6. x.ranges = {<<p.uri, Iri(Resolved(p.range))>> : p \in {q \in Live(store.properties) : q.range # NoText}}
  BY ExportedFields
<1>7. IsFiniteSet(x.restrictions)
  BY <1>1, ExportedFields, WrittenRestrictions
<1> HIDE DEF x
<1>8. \A e \in x.ranges : e[2].text # NoText /\ (e[2].text \in x.declared => e = <<e[1], Iri(e[2].text)>>)
  <2> TAKE e \in x.ranges
  <2>1. PICK p \in Live(store.properties) : p.range # NoText /\ e = <<p.uri, Iri(Resolved(p.range))>>
    BY <1>6
  <2>2. Resolved(p.range) # NoText
    BY <2>1, ExchangeAssumption DEF Resolved
  <2>3. e[2].text = Resolved(p.range) /\ e[1] = p.uri
    BY <2>1 DEF Iri
  <2> QED BY <2>1, <2>2, <2>3
<1>9. FileAssumption(x)
  <2>1. Wanted(file) \subseteq ToSet(UriOrder)
    BY <1>1 DEF Wanted, FileAssumption
  <2> QED BY <1>1, <1>3, <1>4, <1>5, <1>7, <1>8, <2>1 DEF FileAssumption
<1>10. ASSUME OneRangeEach
       PROVE  OneRange(x)
  <2> SUFFICES ASSUME NEW d \in x.ranges, NEW e \in x.ranges, d[1] = e[1]
               PROVE  d[2] = e[2]
    BY DEF OneRange
  <2>1. PICK p \in Live(store.properties) : d = <<p.uri, Iri(Resolved(p.range))>>
    BY <1>6
  <2>2. PICK q \in Live(store.properties) : e = <<q.uri, Iri(Resolved(q.range))>>
    BY <1>6
  <2>3. p.range = RangeOf(file, p.uri) /\ q.range = RangeOf(file, q.uri)
    BY <1>1, <1>10, RangeKept
  <2>4. p.uri = q.uri
    BY <2>1, <2>2
  <2>5. p.range = q.range
    BY <2>3, <2>4
  <2> QED BY <2>1, <2>2, <2>5
<1> QED BY <1>9, <1>10 DEF x

LEMMA SummaryFields ==
    ASSUME NEW s
    PROVE  Summary(s) =
               [classes |-> {c.uri : c \in Live(s.classes)}, subclass |-> Exported(s).subclass,
                properties |-> {[uri |-> p.uri, kind |-> p.kind, range |-> NamedRange(p.range)] : p \in Live(s.properties)},
                restrictions |-> {[on |-> UriOf(s, k.on), uri |-> k.uri, kind |-> k.kind, value |-> k.value] : k \in Written(s)}]
BY Zenon DEF Summary, Written

\* What is said of the rows, and of the constraints they come from.
LEMMA RowsSaid ==
    ASSUME NEW s, NEW f, OwlRows(f) = {RowOfConstraint(s, k) : k \in Written(s)}
    PROVE  {[on |-> r.class, uri |-> r.uri, kind |-> r.kind, value |-> r.value] : r \in OwlRows(f)}
               = {[on |-> UriOf(s, k.on), uri |-> k.uri, kind |-> k.kind, value |-> k.value] : k \in Written(s)}
<1>1. ASSUME NEW k \in Written(s)
      PROVE  /\ RowOfConstraint(s, k).class = UriOf(s, k.on) /\ RowOfConstraint(s, k).uri = k.uri
             /\ RowOfConstraint(s, k).kind = k.kind /\ RowOfConstraint(s, k).value = k.value
  BY DEF RowOfConstraint, RowOf
<1> QED BY <1>1

\* The summary of the export is that of the store.
LEMMA ExportedSummary ==
    ASSUME ExchangeInv, registered, OneRangeEach
    PROVE  Summary(store) = FileSummary(Exported(store))
<1> DEFINE x == Exported(store)
<1>1. StoreDocs(store, file) /\ FileAssumption(file) /\ OneRange(file) /\ OneRange(x)
  BY ExportedFile DEF ExchangeInv
<1>2. /\ x.declared = {c.uri : c \in Live(store.classes)}
      /\ x.properties = {[uri |-> p.uri, kind |-> p.kind] : p \in Live(store.properties)}
      /\ x.ranges = {<<p.uri, Iri(Resolved(p.range))>> : p \in {q \in Live(store.properties) : q.range # NoText}}
  BY ExportedFields
<1>3. OwlRows(x) = {RowOfConstraint(store, k) : k \in Written(store)}
  BY <1>1, ExportedRows
<1> HIDE DEF x
<1>4. ASSUME NEW p \in Live(store.properties)
      PROVE  NamedRange(RangeOf(x, p.uri)) = NamedRange(p.range)
  <2>1. PICK t \in AnyValue(x.ranges, p.uri) : RangeOf(x, p.uri) = t.text
    <3>1. AnyValue(x.ranges, p.uri) # {}
      BY DEF AnyValue
    <3> QED BY <3>1 DEF RangeOf
  <2>2. \A q \in Live(store.properties) : q.uri = p.uri => q.range = p.range
    BY <1>1, RangeKept
  <2>3. CASE p.range = NoText
    <3>1. \A e \in x.ranges : e[1] # p.uri
      <4> TAKE e \in x.ranges
      <4>1. PICK q \in Live(store.properties) : q.range # NoText /\ e = <<q.uri, Iri(Resolved(q.range))>>
        BY <1>2
      <4> QED BY <2>2, <2>3, <4>1
    <3>2. t = NoTerm
      BY <2>1, <3>1 DEF AnyValue, ValuesOf
    <3> QED BY <2>1, <2>3, <3>2 DEF NoTerm, BlankNode
  <2>4. CASE p.range # NoText
    <3>1. <<p.uri, Iri(Resolved(p.range))>> \in x.ranges
      BY <1>2, <2>4
    <3>2. Iri(Resolved(p.range)) \in ValuesOf(x.ranges, p.uri)
      <4>1. PICK e \in x.ranges : e = <<p.uri, Iri(Resolved(p.range))>>
        BY <3>1
      <4>2. e[1] = p.uri /\ e[2] = Iri(Resolved(p.range))
        BY <4>1
      <4> QED BY <4>2 DEF ValuesOf
    <3>3. Iri(Resolved(p.range)) \in AnyValue(x.ranges, p.uri)
      BY <3>2 DEF AnyValue
    <3>4. t = Iri(Resolved(p.range))
      BY <1>1, <2>1, <3>3, OneValue
    <3>5. RangeOf(x, p.uri) = Resolved(p.range)
      BY <2>1, <3>4 DEF Iri
    <3> QED BY <3>5, ResolvedName
  <2> QED BY <2>3, <2>4
<1>5. {[uri |-> p.uri, kind |-> p.kind, range |-> NamedRange(p.range)] : p \in Live(store.properties)}
          = {[uri |-> q.uri, kind |-> q.kind, range |-> NamedRange(RangeOf(x, q.uri))] : q \in x.properties}
  <2> DEFINE said(p) == [uri |-> p.uri, kind |-> p.kind, range |-> NamedRange(RangeOf(x, p.uri))]
  <2>1. \A p \in Live(store.properties) :
            /\ [uri |-> p.uri, kind |-> p.kind, range |-> NamedRange(p.range)] = said(p)
            /\ said([uri |-> p.uri, kind |-> p.kind]) = said(p)
    BY <1>4
  <2> HIDE DEF said
  <2>2. {[uri |-> p.uri, kind |-> p.kind, range |-> NamedRange(p.range)] : p \in Live(store.properties)}
            = {said(q) : q \in x.properties}
    <3>1. ASSUME NEW p \in Live(store.properties)
          PROVE  \E q \in x.properties : [uri |-> p.uri, kind |-> p.kind, range |-> NamedRange(p.range)] = said(q)
      <4>1. [uri |-> p.uri, kind |-> p.kind] \in x.properties
        BY <1>2
      <4> QED BY <2>1, <4>1
    <3>2. ASSUME NEW q \in x.properties
          PROVE  \E p \in Live(store.properties) : [uri |-> p.uri, kind |-> p.kind, range |-> NamedRange(p.range)] = said(q)
      <4>1. PICK p \in Live(store.properties) : q = [uri |-> p.uri, kind |-> p.kind]
        BY <1>2
      <4> QED BY <2>1, <4>1
    <3> QED BY <3>1, <3>2
  <2> QED BY <2>2 DEF said
<1>6. {[on |-> r.class, uri |-> r.uri, kind |-> r.kind, value |-> r.value] : r \in OwlRows(x)}
          = {[on |-> UriOf(store, k.on), uri |-> k.uri, kind |-> k.kind, value |-> k.value] : k \in Written(store)}
  BY <1>3, RowsSaid
<1>7. Summary(store) =
          [classes |-> x.declared, subclass |-> x.subclass,
           properties |-> {[uri |-> q.uri, kind |-> q.kind, range |-> NamedRange(RangeOf(x, q.uri))] : q \in x.properties},
           restrictions |-> {[on |-> r.class, uri |-> r.uri, kind |-> r.kind, value |-> r.value] : r \in OwlRows(x)}]
  BY <1>2, <1>5, <1>6, SummaryFields, Zenon DEF x
<1>8. Summary(store) = FileSummary(x)
  BY <1>7, Zenon DEF FileSummary
<1> QED BY <1>8 DEF x

LEMMA FromTheExport ==
    ASSUME ExchangeInv, registered
    PROVE  FromExport(Exported(store), {Summary(store)})
<1> DEFINE x == Exported(store)
<1>1. StoreDocs(store, file) /\ FileAssumption(file) /\ AllClasses(store, file) /\ AllSubclasses(store, file)
  BY DEF ExchangeInv
<1>2. OneRangeEach => {Summary(store)} = {FileSummary(x)}
  BY ExportedSummary
<1>3. x.declared = x.described /\ x.shapes = {} /\ x.declared = Wanted(file)
  BY <1>1, ExportedFields, LiveUris
<1>4. x.subclass = {e \in file.subclass : {e[1], e[2]} \subseteq Wanted(file)}
  BY <1>1, ExportedSubclasses
<1>5. OwlRows(x) = {RowOfConstraint(store, k) : k \in Written(store)}
  BY <1>1, ExportedRows
<1> HIDE DEF x
<1>6. x.declared = Wanted(x)
  BY <1>3 DEF Wanted, ReferenceOnly, Defines
<1>7. x.subclass \subseteq x.declared \X x.declared
  <2> SUFFICES ASSUME NEW e \in x.subclass PROVE e \in x.declared \X x.declared
    OBVIOUS
  <2>1. e = <<e[1], e[2]>> /\ {e[1], e[2]} \subseteq Wanted(file)
    BY <1>1, <1>4 DEF FileAssumption
  <2> QED BY <1>3, <2>1
<1>8. \A r \in OwlRows(x) : IsBound(r.kind) => r.value.text \notin Negative
  <2> TAKE r \in OwlRows(x)
  <2>1. PICK k \in Written(store) : r = RowOfConstraint(store, k)
    BY <1>5
  <2>2. r.kind = k.kind /\ r.value = k.value
    BY <2>1 DEF RowOfConstraint, RowOf
  <2> QED BY <2>2 DEF Written, WellFormed
<1>9. FromExport(x, {Summary(store)})
  BY <1>2, <1>3, <1>6, <1>7, <1>8 DEF FromExport
<1> QED BY <1>9 DEF x

LEMMA EmptyDocs ==
    ASSUME NEW f
    PROVE  StoreDocs(EmptyStore, f)
<1>1. /\ EmptyStore = [classes |-> {}, properties |-> {}, edges |-> {}, constraints |-> {}, made |-> 0]
      /\ EmptyStore.classes = {} /\ EmptyStore.properties = {} /\ EmptyStore.edges = {}
      /\ EmptyStore.constraints = {} /\ EmptyStore.made = 0
  BY DEF EmptyStore
<1>2. {k \in EmptyStore.constraints : k.type = "owl:Restriction"} = {}
  BY <1>1
<1> QED BY <1>1, <1>2, FS_EmptySet DEF StoreDocs, StoreShaped, OwnIds

LEMMA ReimportStep ==
    ASSUME ExchangeInv, Reimport
    PROVE  ExchangeInv'
<1>1. /\ registered /\ ~Busy /\ file' = Exported(store) /\ original' = {Summary(store)} /\ store' = EmptyStore
      /\ registered' = FALSE /\ faults' = MaxFaults /\ importJob' = importJob
  BY DEF Reimport
<1>2. FileAssumption(file') /\ (OneRangeEach => OneRange(file')) /\ FromExport(file', original')
  BY <1>1, ExportedFile, FromTheExport
<1>3. StoreDocs(store', file')
  BY <1>1, EmptyDocs
<1>4. \A w \in Callers : JobDone(importJob'[w], store', file', original' # {})
  <2> TAKE w \in Callers
  <2>1. importJob[w].at = "idle"
    BY <1>1 DEF Busy, AtStep
  <2>2. importJob[w] = [at |-> importJob[w].at, via |-> importJob[w].via, ids |-> importJob[w].ids, metas |-> importJob[w].metas]
    BY DEF ExchangeInv, JobDone
  <2> QED BY <1>1, <2>1, <2>2 DEF JobDone
<1>5. importJob' = [w \in Callers |-> importJob'[w]]
  BY <1>1 DEF ExchangeInv
<1> QED BY <1>1, <1>2, <1>3, <1>4, <1>5 DEF ExchangeInv

LEMMA ExchangeStarts ==
    ASSUME ExchangeInit
    PROVE  ExchangeInv
<1>1. FileAssumption(file) /\ (OneRangeEach => OneRange(file))
  BY ExchangeAssumption DEF ExchangeInit, OneRangeEach
<1>2. StoreDocs(store, file)
  BY EmptyDocs DEF ExchangeInit
<1>3. \A w \in Callers : JobDone(importJob[w], store, file, original # {})
  BY FreshJob DEF ExchangeInit, NoJob
<1> QED BY <1>1, <1>2, <1>3 DEF ExchangeInit, ExchangeInv

LEMMA ExchangeSteps ==
    ASSUME ExchangeInv, [ExchangeNext]_exchange
    PROVE  ExchangeInv'
<1>1. CASE UNCHANGED exchange
  BY <1>1 DEF exchange, ExchangeInv
<1>2. ASSUME NEW w \in Callers, RequestImport(w) \/ StartImport(w) \/ ImportCatalogEntry(w) \/ ParseFile(w)
      PROVE  ExchangeInv'
  BY <1>2, QuietSteps
<1>3. ASSUME NEW w \in Callers, CreateClasses(w)
      PROVE  ExchangeInv'
  BY <1>3, CreateClassesStep
<1>4. ASSUME NEW w \in Callers, CreateProperties(w)
      PROVE  ExchangeInv'
  BY <1>4, CreatePropertiesStep
<1>5. ASSUME NEW w \in Callers, CreateEdges(w)
      PROVE  ExchangeInv'
  BY <1>5, CreateEdgesStep
<1>6. ASSUME NEW w \in Callers, ImportRestrictions(w) \/ ImportShapes(w)
      PROVE  ExchangeInv'
  BY <1>6, ImportConstraintsStep DEF ImportRestrictions, ImportShapes
<1>7. ASSUME NEW w \in Callers, Register(w)
      PROVE  ExchangeInv'
  BY <1>7, LastSteps
<1>8. CASE ImporterDies
  BY <1>8, LastSteps
<1>9. CASE EditImportedClass \/ EditImportedProperty
  BY <1>9, EditClassStep, EditPropertyStep
<1>10. CASE Reimport
  BY <1>10, ReimportStep
<1> QED BY <1>1, <1>2, <1>3, <1>4, <1>5, <1>6, <1>7, <1>8, <1>9, <1>10 DEF ExchangeNext

LEMMA ExchangeHolds == ExchangeSpec => []ExchangeInv
BY ExchangeStarts, ExchangeSteps, PTL DEF ExchangeSpec

LEMMA ExactNow ==
    ASSUME ExchangeInv
    PROVE  ImportExact
<1> SUFFICES ASSUME registered
             PROVE  LET classes == {c \in file.declared : Defines(file, c) \/ PointsAt(file, c)} IN
                    /\ {c.uri : c \in Live(store.classes)} = classes
                    /\ Exported(store).subclass = {e \in file.subclass : {e[1], e[2]} \subseteq classes}
                    /\ \A p \in Live(store.properties) :
                           p.range = NoText <=> ~(\E e \in file.ranges : e[1] = p.uri)
                    /\ \A e \in store.edges : e.type = "rdfs_range_class" /\ e.assertion = "rdfs"
                           => <<UriOf(store, e.from), Iri(UriOf(store, e.to))>> \in file.ranges
                    /\ \A c \in store.constraints :
                           c.property = 0 <=> ~(\E p \in file.properties : p.uri = c.uri)
  BY DEF ImportExact
<1>1. StoreDocs(store, file) /\ FileAssumption(file) /\ AllClasses(store, file) /\ AllSubclasses(store, file)
  BY DEF ExchangeInv
<1>2. Wanted(file) = {c \in file.declared : Defines(file, c) \/ PointsAt(file, c)}
  BY DEF Wanted, ReferenceOnly
<1>3. {c.uri : c \in Live(store.classes)} = Wanted(file)
  BY <1>1, LiveUris
<1>4. Exported(store).subclass = {e \in file.subclass : {e[1], e[2]} \subseteq Wanted(file)}
  BY <1>1, ExportedSubclasses
<1>5. ASSUME NEW p \in Live(store.properties)
      PROVE  p.range = NoText <=> ~(\E e \in file.ranges : e[1] = p.uri)
  <2>1. PICK t \in AnyValue(file.ranges, p.uri) : p.range = t.text
    BY <1>1 DEF StoreDocs, PropertyDoc, Live
  <2>2. CASE \E e \in file.ranges : e[1] = p.uri
    <3>1. PICK e \in file.ranges : e[1] = p.uri /\ t = e[2]
      BY <2>1, <2>2 DEF AnyValue, ValuesOf
    <3>2. e[2].text # NoText
      BY <1>1 DEF FileAssumption
    <3> QED BY <2>1, <2>2, <3>1, <3>2
  <2>3. CASE ~(\E e \in file.ranges : e[1] = p.uri)
    <3>1. t = NoTerm
      BY <2>1, <2>3 DEF AnyValue, ValuesOf
    <3> QED BY <2>1, <2>3, <3>1 DEF NoTerm, BlankNode
  <2> QED BY <2>2, <2>3
<1>6. ASSUME NEW e \in store.edges, e.type = "rdfs_range_class", e.assertion = "rdfs"
      PROVE  <<UriOf(store, e.from), Iri(UriOf(store, e.to))>> \in file.ranges
  <2>1. EdgeDoc(e, store, file) /\ OwnIds(store)
    BY <1>1 DEF StoreDocs
  <2>2. PICK p \in Live(store.properties), c \in Live(store.classes) :
            e.from = p.id /\ e.to = c.id /\ <<p.uri, Iri(c.uri)>> \in file.ranges
    BY <1>6, <2>1 DEF EdgeDoc
  <2>3. UriOf(store, e.from) = p.uri /\ UriOf(store, e.to) = c.uri
    BY <2>1, <2>2, UriOfId DEF Live
  <2> QED BY <2>2, <2>3
<1>7. \A c \in store.constraints : c.property = 0 <=> ~(\E p \in file.properties : p.uri = c.uri)
  BY <1>1 DEF StoreDocs, ConstraintDoc
<1> QED BY <1>2, <1>3, <1>4, <1>5, <1>6, <1>7

LEMMA RoundTripNow ==
    ASSUME ExchangeInv, OneRangeEach
    PROVE  RoundTrip
<1> SUFFICES ASSUME registered, original # {} PROVE original = {Summary(store)}
  BY DEF RoundTrip
<1>1. /\ StoreDocs(store, file) /\ FileAssumption(file) /\ OneRange(file)
      /\ AllClasses(store, file) /\ AllProperties(store, file) /\ AllSubclasses(store, file) /\ AllRows(store, file)
      /\ FromExport(file, original)
  BY DEF ExchangeInv
<1>2. {c.uri : c \in Live(store.classes)} = file.declared
  BY <1>1, LiveUris DEF FromExport
<1>3. Exported(store).subclass = file.subclass
  <2>1. Exported(store).subclass = {e \in file.subclass : {e[1], e[2]} \subseteq Wanted(file)}
    BY <1>1, ExportedSubclasses
  <2>2. \A e \in file.subclass : {e[1], e[2]} \subseteq Wanted(file)
    BY <1>1 DEF FromExport
  <2> QED BY <2>1, <2>2
<1>4. {[uri |-> p.uri, kind |-> p.kind, range |-> NamedRange(p.range)] : p \in Live(store.properties)}
          = {[uri |-> q.uri, kind |-> q.kind, range |-> NamedRange(RangeOf(file, q.uri))] : q \in file.properties}
  <2> DEFINE said(p) == [uri |-> p.uri, kind |-> p.kind, range |-> NamedRange(RangeOf(file, p.uri))]
  <2>1. \A p \in Live(store.properties) :
            /\ [uri |-> p.uri, kind |-> p.kind, range |-> NamedRange(p.range)] = said(p)
            /\ said([uri |-> p.uri, kind |-> p.kind]) = said(p)
    BY <1>1, RangeKept
  <2>2. file.properties = {[uri |-> p.uri, kind |-> p.kind] : p \in Live(store.properties)}
    BY <1>1, LiveNames
  <2> HIDE DEF said
  <2>3. {[uri |-> p.uri, kind |-> p.kind, range |-> NamedRange(p.range)] : p \in Live(store.properties)}
            = {said(q) : q \in file.properties}
    <3>1. ASSUME NEW p \in Live(store.properties)
          PROVE  \E q \in file.properties : [uri |-> p.uri, kind |-> p.kind, range |-> NamedRange(p.range)] = said(q)
      <4>1. [uri |-> p.uri, kind |-> p.kind] \in file.properties
        BY <2>2
      <4> QED BY <2>1, <4>1
    <3>2. ASSUME NEW q \in file.properties
          PROVE  \E p \in Live(store.properties) : [uri |-> p.uri, kind |-> p.kind, range |-> NamedRange(p.range)] = said(q)
      <4>1. PICK p \in Live(store.properties) : q = [uri |-> p.uri, kind |-> p.kind]
        BY <2>2
      <4> QED BY <2>1, <4>1
    <3> QED BY <3>1, <3>2
  <2> QED BY <2>3 DEF said
<1>5. {RowOfConstraint(store, k) : k \in Written(store)} = OwlRows(file)
  <2>1. ASSUME NEW k \in Written(store)
        PROVE  RowOfConstraint(store, k) \in OwlRows(file)
    <3>1. PICK c \in Live(store.classes) : c.id = k.on
      BY DEF Written, OnLive
    <3>2. UriOf(store, k.on) = c.uri /\ RowOf("owl:Restriction", c.uri, k.uri, k.kind, k.value, NoText) \in OwlRows(file)
      BY <1>1, <3>1, OwlConstraint DEF Written
    <3> QED BY <3>2 DEF RowOfConstraint
  <2>2. ASSUME NEW r \in OwlRows(file)
        PROVE  \E k \in Written(store) : r = RowOfConstraint(store, k)
    <3>1. PICK k \in store.constraints, c \in Live(store.classes) :
              k.type = "owl:Restriction" /\ k.on = c.id /\ c.uri = r.class
              /\ k.uri = r.uri /\ k.kind = r.kind /\ k.value = r.value
      BY <1>1 DEF AllRows
    <3>2. UriOf(store, k.on) = c.uri
      BY <1>1, <3>1, OwlConstraint
    <3>3. IsBound(r.kind) => r.value.text \notin Negative
      BY <1>1 DEF FromExport
    <3>4. k \in Written(store)
      BY <3>1, <3>3 DEF Written, OnLive, WellFormed
    <3>5. r = RowOf("owl:Restriction", r.class, r.uri, r.kind, r.value, NoText)
      BY RowsOfFile
    <3> QED BY <3>1, <3>2, <3>4, <3>5 DEF RowOfConstraint
  <2> QED BY <2>1, <2>2
<1>6. {[on |-> r.class, uri |-> r.uri, kind |-> r.kind, value |-> r.value] : r \in OwlRows(file)}
          = {[on |-> UriOf(store, k.on), uri |-> k.uri, kind |-> k.kind, value |-> k.value] : k \in Written(store)}
  BY <1>5, RowsSaid
<1>7. Summary(store) =
          [classes |-> file.declared, subclass |-> file.subclass,
           properties |-> {[uri |-> q.uri, kind |-> q.kind, range |-> NamedRange(RangeOf(file, q.uri))] : q \in file.properties},
           restrictions |-> {[on |-> r.class, uri |-> r.uri, kind |-> r.kind, value |-> r.value] : r \in OwlRows(file)}]
  BY <1>2, <1>3, <1>4, <1>6, SummaryFields, Zenon
<1>8. Summary(store) = FileSummary(file)
  BY <1>7, Zenon DEF FileSummary
<1> QED BY <1>1, <1>8 DEF FromExport

\* What is registered is the file (ontology_import.py:121 and :978): its classes
\* that are more than references, the subclass axioms among them, and a range that
\* entails something only where the file states one, whatever attempts before it
\* stopped half-way, and whatever was edited since.
THEOREM ImportsAreExact == ExchangeSpec => [](ImportExact /\ FileImported)
<1>1. ExchangeInv => ImportExact /\ FileImported
  BY ExactNow DEF FileImported
<1> QED BY <1>1, ExchangeHolds, PTL

\* An export that is imported again has what the ontology had (export.py:436), of
\* files that give no property two ranges.
THEOREM ExportsComeBack ==
    ASSUME OneRangeEach
    PROVE  ExchangeSpec => []RoundTrip
<1>1. ExchangeInv => RoundTrip
  BY RoundTripNow
<1> QED BY <1>1, ExchangeHolds, PTL
=============================================================================
