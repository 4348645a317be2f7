----------------------------- MODULE DataRelease -----------------------------
(***************************************************************************)
(* Release candidates (foundry/src/release.ts) built from the prices in    *)
(* force while Canonicalization goes on changing them.  A builder is a     *)
(* process of `foundry release build`: it reads the prices, then the       *)
(* quarantine and the output directory, writes the candidate beside its    *)
(* place, moves it there and records it.  It may be stopped anywhere.      *)
(***************************************************************************)
EXTENDS Canonicalization, FiniteSets

CONSTANTS
    DataVersion,   \* data versions asked for
    Builder,       \* processes that build
    AtOnce         \* processes, workers or builders, with something in hand (bound)

VARIABLES
    dir,        \* dir[v]: the observations in the directory of v, {} when there is none
    release,    \* data_release and release_observation: those recorded for v, {} if none
    build       \* what each builder has in hand

relVars == <<dir, release, build>>

vars == <<registry, mapping, markets, staged, obs, open, work, txn, past, dir, release, build>>

NoBuild == [pc |-> "idle"]

Busy == {w \in Worker : work[w].pc # "idle"} \cup {c \in Builder : build[c].pc # "idle"}

TypeOK ==
    /\ CanonTypeOK
    /\ dir \in [DataVersion -> SUBSET (Row \X Version)]
    /\ release \in [DataVersion -> SUBSET (Row \X Version)]
    /\ build \in [Builder -> {NoBuild} \cup
                     [pc : {"read", "written", "moved"}, version : DataVersion,
                      records : SUBSET (Row \X Version)]]

Init ==
    /\ CanonInit
    /\ dir = [v \in DataVersion |-> {}]
    /\ release = [v \in DataVersion |-> {}]
    /\ build = [c \in Builder |-> NoBuild]

\* (slip) the gate asks of the observations' own rows only.
OpenRows(ids) == {q \in open : \E i \in ids : i[1] = q[1]}

\* The gate: what is open of the runs that promoted the observations.
OpenIn(ids) == {q \in open : \E o \in obs : Id(o) \in ids /\ o.run = q[3]}

\* The version is new and something is in force.  A transaction under way is not seen.
ReadRecords(c, v) ==
    /\ build[c].pc = "idle" /\ txn = Free
    /\ release[v] = {} /\ InForce # {}
    /\ build' = [build EXCEPT ![c] =
                   [pc |-> "read", version |-> v, records |-> {Id(o) : o \in InForce}]]
    /\ UNCHANGED <<dir, release>>

\* The gate and the directory are looked at, and the files written beside it.
Write(c) ==
    /\ build[c].pc = "read" /\ txn = Free
    /\ build' = [build EXCEPT ![c] =
                   IF OpenIn(build[c].records) = {} /\ dir[build[c].version] = {}
                   THEN [build[c] EXCEPT !.pc = "written"] ELSE NoBuild]
    /\ UNCHANGED <<dir, release>>

\* (slip) the move replaces what is there.
Replaced(c) == [dir EXCEPT ![build[c].version] = build[c].records]

\* The directory takes its place; a move onto one that has files throws.
Moved(c) ==
    IF dir[build[c].version] = {}
    THEN [dir EXCEPT ![build[c].version] = build[c].records] ELSE dir

Move(c) ==
    /\ build[c].pc = "written"
    /\ dir' = Moved(c)
    /\ build' = [build EXCEPT ![c] =
                   IF dir[build[c].version] = {} THEN [build[c] EXCEPT !.pc = "moved"] ELSE NoBuild]
    /\ UNCHANGED release

\* The candidate is recorded, or that fails (the version is there, the database is busy) and
\* its directory is removed.
Record(c) ==
    LET v == build[c].version
    IN  /\ build[c].pc = "moved" /\ txn = Free
        /\ \/ /\ release[v] = {}
              /\ release' = [release EXCEPT ![v] = build[c].records]
              /\ UNCHANGED dir
           \/ dir' = [dir EXCEPT ![v] = {}] /\ UNCHANGED release
        /\ build' = [build EXCEPT ![c] = NoBuild]

Stop(c) ==
    /\ build[c].pc # "idle"
    /\ build' = [build EXCEPT ![c] = NoBuild]
    /\ UNCHANGED <<dir, release>>

RelNext ==
    \E c \in Builder : \/ \E v \in DataVersion : ReadRecords(c, v)
                       \/ Write(c) \/ Move(c) \/ Record(c) \/ Stop(c)

Next ==
    \/ CanonNext /\ UNCHANGED relVars /\ Cardinality(Busy') <= AtOnce
    \/ RelNext /\ UNCHANGED canonVars /\ Cardinality(Busy') <= AtOnce

Spec == Init /\ [][Next]_vars

-----------------------------------------------------------------------------
(* Properties.                                                             *)

\* A recorded candidate has its directory, with what it was recorded with in it: neither another
\* builder of its version, nor one that fails or is stopped, touches it.
RecordedIsThere == \A v \in DataVersion : release[v] # {} => dir[v] = release[v]

\* A candidate with a price that was promoted in the run its document last went through in is
\* written only when the whole document is canonicalized, unless a person closed what was open
\* of it or it is being read again.  (The gate knows no other run: what a later run quarantined
\* of the document does not hold back the prices it left as they were.)
WholeDocuments ==
    [][\A c \in Builder : build[c].pc = "read" /\ build'[c].pc = "written" =>
          \A o \in obs : Id(o) \in build[c].records /\ o.run = past[o.row.art] =>
              \A r \in Rows(o.row.art) : staged[r] = "canonicalized"]_vars
=============================================================================
