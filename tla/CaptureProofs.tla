--------------------------- MODULE CaptureProofs ---------------------------
(***************************************************************************)
(* Proofs about RetailCapture, for any products, prices, labels, bundles   *)
(* and bounds.  What a version that comes back would break is proved of    *)
(* versions that do not; what rests on the labels says so.                 *)
(***************************************************************************)
EXTENDS RetailCapture, TLAPS

-----------------------------------------------------------------------------
(* The inductive invariant.                                                *)

\* What observations say of themselves: each that was made shows a price of its artifact
\* under the mapping of its version, and what it was superseded by was made too.
Made == {o \in Obs : obs[o].status # "free"}

ObsInv ==
    \A o \in Obs :
        /\ o \in Made =>
              /\ obs[o].art \in Stored /\ obs[o].row \in Row /\ obs[o].version \in Bundle
              /\ obs[o].item = Item[obs[o].version][obs[o].row] /\ obs[o].item # NoItem
              /\ obs[o].price = art[obs[o].art].content[obs[o].row]
        /\ o \notin Made => obs[o].by = 0 /\ obs[o].art = 0
        /\ o \in Active => obs[o].by = 0
        /\ obs[o].by # 0 => obs[o].by \in Made

\* Artifacts are stored one after the other, and only the last may be current.
ArtInv ==
    /\ \A a \in Stored, x \in Artifact : x < a => x \in Stored
    /\ \A a \in Artifact : Current(a) # {} => a \in Stored /\ \A x \in Stored : x <= a

\* What the job has in hand.
JobInv ==
    /\ job.pc # "idle" => job.version \in Bundle
    /\ job.pc = "fetched" => job.content # Nothing
    /\ job.pc \in {"stored", "promoting"} => job.art \in Stored
    /\ job.todo # {} => job.pc = "promoting" /\ job.todo \subseteq Current(job.art)

\* The version that promotes next, or is promoting.
InUse == IF job.pc = "idle" THEN bundle ELSE job.version

\* Nothing is of a later version than the one in use.
VersionInv ==
    /\ InUse <= bundle
    /\ \A a \in Artifact : art[a].mapped <= InUse
    /\ \A o \in Obs : obs[o].version <= InUse

\* Promoting row r of artifact a under version b once more would change no price in force:
\* its label has no mapping and it has no price, it was promoted under b, its price is there
\* already, or its label has a price that another row of a got under b.
Settled(a, r, b) ==
    IF Item[b][r] = NoItem
    THEN \A o \in Active : ~(obs[o].art = a /\ obs[o].row = r)
    ELSE \/ Promoted(a, r, b)
         \/ \E o \in ActiveLineage(r) : SamePrice(o, a, r, Item[b][r])
         \/ /\ ActiveLineage(r) = {}
            /\ \E o \in ActiveEffective(r, Item[b][r]) : obs[o].art = a /\ obs[o].version = b

SettledNow ==
    job.pc = "promoting" =>
        \A r \in Current(job.art) \ job.todo : Settled(job.art, r, job.version)

SettledDone ==
    \A a \in Stored : art[a].mapped = InUse => \A r \in Current(a) : Settled(a, r, InUse)

\* Whatever the current snapshot was promoted to under the version in use, its label has a
\* price in force.
ForceMade ==
    \A o \in Made : Current(obs[o].art) # {} /\ obs[o].version = InUse
                    => InForce(obs[o].art, obs[o].row, InUse)

\* So has every row that counts as canonicalized, except those a promotion has still to
\* come to.
ForceRows ==
    \A a \in Stored : \A r \in Current(a) : art[a].stage[r] = "canonicalized" =>
        IF job.pc = "promoting" /\ a = job.art
        THEN r \in job.todo \/ InForce(a, r, job.version)
        ELSE \E b \in Bundle : b >= art[a].mapped /\ InForce(a, r, b)

IInv ==
    /\ TypeOK /\ ObsInv /\ ArtInv /\ JobInv /\ OnePriceInForce /\ HistoryEnds
    /\ ~Rollback => VersionInv
    /\ ~Rollback /\ PacksDiffer => SettledNow /\ SettledDone
    /\ ~Rollback /\ LabelsDecide => ForceMade /\ ForceRows

-----------------------------------------------------------------------------
(* Types.                                                                  *)

Content == Snapshot \cup {Nothing}

Stage == [Row -> {"none", "unmapped", "canonicalized", "stale"}]

ArtRecord == [content : Content, stage : Stage, mapped : Bundle \cup {0}]

ObsRecord == [status : {"free", "active", "superseded"}, art : Artifact \cup {0},
              row : Row \cup {0}, item : Items \cup {NoItem}, price : Price \cup {NoPrice},
              version : Bundle \cup {0}, by : Obs \cup {0}]

JobRecord == [pc : {"idle", "fetched", "stored", "promoting"}, content : Content,
              art : Artifact \cup {0}, unchanged : BOOLEAN, version : Bundle \cup {0},
              todo : SUBSET Row]

LEMMA TypeOKIs ==
    TypeOK <=> /\ art \in [Artifact -> ArtRecord] /\ obs \in [Obs -> ObsRecord]
               /\ bundle \in Bundle /\ job \in JobRecord /\ latest \in Content
BY DEF TypeOK, ArtRecord, ObsRecord, JobRecord, Content, Stage

LEMMA Numbers ==
    /\ Artifact \subseteq Nat \ {0} /\ Obs \subseteq Nat \ {0}
    /\ Bundle \subseteq Nat \ {0} /\ Row \subseteq Nat
BY CaptureAssumption DEF CaptureAssumption, Artifact, Obs

\* No snapshot is empty.
LEMMA NothingOut == Nothing \notin Snapshot
BY DEF Nothing, Snapshot

LEMMA ItemIn ==
    ASSUME NEW b \in Bundle, NEW r \in Row, Item[b][r] # NoItem
    PROVE  Item[b][r] \in Items
<1>1. Item[b][r] \in {Item[b][x] : x \in Row}
  OBVIOUS
<1>2. {Item[b][x] : x \in Row} \in {{Item[c][x] : x \in Row} : c \in Bundle}
  OBVIOUS
<1>3. Item[b][r] \in UNION {{Item[c][x] : x \in Row} : c \in Bundle}
  BY <1>1, <1>2, Zenon
<1> QED
  BY <1>3 DEF Items

LEMMA Versions ==
    ASSUME TypeOK
    PROVE  /\ bundle \in Nat /\ job.version \in Nat /\ InUse \in Nat
           /\ \A o \in Obs : obs[o].version \in Nat
           /\ \A a \in Artifact : art[a].mapped \in Nat
<1>1. Bundle \cup {0} \subseteq Nat
  BY CaptureAssumption DEF CaptureAssumption
<1>2. bundle \in Nat /\ job.version \in Nat
  BY <1>1, TypeOKIs DEF JobRecord
<1>3. ASSUME NEW o \in Obs PROVE obs[o].version \in Nat
  BY <1>1, TypeOKIs DEF ObsRecord
<1>4. ASSUME NEW a \in Artifact PROVE art[a].mapped \in Nat
  BY <1>1, TypeOKIs DEF ArtRecord
<1> QED
  BY <1>2, <1>3, <1>4 DEF InUse

LEMMA VersionsNext ==
    ASSUME TypeOK'
    PROVE  bundle' \in Nat /\ InUse' \in Nat
<1>1. Bundle \cup {0} \subseteq Nat
  BY CaptureAssumption DEF CaptureAssumption
<1>2. bundle' \in Nat /\ job'.version \in Nat
  BY <1>1 DEF TypeOK
<1> QED
  BY <1>2 DEF InUse

LEMMA ContentType == Content \subseteq [Row -> Price \cup {NoPrice}]
BY DEF Content, Snapshot, Nothing

\* Of the rows of a current artifact.
LEMMA CurrentRows ==
    ASSUME NEW a
    PROVE  Current(a) \subseteq Row
BY DEF Current

LEMMA InitTypeOK == Init => TypeOK
<1> SUFFICES ASSUME Init PROVE TypeOK
  OBVIOUS
<1>1. Nothing \in Content /\ [r \in Row |-> "none"] \in Stage
  BY DEF Content, Stage
<1>2. NoArtifact \in ArtRecord
  BY <1>1 DEF NoArtifact, ArtRecord
<1>3. NoObs \in ObsRecord
  BY DEF NoObs, ObsRecord
<1>4. Idle \in JobRecord
  BY <1>1 DEF Idle, JobRecord
<1> QED
  BY <1>1, <1>2, <1>3, <1>4, TypeOKIs DEF Init

LEMMA InitIInv == Init => IInv
<1> SUFFICES ASSUME Init PROVE IInv
  OBVIOUS
<1>1. TypeOK
  BY InitTypeOK
<1>2. Stored = {} /\ Active = {} /\ Made = {}
  BY DEF Init, Stored, Active, Made, NoArtifact, NoObs
<1>3. \A a \in Artifact : Current(a) = {} /\ art[a].mapped = 0
  BY DEF Init, Current, NoArtifact
<1>4. ObsInv /\ ArtInv /\ OnePriceInForce
  BY <1>2, <1>3 DEF ObsInv, ArtInv, OnePriceInForce, Init, NoObs
<1>5. JobInv
  BY DEF JobInv, Init, Idle
<1>6. HistoryEnds
  <2>1. \A o \in Obs : obs[o].by = 0
    BY DEF Init, NoObs
  <2> QED
    BY <2>1, Numbers DEF HistoryEnds
<1>7. VersionInv
  BY <1>3, Numbers DEF VersionInv, InUse, Init, Idle, NoObs
<1>8. SettledNow /\ SettledDone /\ ForceMade /\ ForceRows
  BY <1>2 DEF SettledNow, SettledDone, ForceMade, ForceRows, Init, Idle
<1> QED
  BY <1>1, <1>4, <1>5, <1>6, <1>7, <1>8 DEF IInv


-----------------------------------------------------------------------------
(* Steps that leave the rows alone.                                        *)

LEMMA SameRows ==
    ASSUME obs' = obs, art' = art
    PROVE  /\ Stored' = Stored /\ Active' = Active /\ Made' = Made
           /\ \A a : Current(a)' = Current(a)
           /\ \A a, r, b : Settled(a, r, b)' = Settled(a, r, b)
           /\ \A a, r, b : InForce(a, r, b)' = InForce(a, r, b)
<1>1. Stored' = Stored /\ Active' = Active /\ Made' = Made
  BY DEF Stored, Active, Made
<1>2. \A a : Current(a)' = Current(a)
  BY DEF Current
<1>3. \A r : ActiveLineage(r)' = ActiveLineage(r)
  BY <1>1 DEF ActiveLineage
<1>4. \A r, i : ActiveEffective(r, i)' = ActiveEffective(r, i)
  BY <1>1 DEF ActiveEffective
<1>5. \A a, r, b : Promoted(a, r, b)' = Promoted(a, r, b)
  BY DEF Promoted
<1>6. \A o, a, r, i : SamePrice(o, a, r, i)' = SamePrice(o, a, r, i)
  BY DEF SamePrice
<1>7. \A a, r, b : Settled(a, r, b)' = Settled(a, r, b)
  BY <1>1, <1>3, <1>4, <1>5, <1>6 DEF Settled
<1>8. \A a, r, b : InForce(a, r, b)' = InForce(a, r, b)
  BY <1>4 DEF InForce
<1> QED
  BY <1>1, <1>2, <1>7, <1>8

LEMMA SameRowsInv ==
    ASSUME obs' = obs, art' = art, IInv
    PROVE  ObsInv' /\ ArtInv' /\ OnePriceInForce' /\ HistoryEnds'
<1>1. ObsInv'
  BY SameRows DEF IInv, ObsInv
<1>2. ArtInv'
  BY SameRows DEF IInv, ArtInv
<1>3. OnePriceInForce'
  BY SameRows DEF IInv, OnePriceInForce
<1>4. HistoryEnds'
  BY DEF IInv, HistoryEnds
<1> QED
  BY <1>1, <1>2, <1>3, <1>4

\* The version in use moves on, or stays: nothing is of a version that is new.
LEMMA UseMoves ==
    ASSUME TypeOK, TypeOK', VersionInv, obs' = obs, art' = art,
           InUse <= InUse', InUse' <= bundle'
    PROVE  VersionInv' /\ (SettledDone => SettledDone') /\ (ForceMade => ForceMade')
<1>1. InUse \in Nat /\ InUse' \in Nat
  BY Versions, VersionsNext
<1>2. \A o \in Obs : obs[o].version \in Nat /\ obs[o].version <= InUse
  BY Versions DEF VersionInv
<1>3. \A a \in Artifact : art[a].mapped \in Nat /\ art[a].mapped <= InUse
  BY Versions DEF VersionInv
<1>4. VersionInv'
  BY <1>1, <1>2, <1>3 DEF VersionInv
<1>5. ASSUME InUse # InUse'
      PROVE  /\ \A o \in Obs : obs[o].version # InUse'
             /\ \A a \in Artifact : art[a].mapped # InUse'
  BY <1>1, <1>2, <1>3, <1>5
<1>6. ASSUME SettledDone PROVE SettledDone'
  <2>1. CASE InUse = InUse'
    BY <1>6, <2>1, SameRows DEF SettledDone
  <2>2. CASE InUse # InUse'
    BY <1>5, <2>2, SameRows DEF SettledDone, Stored
  <2> QED
    BY <2>1, <2>2
<1>7. ASSUME ForceMade PROVE ForceMade'
  <2>1. CASE InUse = InUse'
    BY <1>7, <2>1, SameRows DEF ForceMade
  <2>2. CASE InUse # InUse'
    BY <1>5, <2>2, SameRows DEF ForceMade, Made
  <2> QED
    BY <2>1, <2>2
<1> QED
  BY <1>4, <1>6, <1>7

LEMMA ReviewSafe == IInv /\ Review => IInv'
<1> SUFFICES ASSUME IInv, Review PROVE IInv'
  OBVIOUS
<1>0. obs' = obs /\ art' = art /\ job' = job /\ latest' = latest /\ bundle' \in Bundle
      /\ (~Rollback => bundle' > bundle)
  BY DEF Review
<1>1. TypeOK /\ TypeOK'
  BY <1>0 DEF IInv, TypeOK
<1>2. JobInv'
  BY <1>0, SameRows DEF IInv, JobInv
<1>3. ASSUME ~Rollback
      PROVE  InUse <= InUse' /\ InUse' <= bundle'
  <2>1. bundle < bundle' /\ bundle \in Nat /\ bundle' \in Nat /\ job.version \in Nat
    BY <1>0, <1>1, <1>3, Versions, VersionsNext
  <2>2. InUse <= bundle
    BY <1>3 DEF IInv, VersionInv
  <2> QED
    BY <1>0, <2>1, <2>2 DEF InUse
<1>4. (~Rollback => VersionInv') /\ (~Rollback /\ SettledDone => SettledDone')
      /\ (~Rollback /\ ForceMade => ForceMade')
  BY <1>0, <1>1, <1>3, UseMoves DEF IInv
<1>5. SettledNow => SettledNow'
  BY <1>0, SameRows DEF SettledNow
<1>6. ForceRows => ForceRows'
  BY <1>0, SameRows DEF ForceRows
<1> QED
  BY <1>0, <1>1, <1>2, <1>4, <1>5, <1>6, SameRowsInv DEF IInv, PacksDiffer, LabelsDecide

LEMMA FetchSafe == IInv /\ Fetch => IInv'
<1> SUFFICES ASSUME IInv, Fetch PROVE IInv'
  OBVIOUS
<1> PICK s \in Snapshot :
       job' = [Idle EXCEPT !.pc = "fetched", !.content = s, !.version = bundle]
  BY DEF Fetch
<1>0. obs' = obs /\ art' = art /\ latest' = latest /\ bundle' = bundle /\ job.pc = "idle"
  BY DEF Fetch
<1>1. /\ job'.pc = "fetched" /\ job'.content = s /\ job'.version = bundle /\ job'.todo = {}
      /\ job' \in JobRecord
  BY <1>0, TypeOKIs DEF Idle, JobRecord, IInv, Content
<1>2. TypeOK /\ TypeOK'
  BY <1>0, <1>1, TypeOKIs DEF IInv, TypeOK, JobRecord, Content
<1>3. JobInv'
  BY <1>0, <1>1, <1>2, NothingOut, TypeOKIs DEF JobInv
<1>4. InUse' = InUse /\ (~Rollback => InUse' <= bundle')
  BY <1>0, <1>1 DEF InUse, IInv, VersionInv
<1>5. (~Rollback => VersionInv') /\ (~Rollback /\ SettledDone => SettledDone')
      /\ (~Rollback /\ ForceMade => ForceMade')
  BY <1>0, <1>2, <1>4, UseMoves, Versions DEF IInv
<1>6. SettledNow'
  BY <1>1 DEF SettledNow
<1>7. job.todo = {}
  BY <1>0 DEF IInv, JobInv
<1>8. ForceRows => ForceRows'
  BY <1>0, <1>1, <1>7, SameRows DEF ForceRows
<1> QED
  BY <1>0, <1>2, <1>3, <1>5, <1>6, <1>8, SameRowsInv DEF IInv, PacksDiffer, LabelsDecide

\* The job ends with the rows as they are: an unchanged snapshot, or a stop.
LEMMA JobEnds ==
    ASSUME IInv, job.pc # "idle", job.todo = {}, job' = Idle, obs' = obs, art' = art,
           bundle' = bundle, latest' \in Content
    PROVE  IInv'
<1>1. job'.pc = "idle" /\ job'.todo = {} /\ job' \in JobRecord
  BY DEF Idle, JobRecord, Content
<1>2. TypeOK /\ TypeOK'
  BY <1>1, TypeOKIs DEF IInv, TypeOK, JobRecord, Content
<1>3. JobInv'
  BY <1>1 DEF JobInv
<1>4. InUse' = bundle
  BY <1>1 DEF InUse
<1>5. ~Rollback => InUse <= InUse' /\ InUse' <= bundle'
  BY <1>2, <1>4, Versions DEF IInv, VersionInv
<1>6. (~Rollback => VersionInv') /\ (~Rollback /\ SettledDone => SettledDone')
      /\ (~Rollback /\ ForceMade => ForceMade')
  BY <1>2, <1>5, UseMoves DEF IInv
<1>7. SettledNow'
  BY <1>1 DEF SettledNow
<1>8. ASSUME ~Rollback, ForceRows PROVE ForceRows'
  <2>1. \A a \in Artifact : art[a].mapped <= InUse
    BY <1>8 DEF IInv, VersionInv
  <2>2. InUse = job.version /\ job.version \in Bundle
    BY DEF InUse, IInv, JobInv
  <2> QED
    BY <1>1, <1>2, <1>8, <2>1, <2>2, SameRows, Versions DEF ForceRows, Stored
<1> QED
  BY <1>2, <1>3, <1>6, <1>7, <1>8, SameRowsInv DEF IInv, PacksDiffer, LabelsDecide

LEMMA CrashSafe == IInv /\ Crash => IInv'
<1> SUFFICES ASSUME IInv, Crash PROVE IInv'
  OBVIOUS
<1>1. job.pc # "idle" /\ job.todo = {}
  BY DEF Crash, IInv, JobInv
<1> QED
  BY <1>1, JobEnds, TypeOKIs DEF Crash, IInv

\* A promotion of the whole of a stored artifact begins.
LEMMA PromotionBegins ==
    ASSUME IInv, NEW a \in Stored, job' \in JobRecord, job'.pc = "promoting", job'.art = a,
           job'.todo = Current(a), job'.version = InUse, job.todo = {}, job.pc # "promoting",
           obs' = obs, art' = art, bundle' = bundle, latest' = latest
    PROVE  IInv'
<1>1. TypeOK /\ TypeOK'
  BY TypeOKIs DEF IInv, TypeOK, JobRecord, Content
<1>2. InUse \in Bundle
  BY <1>1, TypeOKIs DEF InUse, IInv, JobInv
<1>3. JobInv'
  BY <1>2, SameRows DEF JobInv
<1>4. InUse' = InUse /\ (~Rollback => InUse' <= bundle')
  BY DEF InUse, IInv, VersionInv
<1>5. (~Rollback => VersionInv') /\ (~Rollback /\ SettledDone => SettledDone')
      /\ (~Rollback /\ ForceMade => ForceMade')
  BY <1>1, <1>4, UseMoves, Versions DEF IInv
<1>6. SettledNow'
  BY SameRows DEF SettledNow
<1>7. ASSUME ForceRows PROVE ForceRows'
  <2>1. CASE Current(a) = {}
    BY <1>7, <2>1, SameRows DEF ForceRows
  <2>2. CASE Current(a) # {}
    <3>1. \A x \in Stored : Current(x) # {} => x = a
      <4> SUFFICES ASSUME NEW x \in Stored, Current(x) # {} PROVE x = a
        OBVIOUS
      <4>1. x \in Artifact /\ a \in Artifact /\ x <= a /\ a <= x
        BY <2>2 DEF IInv, ArtInv, Stored
      <4> QED
        BY <4>1, Numbers
    <3> QED
      BY <3>1, SameRows DEF ForceRows
  <2> QED
    BY <2>1, <2>2
<1> QED
  BY <1>1, <1>3, <1>5, <1>6, <1>7, SameRowsInv DEF IInv, PacksDiffer, LabelsDecide

LEMMA RemapSafe == IInv /\ Remap => IInv'
<1> SUFFICES ASSUME IInv, Remap PROVE IInv'
  OBVIOUS
<1> PICK a \in Stored :
       job' = [Idle EXCEPT !.pc = "promoting", !.art = a, !.version = bundle, !.todo = Current(a)]
  BY DEF Remap
<1>1. /\ obs' = obs /\ art' = art /\ latest' = latest /\ bundle' = bundle
      /\ job.pc = "idle" /\ job.todo = {} /\ InUse = bundle
  BY DEF Remap, IInv, JobInv, InUse
<1>2. /\ job' \in JobRecord /\ job'.pc = "promoting" /\ job'.art = a
      /\ job'.version = bundle /\ job'.todo = Current(a)
  BY TypeOKIs, CurrentRows DEF Idle, JobRecord, IInv, Content, Stored
<1> QED
  BY <1>1, <1>2, PromotionBegins

LEMMA CanonicalizeSafe == IInv /\ Canonicalize => IInv'
<1> SUFFICES ASSUME IInv, Canonicalize PROVE IInv'
  OBVIOUS
<1>1. /\ obs' = obs /\ art' = art /\ bundle' = bundle
      /\ job.pc = "stored" /\ job.todo = {} /\ job.art \in Stored
  BY DEF Canonicalize, IInv, JobInv
<1>2. CASE job.unchanged /\ art[job.art].mapped = job.version
  <2>1. job' = Idle /\ latest' \in Content
    BY <1>2, TypeOKIs DEF Canonicalize, IInv, JobRecord
  <2> QED
    BY <1>1, <2>1, JobEnds
<1>3. CASE ~(job.unchanged /\ art[job.art].mapped = job.version)
  <2>1. job' = [job EXCEPT !.pc = "promoting", !.todo = Current(job.art)] /\ latest' = latest
    BY <1>3 DEF Canonicalize
  <2>2. /\ job' \in JobRecord /\ job'.pc = "promoting" /\ job'.art = job.art
        /\ job'.version = InUse /\ job'.todo = Current(job.art)
    BY <1>1, <2>1, TypeOKIs, CurrentRows DEF JobRecord, IInv, InUse
  <2> QED
    BY <1>1, <2>1, <2>2, PromotionBegins
<1> QED
  BY <1>2, <1>3


-----------------------------------------------------------------------------
(* Storing a snapshot, and the end of a promotion.                         *)

LEMMA FreshIs ==
    ASSUME NEW s \in Content
    PROVE  /\ Fresh(s) \in Stage
           /\ \A r \in Row : Fresh(s)[r] \in {"none", "unmapped"}
BY DEF Fresh, Stage

LEMMA AllStaleIs ==
    ASSUME NEW stage \in Stage
    PROVE  /\ AllStale(stage) \in Stage
           /\ \A r \in Row : AllStale(stage)[r] \in {"none", "stale"}
BY DEF AllStale, Stage

\* A snapshot the day has already.
LEMMA StoreSame ==
    ASSUME IInv, job.pc = "fetched", NEW a \in Identical, obs' = obs, art' = art,
           bundle' = bundle, latest' = latest,
           job' = [job EXCEPT !.pc = "stored", !.art = a, !.unchanged = TRUE]
    PROVE  IInv'
<1>0. a \in Stored
  BY DEF Identical
<1>1. /\ job' \in JobRecord /\ job'.pc = "stored" /\ job'.art = a /\ job'.todo = job.todo
      /\ job'.version = job.version /\ job.todo = {}
  BY <1>0, TypeOKIs DEF IInv, JobRecord, JobInv, Stored
<1>2. TypeOK /\ TypeOK'
  BY <1>1, TypeOKIs DEF IInv, TypeOK, JobRecord, Content
<1>3. JobInv'
  BY <1>0, <1>1, SameRows DEF JobInv, IInv
<1>4. InUse' = InUse /\ (~Rollback => InUse' <= bundle')
  BY <1>1 DEF InUse, IInv, VersionInv
<1>5. (~Rollback => VersionInv') /\ (~Rollback /\ SettledDone => SettledDone')
      /\ (~Rollback /\ ForceMade => ForceMade')
  BY <1>2, <1>4, UseMoves, Versions DEF IInv
<1>6. SettledNow'
  BY <1>1 DEF SettledNow
<1>7. ForceRows => ForceRows'
  BY <1>1, SameRows DEF ForceRows
<1> QED
  BY <1>2, <1>3, <1>5, <1>6, <1>7, SameRowsInv DEF IInv, PacksDiffer, LabelsDecide

\* A snapshot of its own: the artifacts before it are no longer current.
LEMMA StoreNew ==
    ASSUME IInv, job.pc = "fetched", NEW a \in Artifact, a \notin Stored,
           \A x \in Artifact \ Stored : a <= x,
           art' = [x \in Artifact |->
                  IF x = a THEN [content |-> job.content, mapped |-> 0, stage |-> Fresh(job.content)]
                  ELSE [art[x] EXCEPT !.stage = AllStale(@)]],
           job' = [job EXCEPT !.pc = "stored", !.art = a],
           obs' = obs, bundle' = bundle, latest' = latest
    PROVE  IInv'
<1>1. /\ job' \in JobRecord /\ job'.pc = "stored" /\ job'.art = a /\ job'.todo = {}
      /\ job'.version = job.version /\ job.content \in Content /\ job.content # Nothing
      /\ job.version \in Bundle
  BY TypeOKIs DEF IInv, JobRecord, JobInv
<1>2. /\ art'[a].content = job.content /\ art'[a].mapped = 0 /\ art'[a].stage = Fresh(job.content)
      /\ \A x \in Artifact \ {a} : /\ art'[x].content = art[x].content
                                   /\ art'[x].mapped = art[x].mapped
                                   /\ art'[x].stage = AllStale(art[x].stage)
  <2>1. \A x \in Artifact : art[x] \in ArtRecord
    BY TypeOKIs DEF IInv
  <2> QED
    BY <2>1 DEF ArtRecord
<1>3. art' \in [Artifact -> ArtRecord]
  <2> SUFFICES ASSUME NEW x \in Artifact PROVE art'[x] \in ArtRecord
    OBVIOUS
  <2>1. art[x] \in ArtRecord
    BY TypeOKIs DEF IInv
  <2>2. CASE x = a
    BY <1>1, <2>2, FreshIs DEF ArtRecord
  <2>3. CASE x # a
    <3>1. AllStale(art[x].stage) \in Stage
      BY <2>1, AllStaleIs DEF ArtRecord
    <3> QED
      BY <2>1, <2>3, <3>1 DEF ArtRecord
  <2> QED
    BY <2>2, <2>3
<1>4. TypeOK /\ TypeOK'
  BY <1>1, <1>3, TypeOKIs DEF IInv, TypeOK, JobRecord, ArtRecord, Content, Stage
<1>5. Stored' = Stored \cup {a} /\ Stored \subseteq Artifact /\ Made' = Made /\ Active' = Active
  BY <1>1, <1>2 DEF Stored, Made, Active
<1>6. \A x \in Artifact \ {a} : Current(x)' = {}
  <2> SUFFICES ASSUME NEW x \in Artifact \ {a} PROVE Current(x)' = {}
    OBVIOUS
  <2>1. \A r \in Row : art'[x].stage[r] \in {"none", "stale"}
    <3>1. art[x].stage \in Stage
      BY TypeOKIs DEF IInv, ArtRecord
    <3> QED
      BY <1>2, <3>1, AllStaleIs
  <2> QED
    BY <2>1 DEF Current
<1>7. \A r \in Row : art'[a].stage[r] \in {"none", "unmapped"}
  BY <1>1, <1>2, FreshIs
<1>8. ObsInv'
  BY <1>2, <1>5 DEF IInv, ObsInv
<1>9. ArtInv'
  <2>1. ASSUME NEW x \in Stored', NEW y \in Artifact, y < x
        PROVE  y \in Stored'
    <3>1. x \in Artifact /\ x \in Nat /\ y \in Nat /\ a \in Nat
      BY <1>5, Numbers
    <3>2. CASE x = a
      BY <1>5, <2>1, <3>1, <3>2
    <3>3. CASE x \in Stored
      BY <1>5, <2>1, <3>3 DEF IInv, ArtInv
    <3> QED
      BY <1>5, <3>2, <3>3
  <2>2. ASSUME NEW x \in Artifact, Current(x)' # {}
        PROVE  x \in Stored' /\ \A y \in Stored' : y <= x
    <3>1. x = a
      BY <1>6, <2>2
    <3>2. ASSUME NEW y \in Stored PROVE y <= a
      <4>1. y \in Nat /\ a \in Nat /\ ~(a < y)
        BY <1>5, Numbers DEF IInv, ArtInv
      <4> QED
        BY <4>1
    <3>3. a <= a
      BY Numbers
    <3> QED
      BY <1>5, <3>1, <3>2, <3>3
  <2> QED
    BY <2>1, <2>2 DEF ArtInv
<1>10. JobInv'
  BY <1>1, <1>5 DEF JobInv
<1>11. OnePriceInForce' /\ HistoryEnds'
  BY <1>5 DEF IInv, OnePriceInForce, HistoryEnds
<1>12. InUse' = InUse /\ InUse \in Bundle
  BY <1>1 DEF InUse
<1>13. ~Rollback => VersionInv'
  <2>1. \A x \in Artifact : VersionInv => art'[x].mapped <= InUse
    <3>1. 0 <= InUse
      BY <1>4, Versions
    <3> QED
      BY <1>2, <3>1 DEF VersionInv
  <2> QED
    BY <1>12, <2>1 DEF IInv, VersionInv
<1>14. SettledNow'
  BY <1>1 DEF SettledNow
<1>15. SettledDone'
  <2>1. art'[a].mapped # InUse'
    BY <1>2, <1>12, Numbers
  <2> QED
    BY <1>5, <1>6, <2>1 DEF SettledDone
<1>16. ForceMade'
  <2>1. \A o \in Made : obs[o].art \in Artifact \ {a}
    BY <1>5 DEF IInv, ObsInv, Made
  <2> QED
    BY <1>5, <1>6, <2>1 DEF ForceMade
<1>17. ForceRows'
  <2>1. \A r \in Current(a)' : art'[a].stage[r] # "canonicalized"
    BY <1>7 DEF Current
  <2> QED
    BY <1>5, <1>6, <2>1 DEF ForceRows
<1> QED
  BY <1>4, <1>8, <1>9, <1>10, <1>11, <1>13, <1>14, <1>15, <1>16, <1>17
     DEF IInv, PacksDiffer, LabelsDecide

LEMMA StoreSafe == IInv /\ Store => IInv'
<1> SUFFICES ASSUME IInv, Store PROVE IInv'
  OBVIOUS
<1>1. CASE Identical # {}
  <2>1. (CHOOSE a \in Identical : TRUE) \in Identical
    BY <1>1
  <2> QED
    BY <1>1, <2>1, StoreSame DEF Store
<1>2. CASE Identical = {}
  BY <1>2, StoreNew DEF Store
<1> QED
  BY <1>1, <1>2

\* Nothing but what the artifacts remember is changed.
LEMMA SameContent ==
    ASSUME obs' = obs,
           \A x \in Artifact : art'[x].content = art[x].content
    PROVE  /\ Stored' = Stored /\ Active' = Active /\ Made' = Made
           /\ \A a \in Artifact : \A r, b : Settled(a, r, b)' = Settled(a, r, b)
           /\ \A a \in Artifact : \A r, b : InForce(a, r, b)' = InForce(a, r, b)
<1>1. Stored' = Stored /\ Active' = Active /\ Made' = Made
  BY DEF Stored, Active, Made
<1>3. \A r : ActiveLineage(r)' = ActiveLineage(r)
  BY <1>1 DEF ActiveLineage
<1>4. \A r, i : ActiveEffective(r, i)' = ActiveEffective(r, i)
  BY <1>1 DEF ActiveEffective
<1>5. \A a, r, b : Promoted(a, r, b)' = Promoted(a, r, b)
  BY DEF Promoted
<1>6. \A a \in Artifact : \A o, r, i : SamePrice(o, a, r, i)' = SamePrice(o, a, r, i)
  BY DEF SamePrice
<1>7. \A a \in Artifact : \A r, b : Settled(a, r, b)' = Settled(a, r, b)
  BY <1>1, <1>3, <1>4, <1>5, <1>6 DEF Settled
<1>8. \A a \in Artifact : \A r, b : InForce(a, r, b)' = InForce(a, r, b)
  BY <1>4 DEF InForce
<1> QED
  BY <1>1, <1>7, <1>8

LEMMA EndPromotionSafe == IInv /\ EndPromotion => IInv'
<1> SUFFICES ASSUME IInv, EndPromotion PROVE IInv'
  OBVIOUS
<1> DEFINE a == job.art
<1>1. /\ job.pc = "promoting" /\ job.todo = {} /\ a \in Stored /\ a \in Artifact
      /\ job.version \in Bundle /\ InUse = job.version
      /\ obs' = obs /\ bundle' = bundle /\ job' = Idle
  BY DEF EndPromotion, IInv, JobInv, Stored, InUse
<1>2. job'.pc = "idle" /\ job'.todo = {} /\ job' \in JobRecord
  BY <1>1 DEF Idle, JobRecord, Content
<1>3. /\ art'[a].mapped = job.version
      /\ \A x \in Artifact : /\ art'[x].content = art[x].content
                             /\ art'[x].stage = art[x].stage
                             /\ x # a => art'[x].mapped = art[x].mapped
      /\ art' \in [Artifact -> ArtRecord]
  <2>1. art \in [Artifact -> ArtRecord]
    BY TypeOKIs DEF IInv
  <2>2. art' = [art EXCEPT ![a].mapped = job.version]
    BY DEF EndPromotion
  <2> QED
    BY <1>1, <2>1, <2>2 DEF ArtRecord
<1>4. latest' \in Content
  BY TypeOKIs DEF EndPromotion, IInv, JobRecord
<1>5. TypeOK /\ TypeOK'
  BY <1>1, <1>2, <1>3, <1>4, TypeOKIs DEF IInv, TypeOK, JobRecord, ArtRecord, Content, Stage
<1>6. Stored \subseteq Artifact /\ \A x \in Artifact : Current(x)' = Current(x)
  BY <1>3 DEF Stored, Current
<1>7. ObsInv'
  BY <1>1, <1>3, <1>6, SameContent DEF IInv, ObsInv
<1>8. ArtInv'
  BY <1>1, <1>3, <1>6, SameContent DEF IInv, ArtInv
<1>9. JobInv'
  BY <1>2 DEF JobInv
<1>10. OnePriceInForce' /\ HistoryEnds'
  BY <1>1, <1>3, SameContent DEF IInv, OnePriceInForce, HistoryEnds
<1>11. InUse' = bundle
  BY <1>1, <1>2 DEF InUse
<1>12. ASSUME ~Rollback
       PROVE  /\ InUse \in Nat /\ bundle \in Nat /\ InUse <= bundle
              /\ \A x \in Artifact : art[x].mapped \in Nat /\ art[x].mapped <= InUse
              /\ \A o \in Obs : obs[o].version \in Nat /\ obs[o].version <= InUse
  BY <1>5, <1>12, Versions DEF IInv, VersionInv
<1>13. ~Rollback => VersionInv'
  <2> SUFFICES ASSUME ~Rollback PROVE VersionInv'
    OBVIOUS
  <2>1. \A x \in Artifact : art'[x].mapped <= bundle
    BY <1>1, <1>3, <1>12
  <2>2. \A o \in Obs : obs'[o].version <= bundle
    BY <1>1, <1>12
  <2>3. bundle <= bundle
    BY <1>12
  <2> QED
    BY <1>1, <1>11, <2>1, <2>2, <2>3 DEF VersionInv
<1>14. SettledNow'
  BY <1>2 DEF SettledNow
<1>15. ASSUME ~Rollback, SettledNow, SettledDone PROVE SettledDone'
  <2> SUFFICES ASSUME NEW x \in Stored, art'[x].mapped = bundle, NEW r \in Current(x)
               PROVE  Settled(x, r, bundle)
    BY <1>1, <1>3, <1>6, <1>11, SameContent DEF SettledDone
  <2>1. CASE x = a
    BY <1>1, <1>3, <1>15, <2>1 DEF SettledNow
  <2>2. CASE x # a
    <3>1. InUse = bundle /\ art[x].mapped = InUse
      BY <1>3, <1>6, <1>12, <1>15, <2>2
    <3> QED
      BY <1>15, <3>1 DEF SettledDone
  <2> QED
    BY <2>1, <2>2
<1>16. ASSUME ~Rollback, ForceMade PROVE ForceMade'
  <2> SUFFICES ASSUME NEW o \in Made, Current(obs[o].art) # {}, obs[o].version = bundle
               PROVE  InForce(obs[o].art, obs[o].row, bundle)
    <3>1. \A o \in Made : obs[o].art \in Artifact
      BY <1>6 DEF IInv, ObsInv, Made
    <3> QED
      BY <1>1, <1>3, <1>6, <1>11, <3>1, SameContent DEF ForceMade
  <2>1. InUse = bundle
    BY <1>12, <1>16 DEF Made
  <2> QED
    BY <1>16, <2>1 DEF ForceMade
<1>17. ASSUME ForceRows PROVE ForceRows'
  <2> SUFFICES ASSUME NEW x \in Stored, NEW r \in Current(x), art[x].stage[r] = "canonicalized"
               PROVE  \E b \in Bundle : b >= art'[x].mapped /\ InForce(x, r, b)
    BY <1>1, <1>2, <1>3, <1>6, SameContent DEF ForceRows
  <2>1. CASE x = a
    <3>1. InForce(x, r, job.version)
      BY <1>1, <1>17, <2>1 DEF ForceRows
    <3>2. job.version >= art'[x].mapped
      <4>1. art'[x].mapped = job.version /\ job.version \in Nat
        BY <1>3, <1>5, <2>1, Versions
      <4> QED
        BY <4>1
    <3> QED
      BY <1>1, <3>1, <3>2
  <2>2. CASE x # a
    BY <1>3, <1>6, <1>17, <2>2 DEF ForceRows
  <2> QED
    BY <2>1, <2>2
<1> QED
  BY <1>5, <1>7, <1>8, <1>9, <1>10, <1>13, <1>14, <1>15, <1>16, <1>17
     DEF IInv, PacksDiffer, LabelsDecide


-----------------------------------------------------------------------------
(* A row of a promotion.                                                   *)

\* What becomes of the artifact and the job.
RowStep(r, st) ==
    /\ job.pc = "promoting" /\ r \in job.todo
    /\ art' = [art EXCEPT ![job.art].stage[r] = st]
    /\ job' = [job EXCEPT !.todo = @ \ {r}]
    /\ bundle' = bundle /\ latest' = latest

LEMMA RowStepIs ==
    ASSUME IInv, NEW r, NEW st \in {"unmapped", "canonicalized"}, RowStep(r, st)
    PROVE  /\ job.art \in Stored /\ job.art \in Artifact /\ job.version \in Bundle
           /\ r \in Row /\ r \in Current(job.art)
           /\ InUse = job.version /\ InUse' = InUse
           /\ art' \in [Artifact -> ArtRecord] /\ job' \in JobRecord
           /\ job'.pc = "promoting" /\ job'.art = job.art /\ job'.version = job.version
           /\ job'.todo = job.todo \ {r}
           /\ \A x \in Artifact : art'[x].content = art[x].content /\ art'[x].mapped = art[x].mapped
           /\ art'[job.art].stage[r] = st
           /\ \A q \in Row \ {r} : art'[job.art].stage[q] = art[job.art].stage[q]
           /\ Stored' = Stored
           /\ \A x \in Artifact : Current(x)' = Current(x)
           /\ \A x \in Artifact : Current(x) # {} => x = job.art
<1> DEFINE a == job.art
<1>1. /\ a \in Stored /\ a \in Artifact /\ job.version \in Bundle
      /\ r \in Current(a) /\ r \in Row /\ InUse = job.version
  BY DEF RowStep, IInv, JobInv, Stored, Current, InUse
<1>2. art \in [Artifact -> ArtRecord] /\ job \in JobRecord
  BY TypeOKIs DEF IInv
<1>3. /\ job' \in JobRecord /\ job'.pc = "promoting" /\ job'.art = a
      /\ job'.version = job.version /\ job'.todo = job.todo \ {r}
  BY <1>2 DEF RowStep, JobRecord
<1>4. art[a].stage \in Stage
  BY <1>1, <1>2 DEF ArtRecord
<1>5. /\ art'[a] = [art[a] EXCEPT !.stage = [art[a].stage EXCEPT ![r] = st]]
      /\ \A x \in Artifact \ {a} : art'[x] = art[x]
      /\ DOMAIN art' = Artifact
      /\ art' = [art EXCEPT ![a] = [art[a] EXCEPT !.stage = [art[a].stage EXCEPT ![r] = st]]]
  BY <1>1, <1>2 DEF RowStep
<1>6. [art[a].stage EXCEPT ![r] = st] \in Stage
  BY <1>4 DEF Stage
<1>7. /\ art'[a].stage = [art[a].stage EXCEPT ![r] = st]
      /\ art'[a].content = art[a].content /\ art'[a].mapped = art[a].mapped
      /\ art'[a] \in ArtRecord
  BY <1>1, <1>2, <1>5, <1>6 DEF ArtRecord
<1>8. art' \in [Artifact -> ArtRecord]
  BY <1>1, <1>2, <1>5, <1>7
<1>9. art'[a].stage[r] = st /\ \A q \in Row \ {r} : art'[a].stage[q] = art[a].stage[q]
  BY <1>1, <1>4, <1>7 DEF Stage
<1>10. \A x \in Artifact : art'[x].content = art[x].content /\ art'[x].mapped = art[x].mapped
  BY <1>5, <1>7
<1>11. Stored' = Stored
  BY <1>10 DEF Stored
<1>12. \A x \in Artifact : Current(x)' = Current(x)
  <2> SUFFICES ASSUME NEW x \in Artifact PROVE Current(x)' = Current(x)
    OBVIOUS
  <2>1. CASE x = a
    <3>1. art'[x].stage[r] = st /\ \A q \in Row \ {r} : art'[x].stage[q] = art[x].stage[q]
      BY <1>9, <2>1
    <3>2. r \in Current(x) /\ r \in Row
      BY <1>1, <2>1
    <3> QED
      BY <3>1, <3>2 DEF Current
  <2>2. CASE x # a
    BY <1>5, <2>2 DEF Current
  <2> QED
    BY <2>1, <2>2
<1>13. \A x \in Artifact : Current(x) # {} => x = a
  <2> SUFFICES ASSUME NEW x \in Artifact, Current(x) # {} PROVE x = a
    OBVIOUS
  <2>1. x <= a /\ a <= x /\ x \in Nat /\ a \in Nat
    BY <1>1, Numbers DEF IInv, ArtInv
  <2> QED
    BY <2>1
<1>14. InUse' = InUse
  BY <1>1, <1>3 DEF InUse
<1> QED
  BY <1>1, <1>3, <1>8, <1>9, <1>10, <1>11, <1>12, <1>13, <1>14

LEMMA RowStepInv ==
    ASSUME IInv, NEW r, NEW st \in {"unmapped", "canonicalized"}, RowStep(r, st),
           obs' \in [Obs -> ObsRecord]
    PROVE  TypeOK' /\ ArtInv' /\ JobInv'
<1>1. TypeOK'
  BY RowStepIs, TypeOKIs
     DEF RowStep, IInv, TypeOK, ArtRecord, ObsRecord, JobRecord, Content, Stage
<1>2. ArtInv'
  BY RowStepIs DEF IInv, ArtInv
<1>3. JobInv'
  BY RowStepIs DEF IInv, JobInv
<1> QED
  BY <1>1, <1>2, <1>3

\* The versions, when every observation keeps its own or gets the one in use.
LEMMA RowStepVersions ==
    ASSUME IInv, ~Rollback, NEW r, NEW st \in {"unmapped", "canonicalized"}, RowStep(r, st),
           \A o \in Obs : obs'[o].version \in {obs[o].version, job.version}
    PROVE  VersionInv'
<1>1. TypeOK /\ VersionInv
  BY DEF IInv
<1>2. InUse \in Nat /\ InUse = job.version /\ InUse' = InUse
  BY <1>1, RowStepIs, Versions
<1>3. \A o \in Obs : obs'[o].version <= InUse
  BY <1>1, <1>2 DEF VersionInv
<1> QED
  BY <1>1, <1>2, <1>3, RowStepIs DEF VersionInv, RowStep

\* What is left to show of the rows that are done, from what holds of each row.
LEMMA RowStepSettled ==
    ASSUME IInv, NEW a, a = job.art, NEW v, v = job.version,
           NEW r, NEW st \in {"unmapped", "canonicalized"}, RowStep(r, st),
           SettledNow, SettledDone, Settled(a, r, v)',
           \A q \in Row : Settled(a, q, v) => Settled(a, q, v)'
    PROVE  SettledNow' /\ SettledDone'
<1>0. job'.art = a /\ job'.version = v /\ InUse = v /\ InUse' = v
  BY RowStepIs
<1>1. SettledNow'
  <2> SUFFICES ASSUME NEW q \in Current(a), q \notin job.todo \/ q = r
               PROVE  Settled(a, q, v)'
    BY <1>0, RowStepIs DEF SettledNow
  <2>1. q \in Row
    BY DEF Current
  <2> QED
    BY <2>1, RowStepIs DEF SettledNow, RowStep
<1>2. SettledDone'
  <2> SUFFICES ASSUME NEW x \in Stored, art[x].mapped = v, NEW q \in Current(x)
               PROVE  Settled(x, q, v)'
    BY <1>0, RowStepIs DEF SettledDone, Stored
  <2>1. x = a /\ q \in Row
    BY RowStepIs DEF Stored, Current
  <2>2. Settled(a, q, v)'
    BY <1>0, <2>1 DEF SettledDone
  <2> QED
    BY <2>1, <2>2
<1> QED
  BY <1>1, <1>2

LEMMA RowStepForce ==
    ASSUME IInv, NEW a, a = job.art, NEW v, v = job.version,
           NEW r, NEW st \in {"unmapped", "canonicalized"}, RowStep(r, st), ForceRows,
           st = "canonicalized" => InForce(a, r, v)',
           \A q \in Row : InForce(a, q, v) => InForce(a, q, v)'
    PROVE  ForceRows'
<1>0. job'.art = a /\ job'.version = v
  BY RowStepIs
<1> SUFFICES ASSUME NEW x \in Stored, NEW q \in Current(x), art'[x].stage[q] = "canonicalized"
             PROVE  q \in job.todo \ {r} \/ InForce(a, q, v)'
  BY <1>0, RowStepIs DEF ForceRows, Stored
<1>1. x = a /\ q \in Row /\ q \in Current(a)
  BY RowStepIs DEF Stored, Current
<1>2. CASE q = r
  BY <1>1, <1>2, RowStepIs
<1>3. CASE q # r
  <2>1. art[x].stage[q] = "canonicalized"
    BY <1>1, <1>3, RowStepIs
  <2>2. q \in job.todo \/ InForce(a, q, v)
    BY <1>1, <2>1 DEF ForceRows, RowStep
  <2> QED
    BY <1>1, <1>3, <2>2
<1> QED
  BY <1>2, <1>3

\* The label has no mapping: a price this row put in force is withdrawn.
LEMMA WithdrawnIs ==
    ASSUME TypeOK, NEW a, NEW r, obs' = Withdrawn(a, r)
    PROVE  /\ obs' \in [Obs -> ObsRecord]
           /\ \A o \in Obs : /\ obs'[o].art = obs[o].art /\ obs'[o].row = obs[o].row
                             /\ obs'[o].item = obs[o].item /\ obs'[o].price = obs[o].price
                             /\ obs'[o].version = obs[o].version /\ obs'[o].by = obs[o].by
           /\ Made' = Made
           /\ Active' = {o \in Active : ~(obs[o].art = a /\ obs[o].row = r)}
<1>1. obs \in [Obs -> ObsRecord]
  BY TypeOKIs
<1>2. ASSUME NEW o \in Obs
      PROVE  /\ obs'[o] \in ObsRecord
             /\ obs'[o].art = obs[o].art /\ obs'[o].row = obs[o].row
             /\ obs'[o].item = obs[o].item /\ obs'[o].price = obs[o].price
             /\ obs'[o].version = obs[o].version /\ obs'[o].by = obs[o].by
             /\ obs'[o].status = IF o \in Active /\ obs[o].art = a /\ obs[o].row = r
                                 THEN "superseded" ELSE obs[o].status
  BY <1>1, <1>2 DEF Withdrawn, ObsRecord
<1>3. obs' \in [Obs -> ObsRecord]
  BY <1>2 DEF Withdrawn
<1>4. Made' = Made /\ Active' = {o \in Active : ~(obs[o].art = a /\ obs[o].row = r)}
  BY <1>2 DEF Made, Active
<1> QED
  BY <1>2, <1>3, <1>4

\* A price that another row of the artifact has is not withdrawn with r's, when its label is
\* mapped the same way.
LEMMA WithdrawnSettled ==
    ASSUME IInv, PacksDiffer, NEW a, a = job.art, NEW v, v = job.version,
           NEW r, RowStep(r, "unmapped"), Item[v][r] = NoItem,
           obs' = Withdrawn(a, r)
    PROVE  /\ Settled(a, r, v)'
           /\ \A q \in Row : Settled(a, q, v) => Settled(a, q, v)'
<1>1. /\ TypeOK /\ r \in Row /\ v \in Bundle /\ a \in Artifact /\ art'[a].content = art[a].content
  BY RowStepIs DEF IInv
<1>2. Settled(a, r, v)'
  <2>1. \A o \in Active' : ~(obs'[o].art = a /\ obs'[o].row = r)
    BY <1>1, WithdrawnIs DEF Active
  <2> QED
    BY <2>1 DEF Settled
<1>3. ASSUME NEW q \in Row, Settled(a, q, v)
      PROVE  Settled(a, q, v)'
  <2>1. CASE Item[v][q] = NoItem
    <3>1. \A o \in Active : ~(obs[o].art = a /\ obs[o].row = q)
      BY <1>3, <2>1 DEF Settled
    <3>2. \A o \in Active' : ~(obs'[o].art = a /\ obs'[o].row = q)
      BY <1>1, <3>1, WithdrawnIs DEF Active
    <3> QED
      BY <2>1, <3>2 DEF Settled
  <2>2. CASE Item[v][q] # NoItem /\ Promoted(a, q, v)
    <3>1. PICK o \in Obs : obs[o].art = a /\ obs[o].row = q /\ obs[o].version = v
      BY <2>2 DEF Promoted
    <3>2. Promoted(a, q, v)'
      BY <1>1, <3>1, WithdrawnIs DEF Promoted
    <3> QED
      BY <1>1, <2>2, <3>2 DEF Settled
  <2>3. ASSUME Item[v][q] # NoItem,
               NEW o \in ActiveLineage(q), SamePrice(o, a, q, Item[v][q])
        PROVE  Settled(a, q, v)'
    <3>1. o \in Active /\ o \in Obs /\ Lineage[obs[o].row] = Lineage[q]
      BY DEF ActiveLineage, Active
    <3>2. obs[o].row # r
      BY <1>1, <2>3, <3>1 DEF PacksDiffer
    <3>3. o \in ActiveLineage(q)'
      BY <1>1, <3>1, <3>2, WithdrawnIs DEF ActiveLineage
    <3>4. SamePrice(o, a, q, Item[v][q])'
      BY <1>1, <2>3, <3>1, WithdrawnIs DEF SamePrice
    <3> QED
      BY <1>1, <2>3, <3>3, <3>4 DEF Settled
  <2>4. ASSUME Item[v][q] # NoItem, ActiveLineage(q) = {},
               NEW o \in ActiveEffective(q, Item[v][q]), obs[o].art = a, obs[o].version = v
        PROVE  Settled(a, q, v)'
    <3>1. o \in Active /\ o \in Obs /\ Label[obs[o].row] = Label[q] /\ obs[o].item = Item[v][q]
      BY DEF ActiveEffective, Active
    <3>2. obs[o].item = Item[v][obs[o].row] /\ obs[o].item # NoItem
      BY <2>4, <3>1 DEF IInv, ObsInv, Made, Active
    <3>3. obs[o].row # r
      BY <1>1, <3>2
    <3>4. o \in ActiveEffective(q, Item[v][q])'
      BY <1>1, <3>1, <3>3, WithdrawnIs DEF ActiveEffective
    <3>5. ActiveLineage(q)' = {}
      BY <1>1, <2>4, WithdrawnIs DEF ActiveLineage, Active
    <3>6. obs'[o].art = a /\ obs'[o].version = v
      BY <1>1, <2>4, <3>1, WithdrawnIs
    <3> QED
      BY <1>1, <2>4, <3>4, <3>5, <3>6 DEF Settled
  <2> QED
    BY <1>3, <2>1, <2>2, <2>3, <2>4 DEF Settled
<1> QED
  BY <1>1, <1>2, <1>3

LEMMA WithdrawnForce ==
    ASSUME IInv, LabelsDecide, NEW a, a = job.art, NEW v, v = job.version,
           NEW r, RowStep(r, "unmapped"), Item[v][r] = NoItem,
           obs' = Withdrawn(a, r)
    PROVE  \A q \in Row : InForce(a, q, v) => InForce(a, q, v)'
<1>1. /\ TypeOK /\ r \in Row /\ v \in Bundle /\ a \in Artifact /\ art'[a].content = art[a].content
  BY RowStepIs DEF IInv
<1> SUFFICES ASSUME NEW q \in Row, InForce(a, q, v) PROVE InForce(a, q, v)'
  OBVIOUS
<1>2. PICK o \in ActiveEffective(q, Item[v][q]) :
        \E x \in Row : Label[x] = Label[q] /\ art[a].content[x] = obs[o].price
  BY DEF InForce
<1>3. o \in Active /\ o \in Obs /\ Label[obs[o].row] = Label[q] /\ obs[o].item = Item[v][q]
      /\ obs[o].item # NoItem
  BY DEF ActiveEffective, Active, Made, IInv, ObsInv
<1>4. obs[o].row # r
  BY <1>1, <1>3 DEF LabelsDecide
<1>5. o \in ActiveEffective(q, Item[v][q])'
  BY <1>1, <1>3, <1>4, WithdrawnIs DEF ActiveEffective
<1>6. obs'[o].price = obs[o].price
  BY <1>1, <1>3, WithdrawnIs
<1> QED
  BY <1>1, <1>2, <1>5, <1>6 DEF InForce

\* The current snapshot and the version in use, when the only observation that may be new is
\* one of row r.
LEMMA ForceMadeStays ==
    ASSUME IInv, ForceMade, NEW a, a = job.art, NEW v, v = job.version,
           NEW r, NEW st \in {"unmapped", "canonicalized"}, RowStep(r, st),
           \A o \in Made' :
               \/ /\ o \in Made /\ obs'[o].art = obs[o].art
                  /\ obs'[o].row = obs[o].row /\ obs'[o].version = obs[o].version
               \/ obs'[o].row = r /\ obs'[o].art = a /\ InForce(a, r, v)',
           \A q \in Row : InForce(a, q, v) => InForce(a, q, v)'
    PROVE  ForceMade'
<1>0. InUse = v /\ InUse' = v
  BY RowStepIs
<1> SUFFICES ASSUME NEW o \in Made', Current(obs[o].art)' # {}, obs'[o].version = v
             PROVE  InForce(obs[o].art, obs[o].row, v)'
  BY <1>0 DEF ForceMade
<1>1. CASE /\ o \in Made /\ obs'[o].art = obs[o].art
           /\ obs'[o].row = obs[o].row /\ obs'[o].version = obs[o].version
  <2>1. obs[o].art \in Artifact /\ obs[o].row \in Row
    BY <1>1 DEF IInv, ObsInv, Made, Stored
  <2>2. Current(obs[o].art) # {} /\ obs[o].art = a
    <3> PICK x : x = obs[o].art
      OBVIOUS
    <3>1. Current(x)' = Current(x)
      BY <2>1, RowStepIs
    <3> QED
      BY <1>1, <2>1, <3>1, RowStepIs
  <2>3. InForce(a, obs[o].row, v)
    BY <1>0, <1>1, <2>2 DEF ForceMade
  <2> PICK q \in Row : q = obs[o].row
    BY <2>1
  <2>4. InForce(a, q, v)'
    BY <2>3
  <2> QED
    BY <1>1, <2>2, <2>4
<1>2. CASE obs'[o].row = r /\ obs'[o].art = a /\ InForce(a, r, v)'
  BY <1>2
<1> QED
  BY <1>1, <1>2

LEMMA WithdrawnSafe ==
    ASSUME IInv, NEW a, a = job.art, NEW v, v = job.version,
           NEW r, RowStep(r, "unmapped"), Item[v][r] = NoItem, obs' = Withdrawn(a, r)
    PROVE  IInv'
<1>1. /\ TypeOK /\ r \in Row /\ a \in Artifact /\ Stored' = Stored
      /\ \A x \in Artifact : art'[x].content = art[x].content
  BY RowStepIs DEF IInv
<1>2. /\ obs' \in [Obs -> ObsRecord] /\ Made' = Made /\ Active' \subseteq Active
      /\ \A o \in Obs : /\ obs'[o].art = obs[o].art /\ obs'[o].row = obs[o].row
                        /\ obs'[o].item = obs[o].item /\ obs'[o].price = obs[o].price
                        /\ obs'[o].version = obs[o].version /\ obs'[o].by = obs[o].by
  BY <1>1, WithdrawnIs
<1>3. TypeOK' /\ ArtInv' /\ JobInv'
  BY <1>2, RowStepInv
<1>4. ObsInv'
  BY <1>1, <1>2 DEF IInv, ObsInv, Stored
<1>5. OnePriceInForce'
  BY <1>2 DEF IInv, OnePriceInForce, Active
<1>6. HistoryEnds'
  <2>1. \A o \in Obs : obs[o].by \in Obs \cup {0}
    BY <1>1, TypeOKIs DEF ObsRecord
  <2> QED
    BY <1>2, <2>1 DEF IInv, HistoryEnds
<1>7. ~Rollback => VersionInv'
  BY <1>2, RowStepVersions
<1>8. ~Rollback /\ PacksDiffer => SettledNow' /\ SettledDone'
  BY WithdrawnSettled, RowStepSettled DEF IInv
<1>9. ASSUME ~Rollback, LabelsDecide PROVE ForceMade' /\ ForceRows'
  <2>1. \A q \in Row : InForce(a, q, v) => InForce(a, q, v)'
    BY <1>9, WithdrawnForce
  <2>2. ForceRows'
    BY <1>9, <2>1, RowStepForce DEF IInv
  <2>3. \A o \in Made' : /\ o \in Made /\ obs'[o].art = obs[o].art
                         /\ obs'[o].row = obs[o].row /\ obs'[o].version = obs[o].version
    BY <1>2 DEF Made
  <2>4. ForceMade'
    BY <1>9, <2>1, <2>3, ForceMadeStays DEF IInv
  <2> QED
    BY <2>2, <2>4
<1> QED
  BY <1>3, <1>4, <1>5, <1>6, <1>7, <1>8, <1>9 DEF IInv, PacksDiffer, LabelsDecide

\* The row was promoted under this version, or its price is in force: nothing is added.
LEMMA KeptSafe ==
    ASSUME IInv, NEW a, a = job.art, NEW v, v = job.version,
           NEW r, RowStep(r, "canonicalized"), Item[v][r] # NoItem, obs' = obs,
           Promoted(a, r, v) \/ \E o \in ActiveLineage(r) : SamePrice(o, a, r, Item[v][r])
    PROVE  IInv'
<1>1. /\ TypeOK /\ r \in Row /\ a \in Artifact /\ a \in Stored /\ v \in Bundle /\ InUse = v
      /\ \A x \in Artifact : art'[x].content = art[x].content
      /\ obs \in [Obs -> ObsRecord] /\ r \in Current(a)
  BY RowStepIs, TypeOKIs DEF IInv
<1>2. /\ Stored' = Stored /\ Active' = Active /\ Made' = Made
      /\ \A q : Settled(a, q, v)' = Settled(a, q, v)
      /\ \A q : InForce(a, q, v)' = InForce(a, q, v)
  BY <1>1, SameContent
<1>3. TypeOK' /\ ArtInv' /\ JobInv'
  BY <1>1, RowStepInv
<1>4. ObsInv'
  BY <1>1, <1>2 DEF IInv, ObsInv, Stored
<1>5. OnePriceInForce' /\ HistoryEnds'
  BY <1>2 DEF IInv, OnePriceInForce, HistoryEnds
<1>6. ~Rollback => VersionInv'
  BY RowStepVersions
<1>7. Settled(a, r, v)'
  BY <1>2 DEF Settled
<1>8. ~Rollback /\ PacksDiffer => SettledNow' /\ SettledDone'
  BY <1>2, <1>7, RowStepSettled DEF IInv
<1>9. ASSUME ~Rollback, LabelsDecide PROVE ForceMade' /\ ForceRows'
  <2>1. ASSUME Promoted(a, r, v) PROVE InForce(a, r, v)
    <3> PICK o \in Obs : obs[o].art = a /\ obs[o].row = r /\ obs[o].version = v
      BY <2>1 DEF Promoted
    <3>1. o \in Made
      BY <1>1, Numbers DEF IInv, ObsInv
    <3> QED
      BY <1>1, <1>9, <3>1 DEF IInv, ForceMade
  <2>2. ASSUME NEW o \in ActiveLineage(r), SamePrice(o, a, r, Item[v][r])
        PROVE  InForce(a, r, v)
    <3>1. o \in Active /\ obs[o].row \in Row /\ Lineage[obs[o].row] = Lineage[r]
      BY DEF ActiveLineage, Active, Made, IInv, ObsInv
    <3>2. Label[obs[o].row] = Label[r]
      BY <1>1, <3>1, CaptureAssumption DEF CaptureAssumption
    <3>3. o \in ActiveEffective(r, Item[v][r]) /\ art[a].content[r] = obs[o].price
      BY <2>2, <3>1, <3>2 DEF ActiveEffective, SamePrice
    <3> QED
      BY <1>1, <3>3 DEF InForce
  <2>3. InForce(a, r, v)
    BY <2>1, <2>2
  <2>4. ForceRows'
    BY <1>2, <1>9, <2>3, RowStepForce DEF IInv
  <2>5. ForceMade'
    BY <1>2, <1>9, <2>3, ForceMadeStays DEF IInv, Made
  <2> QED
    BY <2>4, <2>5
<1> QED
  BY <1>3, <1>4, <1>5, <1>6, <1>8, <1>9 DEF IInv, PacksDiffer, LabelsDecide

\* The observation new is added, and h is the one that is in force for it: itself, or the
\* price of its label.
Lost(r, item, h) == (ActiveLineage(r) \cup ActiveEffective(r, item)) \ {h}

RevisedStep(a, r, item, v, new, h) ==
    /\ new \notin Made
    /\ IF Wins(a, r, item) THEN h = new ELSE h \in ActiveEffective(r, item)
    /\ obs' \in [Obs -> ObsRecord]
    /\ /\ obs'[new].art = a /\ obs'[new].row = r /\ obs'[new].item = item
       /\ obs'[new].price = art[a].content[r] /\ obs'[new].version = v
       /\ obs'[new].by = IF Wins(a, r, item) THEN 0 ELSE h
    /\ \A o \in Obs \ {new} :
          /\ obs'[o].art = obs[o].art /\ obs'[o].row = obs[o].row
          /\ obs'[o].item = obs[o].item /\ obs'[o].price = obs[o].price
          /\ obs'[o].version = obs[o].version
          /\ obs'[o].by = IF o \in Lost(r, item, h) THEN h ELSE obs[o].by
          /\ o \notin Lost(r, item, h) => obs'[o] = obs[o]
    /\ Made' = Made \cup {new}
    /\ Active' = (Active \ Lost(r, item, h)) \cup (IF Wins(a, r, item) THEN {new} ELSE {})

LEMMA RevisedIs ==
    ASSUME TypeOK, NEW a \in Artifact, NEW r \in Row, NEW v \in Bundle, Item[v][r] # NoItem,
           NEW new \in Obs, IsNew(new), obs' = Revised(a, r, Item[v][r], v, new)
    PROVE  \E h \in Obs : RevisedStep(a, r, Item[v][r], v, new, h)
<1> PICK item : item = Item[v][r]
  OBVIOUS
<1> DEFINE wins == Wins(a, r, item)
           effective == ActiveEffective(r, item)
           h == IF wins THEN new ELSE CHOOSE e \in effective : TRUE
<1>1. obs \in [Obs -> ObsRecord] /\ new \notin Made /\ new \notin Active
  BY TypeOKIs DEF IsNew, Made, Active
<1>2. effective \subseteq Active /\ ActiveLineage(r) \subseteq Active /\ Active \subseteq Made
      /\ Made \subseteq Obs
  BY DEF ActiveEffective, ActiveLineage, Active, Made
<1>3. ~wins => h \in effective
  BY DEF Wins
<1>4. h \in Obs /\ (wins => h = new)
  BY <1>2, <1>3
<1>5. item \in Items /\ art[a].content[r] \in Price \cup {NoPrice}
  <2>1. art[a].content \in [Row -> Price \cup {NoPrice}]
    BY TypeOKIs, ContentType DEF ArtRecord
  <2> QED
    BY <2>1, ItemIn
<1>6. obs' = [o \in Obs |->
          IF o = new
          THEN [status |-> IF wins THEN "active" ELSE "superseded", art |-> a, row |-> r,
                item |-> item, price |-> art[a].content[r], version |-> v,
                by |-> IF wins THEN 0 ELSE h]
          ELSE IF o \in (ActiveLineage(r) \cup effective) \ {h}
          THEN [obs[o] EXCEPT !.status = "superseded", !.by = h]
          ELSE obs[o]]
  BY Zenon DEF Revised
<1>7. h \notin Lost(r, item, h) /\ Lost(r, item, h) \subseteq Active
  BY <1>2 DEF Lost
<1> HIDE DEF h, wins, effective
<1>8. /\ obs'[new] = [status |-> IF wins THEN "active" ELSE "superseded", art |-> a, row |-> r,
                      item |-> item, price |-> art[a].content[r], version |-> v,
                      by |-> IF wins THEN 0 ELSE h]
      /\ \A o \in Obs \ {new} :
            obs'[o] = IF o \in Lost(r, item, h)
                      THEN [obs[o] EXCEPT !.status = "superseded", !.by = h] ELSE obs[o]
      /\ DOMAIN obs' = Obs
  BY <1>6 DEF Lost, effective
<1>9. /\ obs'[new] \in ObsRecord
      /\ obs'[new].status = IF wins THEN "active" ELSE "superseded"
      /\ obs'[new].art = a /\ obs'[new].row = r /\ obs'[new].item = item
      /\ obs'[new].price = art[a].content[r] /\ obs'[new].version = v
      /\ obs'[new].by = IF wins THEN 0 ELSE h
  <2>1. CASE wins
    <3>1. obs'[new] = [status |-> "active", art |-> a, row |-> r, item |-> item,
                       price |-> art[a].content[r], version |-> v, by |-> 0]
      BY <1>8, <2>1
    <3> QED
      BY <1>5, <2>1, <3>1 DEF ObsRecord
  <2>2. CASE ~wins
    <3>1. obs'[new] = [status |-> "superseded", art |-> a, row |-> r, item |-> item,
                       price |-> art[a].content[r], version |-> v, by |-> h]
      BY <1>8, <2>2
    <3> QED
      BY <1>4, <1>5, <2>2, <3>1 DEF ObsRecord
  <2> QED
    BY <2>1, <2>2
<1>10. ASSUME NEW o \in Obs \ {new}
       PROVE  /\ obs'[o] \in ObsRecord
              /\ obs'[o].art = obs[o].art /\ obs'[o].row = obs[o].row
              /\ obs'[o].item = obs[o].item /\ obs'[o].price = obs[o].price
              /\ obs'[o].version = obs[o].version
              /\ obs'[o].by = IF o \in Lost(r, item, h) THEN h ELSE obs[o].by
              /\ obs'[o].status = IF o \in Lost(r, item, h) THEN "superseded" ELSE obs[o].status
              /\ o \notin Lost(r, item, h) => obs'[o] = obs[o]
  <2>1. obs[o] \in ObsRecord
    BY <1>1
  <2>2. CASE o \in Lost(r, item, h)
    <3>1. obs'[o] = [obs[o] EXCEPT !.status = "superseded", !.by = h]
      BY <1>8, <2>2
    <3> QED
      BY <1>4, <2>1, <2>2, <3>1 DEF ObsRecord
  <2>3. CASE o \notin Lost(r, item, h)
    <3>1. obs'[o] = obs[o]
      BY <1>8, <2>3
    <3> QED
      BY <2>1, <2>3, <3>1
  <2> QED
    BY <2>2, <2>3
<1>11. obs' \in [Obs -> ObsRecord]
  <2>1. \A o \in Obs : obs'[o] \in ObsRecord
    BY <1>9, <1>10
  <2>2. obs' = [o \in Obs |-> obs'[o]]
    BY <1>6
  <2> QED
    BY <2>1, <2>2
<1>12. Made' = Made \cup {new}
  <2>1. obs'[new].status # "free"
    BY <1>9
  <2>2. \A o \in Obs \ {new} : obs'[o].status # "free" <=> obs[o].status # "free"
    BY <1>2, <1>7, <1>10 DEF Active
  <2> QED
    BY <2>1, <2>2 DEF Made
<1>13. Active' = (Active \ Lost(r, item, h)) \cup (IF wins THEN {new} ELSE {})
  <2>1. obs'[new].status = "active" <=> wins
    BY <1>9
  <2>2. \A o \in Obs \ {new} :
          obs'[o].status = "active" <=> obs[o].status = "active" /\ o \notin Lost(r, item, h)
    BY <1>10
  <2>3. new \notin Active
    BY <1>1
  <2> QED
    BY <2>1, <2>2, <2>3 DEF Active
<1>14. RevisedStep(a, r, item, v, new, h)
  BY <1>1, <1>3, <1>4, <1>9, <1>10, <1>11, <1>12, <1>13 DEF RevisedStep, wins, effective
<1> QED
  BY <1>4, <1>14

\* Row r gets a new observation.
Revision(a, r, item, v, new, h) ==
    /\ a = job.art /\ v = job.version /\ RowStep(r, "canonicalized")
    /\ item = Item[v][r] /\ item # NoItem
    /\ new \in Obs /\ h \in Obs /\ RevisedStep(a, r, item, v, new, h)

LEMMA RevisionIs ==
    ASSUME IInv, NEW a, NEW r, NEW item, NEW v, NEW new, NEW h, Revision(a, r, item, v, new, h)
    PROVE  /\ TypeOK /\ a \in Stored /\ a \in Artifact /\ r \in Row /\ r \in Current(a)
           /\ v \in Bundle /\ new \in Obs /\ h \in Obs /\ Stored' = Stored
           /\ \A x \in Artifact : art'[x].content = art[x].content
           /\ Active \subseteq Made /\ Made \subseteq Obs /\ new \notin Made
           /\ \A o \in Lost(r, item, h) : /\ o \in Active /\ o # new /\ o # h
                                         /\ Label[obs[o].row] = Label[r]
           /\ h # new => h \in Active /\ obs[h].item = item /\ Label[obs[h].row] = Label[r]
           /\ ~Wins(a, r, item) => /\ h # new
                                   /\ \A e \in ActiveEffective(r, item) : e = h
<1>1. /\ TypeOK /\ a \in Stored /\ a \in Artifact /\ r \in Row /\ r \in Current(a)
      /\ v \in Bundle /\ new \in Obs /\ h \in Obs /\ Stored' = Stored
      /\ \A x \in Artifact : art'[x].content = art[x].content
  BY RowStepIs DEF IInv, Revision
<1>2. Active \subseteq Made /\ Made \subseteq Obs /\ new \notin Made
  BY DEF Active, Made, Revision, RevisedStep
<1>3. \A e \in ActiveEffective(r, item) : /\ e \in Active /\ obs[e].item = item
                                         /\ Label[obs[e].row] = Label[r]
  BY DEF ActiveEffective
<1>4. \A e \in ActiveLineage(r) : e \in Active /\ Label[obs[e].row] = Label[r]
  <2> SUFFICES ASSUME NEW e \in ActiveLineage(r) PROVE e \in Active /\ Label[obs[e].row] = Label[r]
    OBVIOUS
  <2>1. e \in Active /\ obs[e].row \in Row /\ Lineage[obs[e].row] = Lineage[r]
    BY DEF ActiveLineage, Active, Made, IInv, ObsInv
  <2> QED
    BY <1>1, <2>1, CaptureAssumption DEF CaptureAssumption
<1>5. \A o \in Lost(r, item, h) : o \in Active /\ o # new /\ o # h /\ Label[obs[o].row] = Label[r]
  BY <1>2, <1>3, <1>4 DEF Lost
<1>6. h # new => h \in ActiveEffective(r, item)
  BY DEF Revision, RevisedStep
<1>7. ASSUME ~Wins(a, r, item)
      PROVE  h # new /\ \A e \in ActiveEffective(r, item) : e = h
  <2>1. h \in ActiveEffective(r, item)
    BY <1>7 DEF Revision, RevisedStep
  <2>2. h # new
    BY <1>2, <1>3, <2>1
  <2>3. \A e \in ActiveEffective(r, item) : e = h
    BY <1>3, <2>1 DEF IInv, OnePriceInForce
  <2> QED
    BY <2>2, <2>3
<1> QED
  BY <1>1, <1>2, <1>3, <1>5, <1>6, <1>7

LEMMA RevisionObs ==
    ASSUME IInv, NEW a, NEW r, NEW item, NEW v, NEW new, NEW h, Revision(a, r, item, v, new, h)
    PROVE  ObsInv' /\ OnePriceInForce' /\ HistoryEnds'
<1>1. /\ \A o \in Obs \ {new} :
          /\ obs'[o].art = obs[o].art /\ obs'[o].row = obs[o].row
          /\ obs'[o].item = obs[o].item /\ obs'[o].price = obs[o].price
          /\ obs'[o].version = obs[o].version
          /\ obs'[o].by = IF o \in Lost(r, item, h) THEN h ELSE obs[o].by
      /\ obs'[new].art = a /\ obs'[new].row = r /\ obs'[new].item = item
      /\ obs'[new].price = art[a].content[r] /\ obs'[new].version = v
      /\ obs'[new].by = IF Wins(a, r, item) THEN 0 ELSE h
      /\ Made' = Made \cup {new}
      /\ Active' = (Active \ Lost(r, item, h)) \cup (IF Wins(a, r, item) THEN {new} ELSE {})
      /\ Wins(a, r, item) => h = new
      /\ obs \in [Obs -> ObsRecord] /\ item = Item[v][r] /\ item # NoItem
  BY RevisionIs, TypeOKIs DEF Revision, RevisedStep
<1>2. h \in Made'
  BY <1>1, RevisionIs
<1>3. ObsInv'
  <2> SUFFICES ASSUME NEW o \in Obs
               PROVE  /\ o \in Made' =>
                           /\ obs'[o].art \in Stored /\ obs'[o].row \in Row
                           /\ obs'[o].version \in Bundle
                           /\ obs'[o].item = Item[obs'[o].version][obs'[o].row]
                           /\ obs'[o].item # NoItem
                           /\ obs'[o].price = art'[obs'[o].art].content[obs'[o].row]
                      /\ o \notin Made' => obs'[o].by = 0 /\ obs'[o].art = 0
                      /\ o \in Active' => obs'[o].by = 0
                      /\ obs'[o].by # 0 => obs'[o].by \in Made'
    BY RevisionIs DEF ObsInv
  <2>1. CASE o = new
    BY <1>1, <1>2, <2>1, RevisionIs
  <2>2. CASE o # new
    BY <1>1, <1>2, <2>2, RevisionIs DEF IInv, ObsInv, Stored
  <2> QED
    BY <2>1, <2>2
<1>4. OnePriceInForce'
  <2>1. ASSUME NEW o \in Active, o \notin Lost(r, item, h), Wins(a, r, item)
        PROVE  /\ Lineage[obs[o].row] # Lineage[r]
               /\ ~(Label[obs[o].row] = Label[r] /\ obs[o].item = item)
    BY <1>1, <2>1, RevisionIs DEF Lost, ActiveLineage, ActiveEffective
  <2> SUFFICES ASSUME NEW o \in Active', NEW p \in Active',
                      \/ Lineage[obs'[o].row] = Lineage[obs'[p].row]
                      \/ /\ Label[obs'[o].row] = Label[obs'[p].row]
                         /\ obs'[o].item = obs'[p].item
               PROVE  o = p
    BY DEF OnePriceInForce
  <2>2. CASE o = new /\ p # new
    BY <1>1, <2>1, <2>2, RevisionIs
  <2>3. CASE o # new /\ p = new
    BY <1>1, <2>1, <2>3, RevisionIs
  <2>4. CASE o # new /\ p # new
    BY <1>1, <2>4, RevisionIs DEF IInv, OnePriceInForce
  <2> QED
    BY <2>2, <2>3, <2>4
<1>5. obs'[h].by = 0
  BY <1>1, RevisionIs DEF IInv, ObsInv
<1>6. h # 0 /\ 0 \notin Obs
  BY RevisionIs, Numbers
<1>7. ASSUME NEW S \in (SUBSET Obs) \ {{}} PROVE \E o \in S : obs'[o].by \notin S
  <2>1. CASE h \in S
    BY <1>5, <1>6, <2>1
  <2>2. ASSUME h \notin S, NEW o \in S, o \in Lost(r, item, h) \/ o = new
        PROVE  obs'[o].by \notin S
    BY <1>1, <1>6, <2>2, RevisionIs
  <2>3. CASE \A o \in S : o \notin Lost(r, item, h) /\ o # new
    <3>1. PICK o \in S : obs[o].by \notin S
      BY DEF IInv, HistoryEnds
    <3> QED
      BY <1>1, <2>3, <3>1
  <2> QED
    BY <2>1, <2>2, <2>3
<1>8. ASSUME NEW o \in Obs, obs'[o].by # 0
      PROVE  Label[obs'[obs'[o].by].row] = Label[obs'[o].row]
  <2>1. CASE o = new
    BY <1>1, <1>8, <2>1, RevisionIs
  <2>2. CASE o # new /\ o \in Lost(r, item, h)
    BY <1>1, <2>2, RevisionIs
  <2>3. CASE o # new /\ o \notin Lost(r, item, h)
    <3>1. obs'[o].by = obs[o].by /\ obs[o].by \in Made
      BY <1>1, <1>8, <2>3 DEF IInv, ObsInv
    <3> QED
      BY <1>1, <1>8, <2>3, <3>1, RevisionIs DEF IInv, HistoryEnds
  <2> QED
    BY <2>1, <2>2, <2>3
<1>9. HistoryEnds'
  BY <1>7, <1>8 DEF HistoryEnds
<1> QED
  BY <1>3, <1>4, <1>9

\* A row whose price the step supersedes was there for its label under the same mapping, and
\* the new observation is there for it now.
LEMMA RevisionSettled ==
    ASSUME IInv, PacksDiffer, NEW a, NEW r, NEW item, NEW v, NEW new, NEW h,
           Revision(a, r, item, v, new, h), ~Promoted(a, r, v)
    PROVE  /\ Settled(a, r, v)'
           /\ \A q \in Row : Settled(a, q, v) => Settled(a, q, v)'
<1>1. /\ \A o \in Obs \ {new} :
          /\ obs'[o].art = obs[o].art /\ obs'[o].row = obs[o].row
          /\ obs'[o].item = obs[o].item /\ obs'[o].price = obs[o].price
          /\ obs'[o].version = obs[o].version
      /\ obs'[new].art = a /\ obs'[new].row = r /\ obs'[new].item = item
      /\ obs'[new].price = art[a].content[r] /\ obs'[new].version = v
      /\ Active' = (Active \ Lost(r, item, h)) \cup (IF Wins(a, r, item) THEN {new} ELSE {})
      /\ Wins(a, r, item) => h = new
      /\ item = Item[v][r] /\ item # NoItem /\ art'[a].content = art[a].content
      /\ \A o \in Made : obs[o].row \in Row
  BY RevisionIs DEF Revision, RevisedStep, IInv, ObsInv
<1>2. Settled(a, r, v)'
  <2>1. Promoted(a, r, v)'
    BY <1>1, RevisionIs DEF Promoted
  <2> QED
    BY <1>1, <2>1 DEF Settled
<1> SUFFICES ASSUME NEW q \in Row, Settled(a, q, v), q # r PROVE Settled(a, q, v)'
  BY <1>2
<1>3. Lineage[q] # Lineage[r]
  BY RevisionIs DEF PacksDiffer
\* No price of the lineage of another row comes in.
<1>4. \A o \in Active' : Lineage[obs'[o].row] = Lineage[q]
                        => o \in ActiveLineage(q) /\ o \notin Lost(r, item, h)
  BY <1>1, <1>3, RevisionIs DEF ActiveLineage
\* What the step takes from another row is of the same item, and loses to the new price.
<1>5. ASSUME NEW o \in Lost(r, item, h), obs[o].row # r
      PROVE  /\ Wins(a, r, item) /\ obs[o].item = item /\ Label[obs[o].row] = Label[r]
             /\ o \in ActiveEffective(r, item)
  <2>1. obs[o].row \in Row
    BY <1>1, RevisionIs
  <2>2. o \notin ActiveLineage(r)
    BY <1>5, <2>1, RevisionIs DEF ActiveLineage, PacksDiffer
  <2>3. o \in ActiveEffective(r, item) /\ o # h
    BY <2>2 DEF Lost
  <2>4. Wins(a, r, item)
    BY <2>3, RevisionIs
  <2> QED
    BY <2>3, <2>4 DEF ActiveEffective
<1>6. CASE Item[v][q] = NoItem
  <2>1. \A o \in Active : ~(obs[o].art = a /\ obs[o].row = q)
    BY <1>6 DEF Settled
  <2>2. \A o \in Active' : ~(obs'[o].art = a /\ obs'[o].row = q)
    BY <1>1, <2>1, RevisionIs
  <2> QED
    BY <1>6, <2>2 DEF Settled
<1>7. CASE Item[v][q] # NoItem /\ Promoted(a, q, v)
  <2>1. PICK o \in Obs : obs[o].art = a /\ obs[o].row = q /\ obs[o].version = v
    BY <1>7 DEF Promoted
  <2>2. o # new
    BY <2>1, RevisionIs, Numbers DEF IInv, ObsInv
  <2>3. Promoted(a, q, v)'
    BY <1>1, <2>1, <2>2 DEF Promoted
  <2> QED
    BY <1>7, <2>3 DEF Settled
<1>8. ASSUME Item[v][q] # NoItem, NEW o \in ActiveLineage(q), SamePrice(o, a, q, Item[v][q])
      PROVE  Settled(a, q, v)'
  <2>1. /\ o \in Active /\ o \in Obs /\ o # new /\ Lineage[obs[o].row] = Lineage[q]
        /\ obs[o].row \in Row /\ obs[o].row = q
    BY <1>1, RevisionIs DEF ActiveLineage, PacksDiffer
  <2>2. CASE o \notin Lost(r, item, h)
    <3>1. o \in ActiveLineage(q)'
      BY <1>1, <2>1, <2>2 DEF ActiveLineage
    <3>2. SamePrice(o, a, q, Item[v][q])'
      BY <1>1, <1>8, <2>1 DEF SamePrice
    <3> QED
      BY <1>8, <3>1, <3>2 DEF Settled
  <2>3. CASE o \in Lost(r, item, h)
    <3>1. Wins(a, r, item) /\ obs[o].item = item /\ Label[q] = Label[r]
      BY <1>5, <2>1, <2>3
    <3>2. Item[v][q] = item
      BY <1>8, <3>1 DEF SamePrice
    <3>3. new \in ActiveEffective(q, Item[v][q])'
      BY <1>1, <3>1, <3>2, RevisionIs DEF ActiveEffective
    <3>4. \A p \in ActiveLineage(q) : p = o
      BY <2>1 DEF ActiveLineage, IInv, OnePriceInForce
    <3>5. ActiveLineage(q)' = {}
      BY <1>4, <2>3, <3>4 DEF ActiveLineage
    <3> QED
      BY <1>1, <1>8, <3>3, <3>5 DEF Settled
  <2> QED
    BY <2>2, <2>3
<1>9. ASSUME Item[v][q] # NoItem, ActiveLineage(q) = {},
             NEW e \in ActiveEffective(q, Item[v][q]), obs[e].art = a, obs[e].version = v
      PROVE  Settled(a, q, v)'
  <2>1. /\ e \in Active /\ e \in Obs /\ e # new /\ Label[obs[e].row] = Label[q]
        /\ obs[e].item = Item[v][q]
    BY RevisionIs DEF ActiveEffective
  <2>2. e \notin Lost(r, item, h)
    <3> SUFFICES ASSUME e \in Lost(r, item, h) PROVE FALSE
      OBVIOUS
    <3>1. obs[e].row # r
      BY <1>9, <2>1 DEF Promoted
    <3>2. Wins(a, r, item) /\ e \in ActiveEffective(r, item)
      BY <1>5, <3>1
    <3>3. e \notin ActiveLineage(r)
      BY <1>1, <2>1, <3>1, RevisionIs DEF ActiveLineage, PacksDiffer
    <3>4. a > obs[e].art
      BY <3>2, <3>3 DEF Wins
    <3>5. a \in Nat
      BY RevisionIs, Numbers
    <3> QED
      BY <1>9, <3>4, <3>5
  <2>3. e \in ActiveEffective(q, Item[v][q])'
    BY <1>1, <2>1, <2>2 DEF ActiveEffective
  <2>4. ActiveLineage(q)' = {}
    BY <1>4, <1>9 DEF ActiveLineage
  <2>5. obs'[e].art = a /\ obs'[e].version = v
    BY <1>1, <1>9, <2>1
  <2> QED
    BY <1>9, <2>3, <2>4, <2>5 DEF Settled
<1> QED
  BY <1>6, <1>7, <1>8, <1>9 DEF Settled

\* A label whose price the step supersedes has the new price, or the one it lost to, which
\* the current snapshot shows as it is the last.
LEMMA RevisionForce ==
    ASSUME IInv, LabelsDecide, NEW a, NEW r, NEW item, NEW v, NEW new, NEW h,
           Revision(a, r, item, v, new, h)
    PROVE  /\ InForce(a, r, v)'
           /\ \A q \in Row : InForce(a, q, v) => InForce(a, q, v)'
<1>1. /\ \A o \in Obs \ {new} :
          /\ obs'[o].art = obs[o].art /\ obs'[o].row = obs[o].row
          /\ obs'[o].item = obs[o].item /\ obs'[o].price = obs[o].price
          /\ obs'[o].version = obs[o].version
      /\ obs'[new].art = a /\ obs'[new].row = r /\ obs'[new].item = item
      /\ obs'[new].price = art[a].content[r] /\ obs'[new].version = v
      /\ Active' = (Active \ Lost(r, item, h)) \cup (IF Wins(a, r, item) THEN {new} ELSE {})
      /\ item = Item[v][r] /\ item # NoItem /\ art'[a].content = art[a].content
  BY RevisionIs DEF Revision, RevisedStep
<1>2. InForce(a, r, v)'
  <2>1. CASE Wins(a, r, item)
    <3>1. new \in ActiveEffective(r, Item[v][r])'
      BY <1>1, <2>1, RevisionIs DEF ActiveEffective
    <3> QED
      BY <1>1, <3>1, RevisionIs DEF InForce
  <2>2. CASE ~Wins(a, r, item)
    <3>1. /\ h # new /\ h \in Active /\ h \in Made /\ obs[h].item = item
          /\ Label[obs[h].row] = Label[r] /\ h \notin Lost(r, item, h)
          /\ \A e \in ActiveEffective(r, item) : e = h
      BY <2>2, RevisionIs
    <3>2. ~(a > obs[h].art)
      BY <2>2, <3>1 DEF Wins
    <3>3. obs[h].art \in Stored /\ obs[h].row \in Row
          /\ obs[h].price = art[obs[h].art].content[obs[h].row]
      BY <3>1, RevisionIs DEF IInv, ObsInv
    <3>4. obs[h].art <= a /\ obs[h].art \in Nat /\ a \in Nat
      BY <3>3, RevisionIs, Numbers DEF IInv, ArtInv, Stored
    <3>5. obs[h].art = a
      BY <3>2, <3>4
    <3>6. h \in ActiveEffective(r, Item[v][r])'
      BY <1>1, <3>1, RevisionIs DEF ActiveEffective
    <3>7. obs'[h].price = art'[a].content[obs[h].row]
      BY <1>1, <3>1, <3>3, <3>5, RevisionIs
    <3> QED
      BY <3>1, <3>3, <3>6, <3>7 DEF InForce
  <2> QED
    BY <2>1, <2>2
<1>3. ASSUME NEW q \in Row, InForce(a, q, v)
      PROVE  InForce(a, q, v)'
  <2>1. PICK o \in ActiveEffective(q, Item[v][q]) :
          \E x \in Row : Label[x] = Label[q] /\ art[a].content[x] = obs[o].price
    BY <1>3 DEF InForce
  <2>2. /\ o \in Active /\ o \in Obs /\ o # new /\ Label[obs[o].row] = Label[q]
        /\ obs[o].item = Item[v][q]
    BY RevisionIs DEF ActiveEffective
  <2>3. CASE o \notin Lost(r, item, h)
    <3>1. o \in ActiveEffective(q, Item[v][q])'
      BY <1>1, <2>2, <2>3 DEF ActiveEffective
    <3> QED
      BY <1>1, <2>1, <2>2, <3>1 DEF InForce
  <2>4. CASE o \in Lost(r, item, h)
    <3>1. Label[q] = Label[r]
      BY <2>2, <2>4, RevisionIs
    <3>2. Item[v][q] = Item[v][r]
      BY <3>1, RevisionIs DEF LabelsDecide
    <3> QED
      BY <1>2, <3>1, <3>2 DEF InForce, ActiveEffective
  <2> QED
    BY <2>3, <2>4
<1> QED
  BY <1>2, <1>3

LEMMA RevisionSafe ==
    ASSUME IInv, NEW a, NEW r, NEW item, NEW v, NEW new, NEW h,
           Revision(a, r, item, v, new, h), ~Promoted(a, r, v)
    PROVE  IInv'
<1>1. /\ RowStep(r, "canonicalized") /\ a = job.art /\ v = job.version
      /\ RevisedStep(a, r, item, v, new, h) /\ new \in Obs /\ Made \subseteq Obs
  BY RevisionIs DEF Revision
<1>2. /\ obs' \in [Obs -> ObsRecord] /\ Made' = Made \cup {new}
      /\ obs'[new].art = a /\ obs'[new].row = r /\ obs'[new].version = v
  BY <1>1 DEF RevisedStep
<1>3. \A o \in Obs \ {new} : /\ obs'[o].art = obs[o].art /\ obs'[o].row = obs[o].row
                             /\ obs'[o].version = obs[o].version
  BY <1>1 DEF RevisedStep
<1>4. TypeOK' /\ ArtInv' /\ JobInv'
  BY <1>1, <1>2, RowStepInv
<1>5. \A o \in Obs : obs'[o].version \in {obs[o].version, job.version}
  BY <1>1, <1>2, <1>3
<1>6. ~Rollback => VersionInv'
  BY <1>1, <1>5, RowStepVersions
<1>7. ~Rollback /\ PacksDiffer => SettledNow' /\ SettledDone'
  BY <1>1, RevisionSettled, RowStepSettled DEF IInv
<1>8. ASSUME ~Rollback, LabelsDecide PROVE ForceMade' /\ ForceRows'
  <2>1. InForce(a, r, v)' /\ \A q \in Row : InForce(a, q, v) => InForce(a, q, v)'
    BY <1>8, RevisionForce
  <2>2. ForceRows'
    BY <1>1, <1>8, <2>1, RowStepForce DEF IInv
  <2>3. \A o \in Made' :
           \/ /\ o \in Made /\ obs'[o].art = obs[o].art
              /\ obs'[o].row = obs[o].row /\ obs'[o].version = obs[o].version
           \/ obs'[o].row = r /\ obs'[o].art = a /\ InForce(a, r, v)'
    BY <1>1, <1>2, <1>3, <2>1
  <2>4. ForceMade'
    BY <1>1, <1>8, <2>1, <2>3, ForceMadeStays DEF IInv
  <2> QED
    BY <2>2, <2>4
<1> QED
  BY <1>4, <1>6, <1>7, <1>8, RevisionObs DEF IInv, PacksDiffer, LabelsDecide

\* The three ways a row goes.
LEMMA PromoteRowIs ==
    ASSUME IInv, PromoteRow
    PROVE  \E a, r, v : /\ a = job.art /\ v = job.version /\ r \in job.todo
               /\ \/ /\ Item[v][r] = NoItem /\ RowStep(r, "unmapped") /\ obs' = Withdrawn(a, r)
                  \/ /\ Item[v][r] # NoItem /\ RowStep(r, "canonicalized") /\ obs' = obs
                     /\ \/ Promoted(a, r, v)
                        \/ \E o \in ActiveLineage(r) : SamePrice(o, a, r, Item[v][r])
                  \/ \E new, h : /\ Revision(a, r, Item[v][r], v, new, h) /\ ~Promoted(a, r, v)
                                 /\ \A o \in ActiveLineage(r) : ~SamePrice(o, a, r, Item[v][r])
<1> PICK a, v : a = job.art /\ v = job.version
  OBVIOUS
<1> PICK r \in job.todo :
       /\ job' = [job EXCEPT !.todo = @ \ {r}]
       /\ art' = [art EXCEPT ![a].stage[r] = IF Item[v][r] = NoItem THEN "unmapped"
                                                                    ELSE "canonicalized"]
       /\ \/ Item[v][r] = NoItem /\ obs' = Withdrawn(a, r)
          \/ /\ Item[v][r] # NoItem
             /\ \/ Promoted(a, r, v)
                \/ \E o \in ActiveLineage(r) : SamePrice(o, a, r, Item[v][r])
             /\ UNCHANGED obs
          \/ /\ Item[v][r] # NoItem
             /\ ~Promoted(a, r, v)
             /\ \A o \in ActiveLineage(r) : ~SamePrice(o, a, r, Item[v][r])
             /\ \E new \in Obs : IsNew(new) /\ obs' = Revised(a, r, Item[v][r], v, new)
  BY DEF PromoteRow
<1>1. job.pc = "promoting" /\ bundle' = bundle /\ latest' = latest
  BY DEF PromoteRow
<1>2. Item[v][r] = NoItem => RowStep(r, "unmapped")
  BY <1>1 DEF RowStep
<1>3. Item[v][r] # NoItem => RowStep(r, "canonicalized")
  BY <1>1 DEF RowStep
<1>4. ASSUME Item[v][r] # NoItem, NEW new \in Obs, IsNew(new),
             obs' = Revised(a, r, Item[v][r], v, new)
      PROVE  \E h : Revision(a, r, Item[v][r], v, new, h)
  <2>1. TypeOK /\ a \in Artifact /\ r \in Row /\ v \in Bundle
    BY <1>3, <1>4, RowStepIs DEF IInv
  <2>2. PICK h \in Obs : RevisedStep(a, r, Item[v][r], v, new, h)
    BY <1>4, <2>1, RevisedIs
  <2> QED
    BY <1>3, <1>4, <2>2 DEF Revision
<1> QED
  BY <1>2, <1>3, <1>4

LEMMA PromoteRowSafe == IInv /\ PromoteRow => IInv'
<1> SUFFICES ASSUME IInv, PromoteRow PROVE IInv'
  OBVIOUS
<1> PICK a, r, v :
       /\ a = job.art /\ v = job.version
       /\ \/ /\ Item[v][r] = NoItem /\ RowStep(r, "unmapped") /\ obs' = Withdrawn(a, r)
          \/ /\ Item[v][r] # NoItem /\ RowStep(r, "canonicalized") /\ obs' = obs
             /\ \/ Promoted(a, r, v)
                \/ \E o \in ActiveLineage(r) : SamePrice(o, a, r, Item[v][r])
          \/ \E new, h : Revision(a, r, Item[v][r], v, new, h) /\ ~Promoted(a, r, v)
  BY PromoteRowIs
<1> QED
  BY WithdrawnSafe, KeptSafe, RevisionSafe

-----------------------------------------------------------------------------
(* The theorems.                                                           *)

LEMMA Invariance == Spec => []IInv
<1>1. IInv /\ [Next]_vars => IInv'
  <2> SUFFICES ASSUME IInv, [Next]_vars PROVE IInv'
    OBVIOUS
  <2>1. CASE Review
    BY <2>1, ReviewSafe
  <2>2. CASE Fetch
    BY <2>2, FetchSafe
  <2>3. CASE Store
    BY <2>3, StoreSafe
  <2>4. CASE Canonicalize
    BY <2>4, CanonicalizeSafe
  <2>5. CASE Remap
    BY <2>5, RemapSafe
  <2>6. CASE PromoteRow
    BY <2>6, PromoteRowSafe
  <2>7. CASE EndPromotion
    BY <2>7, EndPromotionSafe
  <2>8. CASE Crash
    BY <2>8, CrashSafe
  <2>9. CASE UNCHANGED vars
    <3>1. obs' = obs /\ art' = art /\ bundle' = bundle /\ job' = job /\ latest' = latest
      BY <2>9 DEF vars
    <3>2. TypeOK' /\ JobInv' /\ InUse' = InUse
      BY <3>1, SameRows DEF IInv, TypeOK, JobInv, InUse
    <3>3. (VersionInv => VersionInv') /\ (SettledNow => SettledNow')
          /\ (SettledDone => SettledDone') /\ (ForceMade => ForceMade')
          /\ (ForceRows => ForceRows')
      BY <3>1, <3>2, SameRows
         DEF VersionInv, SettledNow, SettledDone, ForceMade, ForceRows
    <3> QED
      BY <3>1, <3>2, <3>3, SameRowsInv DEF IInv, PacksDiffer, LabelsDecide
  <2> QED
    BY <2>1, <2>2, <2>3, <2>4, <2>5, <2>6, <2>7, <2>8, <2>9 DEF Next
<1> QED
  BY <1>1, InitIInv, PTL DEF Spec

\* Every artifact, observation and job is well formed.
THEOREM TypeCorrect == Spec => []TypeOK
<1>1. IInv => TypeOK
  BY DEF IInv
<1> QED
  BY <1>1, Invariance, PTL

\* The two unique indexes of price_observation are never violated, not even between two rows
\* of a promotion, whichever version of the bundle is in force.
THEOREM OnePrice == Spec => []OnePriceInForce
<1>1. IInv => OnePriceInForce
  BY DEF IInv
<1> QED
  BY <1>1, Invariance, PTL

\* A day has one current snapshot, however captures, remaps and stops follow each other.
THEOREM OneCurrent == Spec => []OneCurrentSnapshot
<1>1. IInv => OneCurrentSnapshot
  <2> SUFFICES ASSUME IInv, NEW a \in Stored, NEW b \in Stored, Current(a) # {}, Current(b) # {}
               PROVE  a = b
    BY DEF OneCurrentSnapshot
  <2>1. a <= b /\ b <= a /\ a \in Nat /\ b \in Nat
    BY Numbers DEF IInv, ArtInv, Stored
  <2> QED
    BY <2>1
<1> QED
  BY <1>1, Invariance, PTL

\* The chain of successors of a price ends, and stays with its label, even when versions of
\* the bundle come back.
THEOREM History == Spec => []HistoryEnds
<1>1. IInv => HistoryEnds
  BY DEF IInv
<1> QED
  BY <1>1, Invariance, PTL

\* The current snapshot is what is in force: every row of it that counts as canonicalized has
\* a price for its label, which the snapshot shows, between any two promotions.
THEOREM CurrentInForce == Spec => []SnapshotInForce
<1>1. IInv => SnapshotInForce
  <2> SUFFICES ASSUME IInv, LabelsDecide, ~Rollback, job.todo = {},
                      NEW a \in Stored, NEW r \in Current(a), art[a].stage[r] = "canonicalized"
               PROVE  \E b \in Bundle : b >= art[a].mapped /\ InForce(a, r, b)
    BY DEF SnapshotInForce
  <2>1. ForceRows /\ VersionInv /\ TypeOK /\ JobInv
    BY DEF IInv, LabelsDecide
  <2>2. CASE job.pc = "promoting" /\ a = job.art
    <3>1. InForce(a, r, job.version)
      BY <2>1, <2>2 DEF ForceRows
    <3>2. job.version \in Bundle /\ InUse = job.version
      BY <2>1, <2>2 DEF JobInv, InUse
    <3>3. art[a].mapped <= job.version /\ art[a].mapped \in Nat /\ job.version \in Nat
      BY <2>1, <3>2, Versions DEF VersionInv, Stored
    <3> QED
      BY <3>1, <3>2, <3>3
  <2>3. CASE ~(job.pc = "promoting" /\ a = job.art)
    BY <2>1, <2>3 DEF ForceRows
  <2> QED
    BY <2>2, <2>3
<1> QED
  BY <1>1, Invariance, PTL

\* Reprocessing a snapshot with the version it has changes no price in force, when no two
\* products have the same name and pack.
THEOREM Idempotent == Spec => PromotionIsIdempotent
<1>1. IInv /\ [Next]_vars
      => [PacksDiffer /\ ~Rollback /\ PromoteRow /\ art[job.art].mapped = job.version
          => Active' = Active /\ \A o \in Active : obs'[o] = obs[o]]_vars
  <2> SUFFICES ASSUME IInv, PacksDiffer, ~Rollback, PromoteRow, art[job.art].mapped = job.version
               PROVE  Active' = Active /\ \A o \in Active : obs'[o] = obs[o]
    OBVIOUS
  <2> PICK a, r, v :
         /\ a = job.art /\ v = job.version
         /\ \/ /\ Item[v][r] = NoItem /\ RowStep(r, "unmapped") /\ obs' = Withdrawn(a, r)
            \/ /\ Item[v][r] # NoItem /\ RowStep(r, "canonicalized") /\ obs' = obs
            \/ \E new, h : /\ Revision(a, r, Item[v][r], v, new, h) /\ ~Promoted(a, r, v)
                           /\ \A o \in ActiveLineage(r) : ~SamePrice(o, a, r, Item[v][r])
    BY PromoteRowIs
  <2>1. a \in Stored /\ a \in Artifact /\ r \in Current(a) /\ InUse = v
    BY RowStepIs DEF Revision
  <2>2. Settled(a, r, v)
    BY <2>1 DEF IInv, SettledDone, PacksDiffer
  <2>3. CASE Item[v][r] = NoItem /\ obs' = Withdrawn(a, r)
    <3>1. \A o \in Active : ~(obs[o].art = a /\ obs[o].row = r)
      BY <2>2, <2>3 DEF Settled
    <3>2. \A o \in Obs : obs'[o] = obs[o]
      BY <2>3, <3>1 DEF Withdrawn
    <3> QED
      BY <3>2 DEF Active
  <2>4. CASE obs' = obs
    BY <2>4 DEF Active
  <2>5. ASSUME NEW new, NEW h, Revision(a, r, Item[v][r], v, new, h), ~Promoted(a, r, v),
               \A o \in ActiveLineage(r) : ~SamePrice(o, a, r, Item[v][r])
        PROVE  Active' = Active /\ \A o \in Active : obs'[o] = obs[o]
    <3>1. /\ Item[v][r] # NoItem /\ ActiveLineage(r) = {}
          /\ \E o \in ActiveEffective(r, Item[v][r]) : obs[o].art = a
      BY <2>2, <2>5 DEF Settled, Revision
    <3>2. ~Wins(a, r, Item[v][r])
      <4>1. a \in Nat
        BY <2>1, Numbers
      <4> QED
        BY <3>1, <4>1 DEF Wins
    <3>3. Lost(r, Item[v][r], h) = {}
      BY <2>5, <3>1, <3>2, RevisionIs DEF Lost
    <3>4. Active' = Active /\ new \notin Active
      BY <2>5, <3>2, <3>3, RevisionIs DEF Revision, RevisedStep
    <3>5. \A o \in Obs \ {new} : obs'[o] = obs[o]
      BY <2>5, <3>3 DEF Revision, RevisedStep
    <3> QED
      BY <3>4, <3>5 DEF Active
  <2> QED
    BY <2>3, <2>4, <2>5
<1> QED
  BY <1>1, Invariance, PTL DEF Spec, PromotionIsIdempotent

=============================================================================
