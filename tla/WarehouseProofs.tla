--------------------------- MODULE WarehouseProofs ---------------------------
(***************************************************************************)
(* Theorems about WarehouseSync, for every number of rows, syncers and     *)
(* keys, every size of a batch, and any weather, failures and overlaps     *)
(* together included.  TypeCorrect needs nothing; CursorIsSafe needs the   *)
(* stamps of two transactions apart.                                       *)
(***************************************************************************)
EXTENDS WarehouseSync, NaturalsInduction, WellFoundedInduction, TLAPS

\* What the copy must hold of row i once a cursor has passed it.
Good(i) == IF "overlap" \in weather THEN copy[i].status # "none" ELSE copy[i] = obs[i]

Covered(c) ==
    \A i \in Id : obs[i].status # "none" /\ ~Past(obs[i].stamp, i, c) => Good(i)

\* Every stamp was given out before now, and so was that of every cursor and row read.
StampsPassed ==
    /\ \A i \in Id : obs[i].stamp < clock
    /\ saved.stamp < clock
    /\ \A p \in Syncer : syn[p].cur.stamp < clock

\* A row in the hands of a sync lies past the cursor it was read from, and is as SQLite has
\* it or has been stamped since, later than anything in the batch.
RowsRead ==
    \A p \in Syncer : \A s \in syn[p].rows :
        /\ s.row.status # "none" /\ obs[s.id].status # "none"
        /\ Past(s.row.stamp, s.id, syn[p].cur)
        /\ \A t \in syn[p].rows : t.id = s.id => t = s
        /\ s.row = obs[s.id] \/ \A t \in syn[p].rows : t.row.stamp < obs[s.id].stamp

\* A batch leaves no row out between the cursor it was read from and its last row, but rows
\* stamped since.
BatchWhole ==
    \A p \in Syncer : \A s \in syn[p].rows : \A i \in Id :
        /\ obs[i].status # "none"
        /\ Past(obs[i].stamp, i, syn[p].cur)
        /\ ~Past(obs[i].stamp, i, [stamp |-> s.row.stamp, id |-> s.id])
        => \E t \in syn[p].rows : t.id = i

\* Where syncs do not overlap, one at a time is not idle.
OneSync ==
    "overlap" \notin weather =>
        \A p, q \in Syncer : syn[p].pc # "idle" /\ syn[q].pc # "idle" => p = q

\* The saved cursor covers, and so does the one a sync reads on from.
CursorsCover ==
    /\ Covered(saved)
    /\ \A p \in Syncer : syn[p].pc \in {"read", "commit"} => Covered(syn[p].cur)

Core == StampsPassed /\ RowsRead /\ BatchWhole /\ OneSync /\ CursorsCover

-----------------------------------------------------------------------------
(* Cursors and batches.                                                    *)

LEMMA PastChain ==
    ASSUME NEW c \in Cursor, NEW a \in Stamp, NEW i \in Id, NEW b \in Stamp, NEW j \in Id,
           Past(a, i, [stamp |-> b, id |-> j]), Past(b, j, c)
    PROVE  Past(a, i, c)
BY WarehouseAssumption DEF Past, Cursor, Stamp, Id

\* A set of natural numbers with a bound has a greatest one.
LEMMA Greatest ==
    ASSUME NEW n \in Nat, NEW T, T \subseteq 0..n, T # {}
    PROVE  \E x \in T : \A y \in T : y <= x
<1> DEFINE U == {m \in Nat : n - m \in T}
<1>1. \A x \in T : x \in Int /\ n - x \in U /\ n - (n - x) = x
  OBVIOUS
<1>2. U \subseteq Nat /\ U # {}
  BY <1>1
<1>3. PICK u \in U : \A y \in U : ~(<<y, u>> \in OpToRel(<, Nat))
  BY <1>2, NatLessThanWellFounded, WFMin
<1>4. \A y \in U : ~(y < u)
  BY <1>2, <1>3 DEF OpToRel
<1>5. n - u \in T
  OBVIOUS
<1>6. \A y \in T : y <= n - u
  BY <1>1, <1>4
<1>. QED  BY <1>5, <1>6

\* The last row of a batch is one of its rows.
LEMMA LastIsRead ==
    ASSUME NEW rows \in SUBSET Sent, rows # {},
           \A s, t \in rows : t.id = s.id => t = s
    PROVE  \E s \in rows : CursorOf(rows) = [stamp |-> s.row.stamp, id |-> s.id]
<1>1. \A s \in rows : s.row.stamp \in 0..MaxStamp /\ s.id \in 0..MaxRows
  BY WarehouseAssumption DEF Sent, Row, Stamp, Id
<1>2. PICK x \in {s.row.stamp : s \in rows} : \A s \in rows : s.row.stamp <= x
  <2> DEFINE T == {s.row.stamp : s \in rows}
  <2>1. T \in SUBSET (0..MaxStamp) /\ T # {}
    BY <1>1
  <2> HIDE DEF T
  <2>2. \E x \in T : \A y \in T : y <= x
    BY <2>1, Greatest, WarehouseAssumption
  <2>. QED  BY <2>2 DEF T
<1> DEFINE late == {s \in rows : s.row.stamp = x}
<1>3. PICK y \in {s.id : s \in late} : \A s \in late : s.id <= y
  <2> DEFINE T == {s.id : s \in late}
  <2>1. T \in SUBSET (0..MaxRows) /\ T # {}
    BY <1>1, <1>2
  <2> HIDE DEF T
  <2>2. \E z \in T : \A t \in T : t <= z
    BY <2>1, Greatest, WarehouseAssumption
  <2>. QED  BY <2>2 DEF T
<1>4. PICK s \in late : s.id = y
  OBVIOUS
<1>5. \A t \in rows : s = t \/ Past(s.row.stamp, s.id, [stamp |-> t.row.stamp, id |-> t.id])
  <2> SUFFICES ASSUME NEW t \in rows, s # t
               PROVE  Past(s.row.stamp, s.id, [stamp |-> t.row.stamp, id |-> t.id])
    OBVIOUS
  <2>1. t.row.stamp <= x /\ s.row.stamp = x /\ t.id # s.id
    BY <1>2, <1>4
  <2>2. t.row.stamp = x => t.id <= s.id
    BY <1>3, <1>4
  <2>. QED  BY <1>1, <2>1, <2>2 DEF Past
<1>. QED  BY <1>5 DEF CursorOf

-----------------------------------------------------------------------------
(* Types.                                                                  *)

OfferRec == [row : Id, mapped : BOOLEAN]

SyncRec == [pc : PC, pubs : SUBSET Pub, cur : Cursor, rows : SUBSET Sent,
            offers : SUBSET OfferRec]

\* Where a sync may stand.
Stands(x) ==
    /\ x \in SyncRec
    /\ x.pubs \subseteq pubs
    /\ x.rows # {} <=> x.pc = "commit"

LEMMA Typed ==
    ASSUME TypeOK
    PROVE  /\ syn \in [Syncer -> SyncRec] /\ \A p \in Syncer : Stands(syn[p])
           /\ obs \in [Id -> Row] /\ copy \in [Id -> Row] /\ saved \in Cursor
           /\ Start \in Cursor /\ NoRow \in Row
BY WarehouseAssumption DEF TypeOK, SyncRec, OfferRec, Stands, Start, NoRow, Cursor, Row, Status, Stamp, Id

LEMMA TypedAgain ==
    ASSUME clock' \in 1..(MaxStamp + 1), pubs' \subseteq Pub, refs' \subseteq pubs',
           obs' \in [Id -> Row], copy' \in [Id -> Row], saved' \in Cursor,
           offers' \subseteq OfferRec, daily' \subseteq Id, latest' \subseteq Id,
           syn' \in [Syncer -> SyncRec], \A p \in Syncer : Stands(syn[p])'
    PROVE  TypeOK'
BY DEF TypeOK, SyncRec, OfferRec, Stands

\* A sync moves on.
LEMMA SynWritten ==
    ASSUME TypeOK, NEW p \in Syncer, NEW x, Stands(x), pubs' = pubs,
           syn' = [syn EXCEPT ![p] = x]
    PROVE  /\ syn' \in [Syncer -> SyncRec] /\ \A q \in Syncer : Stands(syn[q])'
           /\ syn'[p] = x /\ \A q \in Syncer : q # p => syn'[q] = syn[q]
BY Typed DEF Stands

LEMMA InitType == Init => TypeOK
BY WarehouseAssumption DEF Init, TypeOK, NotSyncing, Start, NoRow, Cursor, Row, Status, Stamp, Id,
                           PC, Sent

\* What prices do to the rows of SQLite: some are written, all with the clock.
Restamped ==
    /\ obs' \in [Id -> Row]
    /\ \A i \in Id : \/ obs'[i] = obs[i]
                     \/ obs'[i].status # "none" /\ obs'[i].stamp = clock

LEMMA PromoteRestamps ==
    ASSUME TypeOK, NEW k \in Key, NEW p \in Pub, NEW i \in Id, Promote(k, p, i)
    PROVE  Restamped /\ clock' \in 1..(MaxStamp + 1) /\ (Apart => clock' = clock + 1)
<1>1. clock \in 1..MaxStamp /\ clock \in Stamp
  BY WarehouseAssumption DEF TypeOK, Promote, Stamp
<1>2. ASSUME NEW status \in {"active", "superseded"}, NEW losers,
             obs' = Stamped(i, [status |-> status, key |-> k, pub |-> p, stamp |-> clock], losers)
      PROVE  Restamped
  BY <1>1, <1>2, Typed DEF Restamped, Stamped, Row, Status
<1>3. Restamped
  BY <1>2 DEF Promote
<1>4. clock' \in 1..(MaxStamp + 1) /\ (Apart => clock' = clock + 1)
  BY <1>1, WarehouseAssumption DEF Promote, ClockMoves
<1>. QED  BY <1>3, <1>4

LEMMA WithdrawRestamps ==
    ASSUME TypeOK, NEW i \in Id, Withdraw(i)
    PROVE  Restamped /\ clock' \in 1..(MaxStamp + 1) /\ (Apart => clock' = clock + 1)
<1>1. clock \in 1..MaxStamp /\ clock \in Stamp
  BY WarehouseAssumption DEF TypeOK, Withdraw, Stamp
<1>2. obs' = [obs EXCEPT ![i] = [obs[i] EXCEPT !.status = "superseded", !.stamp = clock]]
  BY Typed DEF Withdraw, Row
<1>3. Restamped
  BY <1>1, <1>2, Typed DEF Restamped, Row, Status
<1>4. clock' \in 1..(MaxStamp + 1) /\ (Apart => clock' = clock + 1)
  BY <1>1, WarehouseAssumption DEF Withdraw, ClockMoves
<1>. QED  BY <1>3, <1>4

LEMMA ChangeType ==
    ASSUME TypeOK, Change
    PROVE  TypeOK'
<1>1. CASE \E p \in Pub \ pubs : AddPublication(p)
  BY <1>1, Typed DEF AddPublication, TypeOK, warehouse, views
<1>2. ASSUME UNCHANGED <<pubs, warehouse, syn, weather>>, Restamped, clock' \in 1..(MaxStamp + 1)
      PROVE  TypeOK'
  BY <1>2, Typed, TypedAgain DEF TypeOK, Restamped, Stands, warehouse, views, OfferRec
<1>3. CASE \E k \in Key, p \in Pub, i \in Id : Promote(k, p, i)
  BY <1>2, <1>3, PromoteRestamps DEF Promote
<1>4. CASE \E i \in Id : Withdraw(i)
  BY <1>2, <1>4, WithdrawRestamps DEF Withdraw
<1>. QED  BY <1>1, <1>3, <1>4 DEF Change

-----------------------------------------------------------------------------
(* The prices of SQLite change.                                            *)

\* A cursor stays covered: what is written to SQLite lies past it.
LEMMA CoveredOverChange ==
    ASSUME TypeOK, Restamped, UNCHANGED <<copy, weather>>,
           NEW c \in Cursor, c.stamp < clock, Covered(c)
    PROVE  Covered(c)'
<1> SUFFICES ASSUME NEW i \in Id, obs'[i].status # "none", ~Past(obs'[i].stamp, i, c)
             PROVE  Good(i)'
  BY DEF Covered, Past
<1>1. obs'[i] = obs[i]
  BY WarehouseAssumption DEF Restamped, Past, TypeOK, Cursor, Stamp
<1>. QED  BY <1>1 DEF Covered, Good

LEMMA ChangeKeeps ==
    ASSUME TypeOK, Core, Restamped, clock' = clock + 1, UNCHANGED <<warehouse, syn, weather>>
    PROVE  Core'
<1>1. /\ UNCHANGED <<copy, saved, syn, weather>>
      /\ clock \in Nat
      /\ \A i \in Id : obs[i].stamp \in Nat
      /\ \A p \in Syncer : syn[p].cur \in Cursor /\ syn[p].rows \subseteq Sent
      /\ saved \in Cursor /\ saved.stamp \in Nat
      /\ \A p \in Syncer : syn[p].cur.stamp \in Nat
  BY Typed, WarehouseAssumption DEF warehouse, TypeOK, SyncRec, Row, Stamp, Cursor
<1>2. \A i \in Id : \/ obs'[i] = obs[i]
                    \/ obs'[i].status # "none" /\ obs'[i].stamp = clock
  BY DEF Restamped
<1>3. StampsPassed'
  BY <1>1, <1>2 DEF Core, StampsPassed
<1>4. ASSUME NEW p \in Syncer, NEW s \in syn[p].rows
      PROVE  s.id \in Id /\ s.row.stamp \in Nat /\ s.row.stamp < clock
  BY <1>1, <1>4, WarehouseAssumption DEF Core, RowsRead, StampsPassed, Sent, Row, Stamp
<1>5. RowsRead'
  BY <1>1, <1>2, <1>4 DEF Core, RowsRead
<1>6. BatchWhole'
  <2> SUFFICES ASSUME NEW p \in Syncer, NEW s \in syn[p].rows, NEW i \in Id,
                      obs'[i].status # "none", Past(obs'[i].stamp, i, syn[p].cur),
                      ~Past(obs'[i].stamp, i, [stamp |-> s.row.stamp, id |-> s.id])
               PROVE  \E t \in syn[p].rows : t.id = i
    BY <1>1 DEF BatchWhole, Past
  <2>1. obs'[i] = obs[i]
    BY <1>1, <1>2, <1>4 DEF Past
  <2>. QED  BY <2>1 DEF Core, BatchWhole
<1>7. OneSync'
  BY <1>1 DEF Core, OneSync
<1>8. CursorsCover'
  <2>1. ASSUME NEW c \in Cursor, c.stamp < clock, Covered(c) PROVE Covered(c)'
    BY <1>1, <2>1, CoveredOverChange
  <2>2. Covered(saved)'
    BY <1>1, <2>1 DEF Core, StampsPassed, CursorsCover, Covered, Past, Good
  <2>3. ASSUME NEW p \in Syncer, syn[p].pc \in {"read", "commit"} PROVE Covered(syn[p].cur)'
    BY <1>1, <2>1, <2>3 DEF Core, StampsPassed, CursorsCover, Covered, Past, Good
  <2>. QED  BY <1>1, <2>2, <2>3 DEF CursorsCover
<1>. QED  BY <1>3, <1>5, <1>6, <1>7, <1>8 DEF Core

LEMMA ChangeInv ==
    ASSUME Apart, TypeOK, Core, Change
    PROVE  Core'
<1>1. CASE \E p \in Pub \ pubs : AddPublication(p)
  BY <1>1 DEF AddPublication, warehouse, Core, StampsPassed, RowsRead, BatchWhole, OneSync,
              CursorsCover, Covered, Good
<1>2. CASE \E k \in Key, p \in Pub, i \in Id : Promote(k, p, i)
  BY <1>2, PromoteRestamps, ChangeKeeps DEF Promote
<1>3. CASE \E i \in Id : Withdraw(i)
  BY <1>3, WithdrawRestamps, ChangeKeeps DEF Withdraw
<1>. QED  BY <1>1, <1>2, <1>3 DEF Change

-----------------------------------------------------------------------------
(* The steps of a sync.                                                    *)

\* A sync that only reads, or writes neither rows nor cursor, and has no batch afterwards.
LEMMA SynMoves ==
    ASSUME TypeOK, Core, NEW p \in Syncer, NEW x, Stands(x), x.rows = {},
           syn' = [syn EXCEPT ![p] = x], UNCHANGED <<ops, copy, saved, weather>>,
           x.cur.stamp < clock,
           x.pc = "read" => Covered(x.cur),
           \/ x.pc = "idle" \/ syn[p].pc # "idle"
           \/ "overlap" \in weather \/ \A q \in Syncer : syn[q].pc = "idle"
    PROVE  Core'
<1>1. /\ syn'[p] = x /\ \A q \in Syncer : q # p => syn'[q] = syn[q]
      /\ UNCHANGED <<clock, pubs, obs, copy, saved, weather>>
  BY SynWritten DEF ops
<1>2. StampsPassed'
  BY <1>1 DEF Core, StampsPassed
<1>7. RowsRead'
  BY <1>1 DEF Core, RowsRead
<1>3. BatchWhole'
  BY <1>1 DEF Core, BatchWhole
<1>4. OneSync'
  BY <1>1 DEF Core, OneSync
<1>5. x.pc # "commit"
  BY DEF Stands
<1>6. CursorsCover'
  BY <1>1, <1>5 DEF Core, CursorsCover, Covered, Good
<1>. QED  BY <1>2, <1>7, <1>3, <1>4, <1>6 DEF Core

LEMMA ReadRefsInv ==
    ASSUME TypeOK, NEW p \in Syncer, ReadRefs(p)
    PROVE  TypeOK' /\ (Core => Core')
<1> DEFINE x == [NotSyncing EXCEPT !.pc = "refs", !.pubs = pubs]
<1>1. Stands(x) /\ x.rows = {} /\ x.cur = Start /\ x.pc = "refs"
  BY Typed DEF Stands, SyncRec, NotSyncing, PC, TypeOK
<1>2. syn' = [syn EXCEPT ![p] = x] /\ UNCHANGED <<ops, warehouse, weather>>
  BY DEF ReadRefs
<1>3. TypeOK'
  BY <1>1, <1>2, SynWritten, TypedAgain DEF TypeOK, ops, warehouse, views, OfferRec
<1>4. ASSUME Core PROVE Core'
  <2>1. x.cur.stamp < clock
    BY <1>1, WarehouseAssumption DEF Start, TypeOK
  <2>. QED  BY <1>1, <1>2, <1>4, <2>1, SynMoves DEF ReadRefs, warehouse
<1>. QED  BY <1>3, <1>4

LEMMA UpsertRefsInv ==
    ASSUME TypeOK, NEW p \in Syncer, UpsertRefs(p)
    PROVE  TypeOK' /\ (Core => Core')
<1> DEFINE x == [syn[p] EXCEPT !.pc = "state", !.pubs = {}]
<1>1. Stands(x) /\ x.rows = {} /\ x.cur = syn[p].cur /\ x.pc = "state"
  BY Typed DEF Stands, SyncRec, PC, UpsertRefs
<1>2. syn' = [syn EXCEPT ![p] = x] /\ syn[p].pc # "idle"
  BY Typed DEF UpsertRefs, SyncRec
<1>3. refs' \subseteq pubs'
  BY Typed DEF UpsertRefs, TypeOK, ops, Stands
<1>4. TypeOK'
  BY <1>1, <1>2, <1>3, SynWritten, TypedAgain DEF UpsertRefs, TypeOK, ops, views, OfferRec
<1>5. ASSUME Core PROVE Core'
  BY <1>1, <1>2, <1>5, SynMoves DEF UpsertRefs, Core, StampsPassed
<1>. QED  BY <1>4, <1>5

\* Every row lies past the empty cursor.
LEMMA EmptyCovers == TypeOK => Covered(Start)
BY Typed, WarehouseAssumption DEF Covered, Past, Start, Row, Stamp, Id

LEMMA ReadCursorInv ==
    ASSUME TypeOK, NEW p \in Syncer, ReadCursor(p)
    PROVE  TypeOK' /\ (Core => Core')
<1>1. PICK c \in {saved, Start} : syn' = [syn EXCEPT ![p].pc = "read", ![p].cur = c]
  BY DEF ReadCursor
<1> DEFINE x == [syn[p] EXCEPT !.pc = "read", !.cur = c]
<1>2. Stands(x) /\ x.rows = {} /\ x.cur = c /\ x.pc = "read"
  BY Typed DEF Stands, SyncRec, PC, ReadCursor
<1>3. syn' = [syn EXCEPT ![p] = x] /\ syn[p].pc # "idle" /\ UNCHANGED <<ops, warehouse, weather>>
  BY <1>1, Typed DEF ReadCursor, SyncRec
<1>4. TypeOK'
  BY <1>2, <1>3, SynWritten, TypedAgain DEF TypeOK, ops, warehouse, views, OfferRec
<1>5. ASSUME Core PROVE Core'
  <2>1. c.stamp < clock
    BY <1>5, WarehouseAssumption DEF Core, StampsPassed, Start, TypeOK
  <2>2. Covered(c)
    <3>1. CASE c = saved
      BY <1>5, <3>1 DEF Core, CursorsCover
    <3>2. CASE c = Start
      BY <1>5, <3>2, EmptyCovers
    <3>. QED  BY <3>1, <3>2
  <2>. QED  BY <1>2, <1>3, <1>5, <2>1, <2>2, SynMoves DEF warehouse
<1>. QED  BY <1>4, <1>5

\* A batch is read from the cursor on.
LEMMA ReadBatchInv ==
    ASSUME TypeOK, NEW p \in Syncer, ReadBatch(p)
    PROVE  TypeOK' /\ (Core => Core')
<1>1. PICK B \in SUBSET Id :
        /\ IsBatch(B, syn[p].cur)
        /\ syn' = [syn EXCEPT ![p].rows = {[id |-> i, row |-> obs[i]] : i \in B},
                              ![p].pc = IF B = {} THEN "offers" ELSE "commit"]
  BY DEF ReadBatch
<1> DEFINE rows == {[id |-> i, row |-> obs[i]] : i \in B}
           x == [syn[p] EXCEPT !.rows = rows, !.pc = IF B = {} THEN "offers" ELSE "commit"]
<1>2. rows \in SUBSET Sent /\ (rows = {} <=> B = {})
  <2>1. \A i \in B : i \in Id /\ obs[i] \in Row
    BY Typed
  <2>2. \A i \in B : [id |-> i, row |-> obs[i]] \in Sent
    BY <2>1 DEF Sent
  <2>3. rows \subseteq Sent
    BY <2>2
  <2>4. rows = {} <=> B = {}
    OBVIOUS
  <2>. QED  BY <2>3, <2>4
<1>3. /\ x.rows = rows /\ x.cur = syn[p].cur /\ x.pc = IF B = {} THEN "offers" ELSE "commit"
      /\ Stands(x)
  BY <1>2, Typed DEF Stands, SyncRec, PC
<1>4. syn' = [syn EXCEPT ![p] = x] /\ syn[p].pc = "read" /\ UNCHANGED <<ops, warehouse, weather>>
  BY <1>1, Typed DEF ReadBatch, SyncRec
<1>5. TypeOK'
  BY <1>3, <1>4, SynWritten, TypedAgain DEF TypeOK, ops, warehouse, views, OfferRec
<1> HIDE DEF x
<1>6. /\ syn'[p] = x /\ \A q \in Syncer : q # p => syn'[q] = syn[q]
      /\ UNCHANGED <<clock, obs, copy, saved, weather>>
  BY <1>3, <1>4, SynWritten DEF ops, warehouse
<1>7. ASSUME Core PROVE Core'
  <2>1. StampsPassed'
    BY <1>3, <1>6, <1>7 DEF Core, StampsPassed
  <2>2. RowsRead'
    <3>1. \A s \in rows : /\ s.row = obs[s.id] /\ s.row.status # "none"
                          /\ Past(s.row.stamp, s.id, syn[p].cur)
                          /\ \A t \in rows : t.id = s.id => t = s
      BY <1>1 DEF IsBatch, Changed
    <3>. QED  BY <1>3, <1>6, <1>7, <3>1 DEF Core, RowsRead
  <2>3. BatchWhole'
    <3>1. ASSUME NEW s \in rows, NEW i \in Id, obs[i].status # "none",
                 Past(obs[i].stamp, i, syn[p].cur),
                 ~Past(obs[i].stamp, i, [stamp |-> s.row.stamp, id |-> s.id])
          PROVE  \E t \in rows : t.id = i
      <4>1. PICK j \in B : s = [id |-> j, row |-> obs[j]]
        BY <3>1
      <4>2. i \in Changed(syn[p].cur)
        BY <3>1 DEF Changed
      <4>3. i \in B
        BY <1>1, <3>1, <4>1, <4>2 DEF IsBatch
      <4>4. [id |-> i, row |-> obs[i]] \in rows
        BY <4>3
      <4>5. [id |-> i, row |-> obs[i]].id = i
        OBVIOUS
      <4>. QED  BY <4>4, <4>5
    <3>. QED  BY <1>3, <1>6, <1>7, <3>1 DEF Core, BatchWhole
  <2>4. OneSync'
    BY <1>4, <1>6, <1>7 DEF Core, OneSync
  <2>5. CursorsCover'
    BY <1>3, <1>4, <1>6, <1>7 DEF Core, CursorsCover, Covered, Good
  <2>. QED  BY <2>1, <2>2, <2>3, <2>4, <2>5 DEF Core
<1>. QED  BY <1>5, <1>7

\* What a batch does to the copy: its rows are there as they were read, the others stay.
LEMMA UpsertedRows ==
    ASSUME NEW rows \in SUBSET Sent, \A s, t \in rows : t.id = s.id => t = s, copy \in [Id -> Row]
    PROVE  /\ Upserted(rows) \in [Id -> Row]
           /\ \A s \in rows : Upserted(rows)[s.id] = s.row
           /\ \A i \in Id : (\A s \in rows : s.id # i) => Upserted(rows)[i] = copy[i]
<1>1. ASSUME NEW s \in rows PROVE (CHOOSE t \in rows : t.id = s.id) = s
  OBVIOUS
<1>2. ASSUME NEW s \in rows PROVE s.id \in Id /\ s.row \in Row
  BY DEF Sent
<1>. QED  BY <1>1, <1>2 DEF Upserted

\* Rows and cursor are written: the cursor that a batch ends with is covered.
LEMMA CommitCovers ==
    ASSUME TypeOK, Core, NEW p \in Syncer, syn[p].pc = "commit",
           NEW rows, rows = syn[p].rows, NEW cur, cur = syn[p].cur,
           copy' = Upserted(rows), UNCHANGED <<obs, weather>>
    PROVE  /\ Covered(CursorOf(rows))'
           /\ CursorOf(rows) \in Cursor
           /\ CursorOf(rows).stamp < clock
           /\ Covered(cur)'
           /\ "overlap" \in weather => \A i \in Id : copy[i].status # "none" => copy'[i].status # "none"
<1>1. /\ rows \in SUBSET Sent /\ rows # {} /\ cur \in Cursor
      /\ \A s, t \in rows : t.id = s.id => t = s
  BY Typed DEF Stands, SyncRec, Core, RowsRead
<1>2. PICK last \in rows : CursorOf(rows) = [stamp |-> last.row.stamp, id |-> last.id]
  BY <1>1, LastIsRead
<1>3. /\ CursorOf(rows) \in Cursor
      /\ \A s \in rows : s.id \in Id /\ s.row \in Row /\ s.row.stamp < clock
  <2>1. \A s \in rows : s.id \in Id /\ s.row \in Row
    BY <1>1 DEF Sent
  <2>2. ASSUME NEW s \in rows PROVE s.row.stamp < clock
    BY <2>1, Typed, WarehouseAssumption DEF Core, RowsRead, StampsPassed, TypeOK, Row, Stamp
  <2>. QED  BY <1>2, <2>1, <2>2 DEF Cursor, Row
<1>4. /\ \A s \in rows : copy'[s.id] = s.row
      /\ \A i \in Id : (\A s \in rows : s.id # i) => copy'[i] = copy[i]
  BY <1>1, UpsertedRows, Typed
<1>5. "overlap" \in weather => \A i \in Id : copy[i].status # "none" => copy'[i].status # "none"
  BY <1>4 DEF Core, RowsRead
<1>6. \A s \in rows : Past(obs[s.id].stamp, s.id, cur)
  <2> SUFFICES ASSUME NEW s \in rows PROVE Past(obs[s.id].stamp, s.id, cur)
    OBVIOUS
  <2>1. Past(s.row.stamp, s.id, cur) /\ (s.row = obs[s.id] \/ s.row.stamp < obs[s.id].stamp)
    BY DEF Core, RowsRead
  <2>2. s.row.stamp \in Int /\ obs[s.id].stamp \in Int /\ cur.stamp \in Int
    BY <1>1, <1>3, Typed, WarehouseAssumption DEF Row, Stamp, Cursor
  <2>. QED  BY <2>1, <2>2 DEF Past
<1>7. Covered(cur)
  BY DEF Core, CursorsCover
<1>8. Covered(cur)'
  BY <1>4, <1>6, <1>7 DEF Covered, Good
<1>9. Covered(CursorOf(rows))'
  <2> SUFFICES ASSUME NEW i \in Id, obs[i].status # "none",
                      ~Past(obs[i].stamp, i, [stamp |-> last.row.stamp, id |-> last.id])
               PROVE  Good(i)'
    BY <1>2 DEF Covered
  <2>1. CASE ~Past(obs[i].stamp, i, cur)
    BY <1>8, <2>1 DEF Covered
  <2>2. CASE Past(obs[i].stamp, i, cur)
    <3>1. PICK t \in rows : t.id = i
      BY <2>2 DEF Core, BatchWhole
    <3>2. t.row = obs[i]
      <4>1. t.row = obs[i] \/ last.row.stamp < obs[i].stamp
        BY <3>1 DEF Core, RowsRead
      <4>2. ~(last.row.stamp < obs[i].stamp)
        BY <1>3, Typed, WarehouseAssumption DEF Past, Row, Stamp
      <4>. QED  BY <4>1, <4>2
    <3>. QED  BY <1>4, <3>1, <3>2 DEF Good
  <2>. QED  BY <2>1, <2>2
<1>. QED  BY <1>2, <1>3, <1>5, <1>8, <1>9

\* The cursor of another sync stays covered when a batch is written: where syncs overlap no
\* row leaves the copy, and where they do not there is no other sync.
LEMMA OthersCovered ==
    ASSUME TypeOK, Core, NEW p \in Syncer, NEW q \in Syncer, q # p,
           syn[p].pc = "commit", syn[q].pc \in {"read", "commit"},
           NEW cur, cur = syn[q].cur, UNCHANGED <<obs, weather>>,
           "overlap" \in weather => \A i \in Id : copy[i].status # "none" => copy'[i].status # "none"
    PROVE  Covered(cur)'
<1>1. "overlap" \in weather
  BY DEF Core, OneSync
<1>2. Covered(cur)
  BY DEF Core, CursorsCover
<1>. QED  BY <1>1, <1>2 DEF Covered, Good

LEMMA CommitBatchCore ==
    ASSUME TypeOK, Core, NEW p \in Syncer, NEW rows, rows = syn[p].rows, syn[p].pc = "commit",
           NEW x, Stands(x), x.rows = {}, x.cur = CursorOf(rows), x.pc \in {"offers", "read"},
           syn' = [syn EXCEPT ![p] = x] \/ UNCHANGED syn,
           copy' = Upserted(rows), saved' = CursorOf(rows), UNCHANGED <<clock, pubs, obs, weather>>
    PROVE  Core'
<1>1. PICK cur : cur = syn[p].cur
  OBVIOUS
<1>2. /\ Covered(CursorOf(rows))' /\ CursorOf(rows) \in Cursor /\ CursorOf(rows).stamp < clock
      /\ Covered(cur)'
      /\ "overlap" \in weather => \A i \in Id : copy[i].status # "none" => copy'[i].status # "none"
  BY <1>1, CommitCovers
<1>3. /\ syn'[p] = x \/ syn'[p] = syn[p]
      /\ \A q \in Syncer : q # p => syn'[q] = syn[q]
  BY SynWritten
<1>4. StampsPassed'
  BY <1>2, <1>3 DEF Core, StampsPassed
<1>5. RowsRead'
  BY <1>3 DEF Core, RowsRead
<1>6. BatchWhole'
  BY <1>3 DEF Core, BatchWhole
<1>7. OneSync'
  BY <1>3 DEF Core, OneSync
<1>8. CursorsCover'
  <2>1. PICK last : last = CursorOf(rows)
    OBVIOUS
  <2>2. Covered(saved)'
    BY <1>2, <2>1 DEF Covered, Good, Past
  <2>3. ASSUME NEW q \in Syncer, syn'[q].pc \in {"read", "commit"} PROVE Covered(syn[q].cur)'
    <3>1. PICK c : c = syn[q].cur
      OBVIOUS
    <3>2. CASE q # p
      <4>1. Covered(c)'
        BY <1>2, <1>3, <2>3, <3>1, <3>2, OthersCovered
      <4>. QED  BY <1>3, <3>1, <3>2, <4>1 DEF Covered, Good, Past
    <3>3. CASE q = p /\ syn'[p] = syn[p]
      BY <1>1, <1>2, <3>3 DEF Covered, Good, Past
    <3>4. CASE q = p /\ syn'[p] = x
      BY <1>2, <2>1, <3>4 DEF Covered, Good, Past
    <3>. QED  BY <1>3, <3>2, <3>3, <3>4
  <2>. QED  BY <2>2, <2>3 DEF CursorsCover
<1>. QED  BY <1>4, <1>5, <1>6, <1>7, <1>8 DEF Core

\* The rows of a batch have different ids.
Distinct(rows) == \A s, t \in rows : t.id = s.id => t = s

LEMMA CommitBatchInv ==
    ASSUME TypeOK, \A q \in Syncer : Distinct(syn[q].rows), NEW p \in Syncer, CommitBatch(p)
    PROVE  TypeOK' /\ (Core => Core')
<1>1. PICK rows : rows = syn[p].rows
  OBVIOUS
<1> DEFINE x == [syn[p] EXCEPT !.rows = {}, !.cur = CursorOf(rows),
                               !.pc = IF Cardinality(rows) < BatchSize THEN "offers" ELSE "read"]
<1>2. /\ syn[p].pc = "commit" /\ copy' = Upserted(rows) /\ saved' = CursorOf(rows)
      /\ syn' = [syn EXCEPT ![p] = x] \/ UNCHANGED syn
      /\ UNCHANGED <<clock, pubs, obs, refs, offers, daily, latest, weather>>
  BY <1>1, Typed DEF CommitBatch, ops, views, SyncRec
<1>3. rows \in SUBSET Sent /\ rows # {} /\ Distinct(rows)
  BY <1>1, <1>2, Typed DEF Stands, SyncRec
<1>4. CursorOf(rows) \in Cursor /\ Upserted(rows) \in [Id -> Row]
  <2>1. PICK last \in rows : CursorOf(rows) = [stamp |-> last.row.stamp, id |-> last.id]
    BY <1>3, LastIsRead DEF Distinct
  <2>2. last.id \in Id /\ last.row.stamp \in Stamp
    BY <1>3 DEF Sent, Row
  <2>. QED  BY <1>3, <2>1, <2>2, UpsertedRows, Typed DEF Cursor, Distinct
<1>5. Stands(x) /\ x.rows = {} /\ x.cur = CursorOf(rows) /\ x.pc \in {"offers", "read"}
  BY <1>4, Typed DEF Stands, SyncRec, PC
<1> HIDE DEF x
<1>6. syn' \in [Syncer -> SyncRec] /\ \A q \in Syncer : Stands(syn[q])'
  <2>1. CASE syn' = [syn EXCEPT ![p] = x]
    BY <1>2, <1>5, <2>1, SynWritten
  <2>2. CASE UNCHANGED syn
    BY <1>2, <2>2, Typed DEF Stands
  <2>. QED  BY <1>2, <2>1, <2>2
<1>7. TypeOK'
  BY <1>2, <1>4, <1>6, TypedAgain DEF TypeOK, OfferRec
<1>8. ASSUME Core PROVE Core'
  BY <1>1, <1>2, <1>5, <1>8, CommitBatchCore
<1>. QED  BY <1>7, <1>8

\* A sync that ends, well or badly, holds nothing.
LEMMA Ends ==
    ASSUME TypeOK
    PROVE  Stands(NotSyncing) /\ NotSyncing.rows = {} /\ NotSyncing.pc = "idle" /\ NotSyncing.cur = Start
BY Typed DEF Stands, SyncRec, NotSyncing, PC

LEMMA EndInv ==
    ASSUME TypeOK, NEW p \in Syncer, syn' = [syn EXCEPT ![p] = NotSyncing],
           UNCHANGED <<ops, warehouse, weather>>
    PROVE  TypeOK' /\ (Core => Core')
<1>1. TypeOK'
  BY Ends, SynWritten, TypedAgain DEF TypeOK, ops, warehouse, views, OfferRec
<1>2. ASSUME Core PROVE Core'
  <2>1. Start.stamp < clock
    BY WarehouseAssumption DEF Start, TypeOK
  <2>. QED  BY <1>2, <2>1, Ends, SynMoves DEF warehouse
<1>. QED  BY <1>1, <1>2

LEMMA RejectBatchInv ==
    ASSUME TypeOK, NEW p \in Syncer, RejectBatch(p)
    PROVE  TypeOK' /\ (Core => Core')
BY EndInv DEF RejectBatch

LEMMA FailInv ==
    ASSUME TypeOK, NEW p \in Syncer, Fail(p)
    PROVE  TypeOK' /\ (Core => Core')
BY EndInv DEF Fail

\* What follows the last batch touches neither rows nor cursor.
LEMMA AfterRowsInv ==
    ASSUME TypeOK, NEW p \in Syncer, NEW x, Stands(x), x.rows = {}, x.cur = syn[p].cur,
           x.pc # "read", syn[p].pc # "idle", syn' = [syn EXCEPT ![p] = x],
           UNCHANGED <<ops, copy, refs, saved, weather>>,
           offers' \subseteq OfferRec, daily' \subseteq Id, latest' \subseteq Id
    PROVE  TypeOK' /\ (Core => Core')
<1>1. TypeOK'
  BY SynWritten, TypedAgain DEF TypeOK, ops, OfferRec
<1>2. ASSUME Core PROVE Core'
  BY <1>2, SynMoves DEF Core, StampsPassed
<1>. QED  BY <1>1, <1>2

LEMMA ReadOffersInv ==
    ASSUME TypeOK, NEW p \in Syncer, ReadOffers(p)
    PROVE  TypeOK' /\ (Core => Core')
<1>1. PICK now : now = OffersNow
  OBVIOUS
<1>2. now \subseteq OfferRec
  <2>1. \A i \in Id : [row |-> i, mapped |-> obs[i].status = "active"] \in OfferRec
    BY DEF OfferRec
  <2>. QED  BY <1>1, <2>1 DEF OffersNow
<1> DEFINE x == [syn[p] EXCEPT !.pc = "replace", !.offers = now]
<1>3. Stands(x) /\ x.rows = {} /\ x.cur = syn[p].cur /\ x.pc = "replace"
  BY <1>2, Typed DEF Stands, SyncRec, PC, ReadOffers
<1>4. syn' = [syn EXCEPT ![p] = x]
  BY <1>1, Typed DEF ReadOffers, SyncRec
<1>. QED  BY <1>3, <1>4, AfterRowsInv DEF ReadOffers, warehouse, views, TypeOK, OfferRec

LEMMA ReplaceOffersInv ==
    ASSUME TypeOK, NEW p \in Syncer, ReplaceOffers(p)
    PROVE  TypeOK' /\ (Core => Core')
<1> DEFINE x == [syn[p] EXCEPT !.pc = "daily", !.offers = {}]
<1>1. Stands(x) /\ x.rows = {} /\ x.cur = syn[p].cur /\ x.pc = "daily"
  BY Typed DEF Stands, SyncRec, PC, ReplaceOffers
<1>2. syn' = [syn EXCEPT ![p] = x] /\ offers' \subseteq OfferRec
  BY Typed DEF ReplaceOffers, SyncRec
<1>. QED  BY <1>1, <1>2, AfterRowsInv DEF ReplaceOffers, views, TypeOK

LEMMA RefreshDailyInv ==
    ASSUME TypeOK, NEW p \in Syncer, RefreshDaily(p)
    PROVE  TypeOK' /\ (Core => Core')
<1> DEFINE x == [syn[p] EXCEPT !.pc = "latest"]
<1>1. Stands(x) /\ x.rows = {} /\ x.cur = syn[p].cur /\ x.pc = "latest"
  BY Typed DEF Stands, SyncRec, PC, RefreshDaily
<1>2. syn' = [syn EXCEPT ![p] = x]
  BY Typed DEF RefreshDaily, SyncRec
<1>. QED  BY <1>1, <1>2, AfterRowsInv DEF RefreshDaily, TypeOK, InForce, OfferRec

LEMMA RefreshLatestInv ==
    ASSUME TypeOK, NEW p \in Syncer, RefreshLatest(p)
    PROVE  TypeOK' /\ (Core => Core')
<1>1. TypeOK'
  BY Ends, SynWritten, TypedAgain DEF RefreshLatest, TypeOK, ops, OfferRec
<1>2. ASSUME Core PROVE Core'
  <2>1. Start.stamp < clock
    BY WarehouseAssumption DEF Start, TypeOK
  <2>. QED  BY <1>2, <2>1, Ends, SynMoves DEF RefreshLatest
<1>. QED  BY <1>1, <1>2

-----------------------------------------------------------------------------
(* The theorems.                                                           *)

\* The types, and that a batch holds no row twice, which the copy's type rests on.
TInv == TypeOK /\ \A p \in Syncer : Distinct(syn[p].rows)

LEMMA DistinctStays ==
    ASSUME TypeOK, \A q \in Syncer : Distinct(syn[q].rows), Next
    PROVE  \A q \in Syncer : Distinct(syn[q].rows)'
<1>1. CASE Change
  BY <1>1 DEF Change, AddPublication, Promote, Withdraw
<1>2. ASSUME NEW p \in Syncer, Step(p) \/ Fail(p)
      PROVE  \A q \in Syncer : Distinct(syn[q].rows)'
  <2>1. CASE ReadBatch(p)
    <3>1. PICK B \in SUBSET Id :
            syn' = [syn EXCEPT ![p].rows = {[id |-> i, row |-> obs[i]] : i \in B},
                               ![p].pc = IF B = {} THEN "offers" ELSE "commit"]
      BY <2>1 DEF ReadBatch
    <3>2. Distinct({[id |-> i, row |-> obs[i]] : i \in B})
      BY DEF Distinct
    <3> DEFINE rows == {[id |-> i, row |-> obs[i]] : i \in B}
    <3> HIDE DEF rows
    <3>3. syn'[p].rows = rows /\ \A q \in Syncer : q # p => syn'[q] = syn[q]
      BY <3>1, Typed DEF SyncRec, rows
    <3>. QED  BY <3>2, <3>3 DEF Distinct, rows
  <2>2. CASE UNCHANGED syn
    BY <2>2 DEF Distinct
  <2>3. ASSUME syn'[p].rows = {} \/ syn'[p].rows = syn[p].rows,
               \A q \in Syncer : q # p => syn'[q] = syn[q]
        PROVE  \A q \in Syncer : Distinct(syn[q].rows)'
    BY <2>3 DEF Distinct
  <2>4. CASE ~ReadBatch(p) /\ syn' # syn
    <3>1. PICK x : syn' = [syn EXCEPT ![p] = x] /\ (x.rows = {} \/ x.rows = syn[p].rows)
      <4>1. CASE RejectBatch(p) \/ RefreshLatest(p) \/ Fail(p)
        BY <4>1 DEF RejectBatch, RefreshLatest, Fail, NotSyncing
      <4>2. CASE ReadRefs(p)
        <5> DEFINE x == [NotSyncing EXCEPT !.pc = "refs", !.pubs = pubs]
        <5>1. syn' = [syn EXCEPT ![p] = x] /\ x.rows = {}
          BY <4>2 DEF ReadRefs, NotSyncing
        <5>. QED  BY <5>1
      <4>3. CASE UpsertRefs(p)
        <5> DEFINE x == [syn[p] EXCEPT !.pc = "state", !.pubs = {}]
        <5>1. syn' = [syn EXCEPT ![p] = x] /\ (x.rows = {} \/ x.rows = syn[p].rows)
          BY <4>3, <2>4, Typed DEF UpsertRefs, SyncRec
        <5>. QED  BY <5>1
      <4>4. CASE ReadCursor(p)
        <5>1. PICK c : syn' = [syn EXCEPT ![p].pc = "read", ![p].cur = c]
          BY <4>4 DEF ReadCursor
        <5> DEFINE x == [syn[p] EXCEPT !.pc = "read", !.cur = c]
        <5>2. syn' = [syn EXCEPT ![p] = x] /\ x.rows = syn[p].rows
          BY <5>1, Typed DEF SyncRec
        <5>. QED  BY <5>2
      <4>5. CASE CommitBatch(p)
        <5> DEFINE x == [syn[p] EXCEPT !.rows = {}, !.cur = CursorOf(syn[p].rows),
                       !.pc = IF Cardinality(syn[p].rows) < BatchSize THEN "offers" ELSE "read"]
        <5>1. syn' = [syn EXCEPT ![p] = x] /\ (x.rows = {} \/ x.rows = syn[p].rows)
          BY <4>5, <2>4, Typed DEF CommitBatch, SyncRec
        <5>. QED  BY <5>1
      <4>6. CASE ReadOffers(p)
        <5> DEFINE x == [syn[p] EXCEPT !.pc = "replace", !.offers = OffersNow]
        <5>1. syn' = [syn EXCEPT ![p] = x] /\ (x.rows = {} \/ x.rows = syn[p].rows)
          BY <4>6, <2>4, Typed DEF ReadOffers, SyncRec
        <5>. QED  BY <5>1
      <4>7. CASE ReplaceOffers(p)
        <5> DEFINE x == [syn[p] EXCEPT !.pc = "daily", !.offers = {}]
        <5>1. syn' = [syn EXCEPT ![p] = x] /\ (x.rows = {} \/ x.rows = syn[p].rows)
          BY <4>7, <2>4, Typed DEF ReplaceOffers, SyncRec
        <5>. QED  BY <5>1
      <4>8. CASE RefreshDaily(p)
        <5> DEFINE x == [syn[p] EXCEPT !.pc = "latest"]
        <5>1. syn' = [syn EXCEPT ![p] = x] /\ (x.rows = {} \/ x.rows = syn[p].rows)
          BY <4>8, <2>4, Typed DEF RefreshDaily, SyncRec
        <5>. QED  BY <5>1
      <4>. QED  BY <1>2, <2>4, <4>1, <4>2, <4>3, <4>4, <4>5, <4>6, <4>7, <4>8 DEF Step
    <3>2. syn'[p].rows = {} \/ syn'[p].rows = syn[p].rows
      BY <3>1, Typed
    <3>3. \A q \in Syncer : q # p => syn'[q] = syn[q]
      BY <3>1, Typed
    <3>. QED  BY <2>3, <3>2, <3>3
  <2>. QED  BY <2>1, <2>2, <2>4
<1>. QED  BY <1>1, <1>2 DEF Next

\* The inductive invariant of CursorCovers.
IInv == TInv /\ Core

LEMMA SyncInv ==
    ASSUME TInv, NEW p \in Syncer, Step(p) \/ Fail(p)
    PROVE  TypeOK' /\ (Core => Core')
BY ReadRefsInv, UpsertRefsInv, ReadCursorInv, ReadBatchInv, CommitBatchInv, RejectBatchInv,
   ReadOffersInv, ReplaceOffersInv, RefreshDailyInv, RefreshLatestInv, FailInv DEF TInv, Step

LEMMA StutterInv ==
    ASSUME UNCHANGED vars
    PROVE  (TInv => TInv') /\ (Core => Core')
BY DEF vars, ops, views, TInv, Distinct, TypeOK, Core, StampsPassed, RowsRead, BatchWhole, OneSync,
       CursorsCover, Covered, Good

\* TypeOK in every reachable state: what the two databases hold, and what a sync holds at
\* the step where it stands; a batch in hand is never empty, however syncs overlap and fail.
THEOREM TypeCorrect == Spec => []TypeOK
<1>1. Init => TInv
  <2>1. Init => \A p \in Syncer : Distinct(syn[p].rows)
    BY DEF Init, NotSyncing, Distinct
  <2>. QED  BY <2>1, InitType DEF TInv
<1>2. TInv /\ [Next]_vars => TInv'
  <2> SUFFICES ASSUME TInv, [Next]_vars PROVE TInv'
    OBVIOUS
  <2>1. CASE Change
    BY <2>1, ChangeType, DistinctStays DEF TInv, Next
  <2>2. CASE \E p \in Syncer : Step(p) \/ Fail(p)
    BY <2>2, SyncInv, DistinctStays DEF TInv, Next
  <2>3. CASE UNCHANGED vars
    BY <2>3, StutterInv
  <2>. QED  BY <2>1, <2>2, <2>3 DEF Next
<1>3. TInv => TypeOK
  BY DEF TInv
<1>. QED  BY <1>1, <1>2, <1>3, PTL DEF Spec

LEMMA InitCore == Init => Core
<1> SUFFICES ASSUME Init PROVE Core
  OBVIOUS
<1>1. clock = 1 /\ saved = Start /\ obs = [i \in Id |-> NoRow] /\ syn = [p \in Syncer |-> NotSyncing]
  BY DEF Init
<1>. QED  BY <1>1 DEF Core, StampsPassed, RowsRead, BatchWhole, OneSync, CursorsCover, Covered,
                      NotSyncing, Start, NoRow

\* Where two transactions never carry the same stamp, no row of SQLite that the saved cursor
\* has passed is missing from the copy, and where syncs run one at a time it is there as it
\* is in SQLite: however a batch cuts a stamp in two, whatever is promoted or withdrawn
\* between the read of a batch and its commit, whether the commit's answer comes or not, and
\* wherever a sync stops.
THEOREM CursorIsSafe == Apart => (Spec => []CursorCovers)
<1> SUFFICES ASSUME Apart PROVE Spec => []CursorCovers
  OBVIOUS
<1>1. Init => IInv
  <2>1. Init => \A p \in Syncer : Distinct(syn[p].rows)
    BY DEF Init, NotSyncing, Distinct
  <2>. QED  BY <2>1, InitType, InitCore DEF IInv, TInv
<1>2. IInv /\ [Next]_vars => IInv'
  <2> SUFFICES ASSUME TInv, Core, [Next]_vars PROVE TInv' /\ Core'
    BY DEF IInv
  <2>1. CASE Change
    BY <2>1, ChangeType, ChangeInv, DistinctStays DEF TInv, Next
  <2>2. CASE \E p \in Syncer : Step(p) \/ Fail(p)
    BY <2>2, SyncInv, DistinctStays DEF TInv, Next
  <2>3. CASE UNCHANGED vars
    BY <2>3, StutterInv
  <2>. QED  BY <2>1, <2>2, <2>3 DEF Next
<1>3. IInv => CursorCovers
  BY DEF IInv, Core, CursorsCover, Covered, Good, CursorCovers
<1>. QED  BY <1>1, <1>2, <1>3, PTL DEF Spec
=============================================================================
