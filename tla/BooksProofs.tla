---------------------------- MODULE BooksProofs ----------------------------
(***************************************************************************)
(* Theorems about the books (Books): for any files, exports, bills, rows,  *)
(* importers, closes and bounds, and for amounts of either sign. The first *)
(* parts need no arithmetic; the last one adds up what is allocated.       *)
(***************************************************************************)
EXTENDS Books, SumLemmas

Sources == {"ai", "aws"}

-----------------------------------------------------------------------------
(* What rows and charges are. *)

\* A row of an export names it and its hash, and its call is on a day of the model.
LEMMA RowFacts ==
  /\ \A h \in Hash, e \in Export : \A r \in RowsOf(h, e) :
       r[1] = h /\ r[3] = e /\ r \in AllRows /\ CallOf(r).day \in Day
  /\ \A r \in AllRows : r[1] \in Hash /\ r[3] \in Export /\ CallOf(r).day \in Day
<1>1. ASSUME NEW h \in Hash, NEW e \in Export, NEW r \in RowsOf(h, e)
      PROVE  r[1] = h /\ r[3] = e /\ r \in AllRows /\ CallOf(r).day \in Day
  <2>1. PICK n \in DOMAIN Calls[e] : r = <<h, n, e>>
    BY <1>1 DEF RowsOf
  <2>2. r \in AllRows
    BY <1>1 DEF AllRows
  <2>3. Calls[e][n].day \in Day
    BY <2>1, BooksAssumption
  <2> QED
    BY <2>1, <2>2, <2>3 DEF CallOf
<1>2. \A r \in AllRows : \E h \in Hash, e \in Export : r \in RowsOf(h, e)
  BY DEF AllRows
<1> QED
  BY <1>1, <1>2

\* A line of a bill names it, its hash and its path, is on a day of the model and
\* in a category.
LEMMA LineFacts ==
  /\ \A h \in Hash, b \in Bill, p \in CloudPath : \A r \in LinesOf(h, b, p) :
       r[1] = h /\ r[3] = b /\ r[4] = p /\ r \in AllLines
  /\ \A r \in AllLines : LineOf(r).day \in Day /\ LineOf(r).category \in Category
<1>1. ASSUME NEW h \in Hash, NEW b \in Bill, NEW p \in CloudPath, NEW r \in LinesOf(h, b, p)
      PROVE  /\ r[1] = h /\ r[3] = b /\ r[4] = p /\ r \in AllLines
             /\ LineOf(r).day \in Day /\ LineOf(r).category \in Category
  <2>1. PICK n \in DOMAIN Lines[b] : r = <<h, n, b, p>> /\ Lines[b][n].category \in Category
    BY <1>1 DEF LinesOf, parseCloudRow
  <2>2. r \in AllLines
    BY <1>1 DEF AllLines
  <2>3. Lines[b][n].day \in Day
    BY <2>1, BooksAssumption
  <2> QED
    BY <2>1, <2>2, <2>3 DEF LineOf
<1>2. \A r \in AllLines : \E h \in Hash, b \in Bill, p \in CloudPath : r \in LinesOf(h, b, p)
  BY DEF AllLines
<1> QED
  BY <1>1, <1>2

\* Superseded rows are rows held.
LEMMA SupersededHeld ==
  ASSUME NEW held, NEW h, NEW e
  PROVE  superseded(held, h, e) \subseteq held
BY DEF superseded, CopiesOf

\* What a file's rows come in place of.
LEMMA UpsertedIs ==
  ASSUME NEW held, NEW S
  PROVE  /\ Upserted(held, S) \subseteq held \cup S /\ S \subseteq Upserted(held, S)
         /\ WrittenOver(held, S) \subseteq held
         /\ held \subseteq Upserted(held, S) \cup WrittenOver(held, S)
BY DEF Upserted, WrittenOver

\* What a derivation writes is of its reader, on its day, of a desk and in a
\* category.
LEMMA DerivedFacts ==
  ASSUME NEW reader \in Readers, NEW held, NEW standing \in SUBSET AllLines, NEW d
  PROVE  \A r \in Derived(reader, held, standing, d) :
           r.from = reader /\ r.day = d /\ r.source \in Sources /\ r.category \in Category
<1>1. \A r \in deriveCharges(held, d) :
        r.from = "gateway" /\ r.day = d /\ r.source = "ai" /\ r.category = "Usage"
  <2>1. ASSUME NEW spent, NEW t
        PROVE  LET c == UsageCharge(spent, d, t) IN
               c.from = "gateway" /\ c.day = d /\ c.source = "ai" /\ c.category = "Usage"
    BY DEF UsageCharge
  <2> QED
    BY <2>1 DEF deriveCharges
<1>2. \A r \in Billed(standing, d) : r.line.category \in Category
  BY LineFacts DEF Billed
<1>3. \A r \in deriveCloudCharges(standing, d) :
        r.from = "cloud" /\ r.day = d /\ r.source = "aws" /\ r.category \in Category
  BY <1>2 DEF deriveCloudCharges, CloudCharge
<1>4. reader = "gateway" \/ reader = "cloud"
  BY DEF Readers
<1> QED
  BY <1>1, <1>3, <1>4, BooksAssumption DEF Derived, Sources

\* The attribution of days touched is of them or stood before.
LEMMA AttributionDays ==
  ASSUME NEW standing, NEW held, NEW days
  PROVE  \A a \in deriveAttribution(standing, held, days) : a \in standing \/ a.day \in days
<1>1. \A g \in TeamDays(held, days) : g[1] \in days
  BY DEF TeamDays
<1> QED
  BY <1>1 DEF deriveAttribution

\* What a close reads has teams and desks, pots have desks and categories, and
\* what it charges is charged to those it read.
LEMMA DirectFacts ==
  ASSUME NEW charges, \A r \in charges : r.source \in Sources
  PROVE  \A d \in directCosts(charges) : d.source \in Sources /\ d.team # NoTeam
<1>1. ASSUME NEW named, NEW g
      PROVE  directCost(named, g).source = g.source /\ directCost(named, g).team = g.team
  BY DEF directCost
<1> QED
  BY <1>1 DEF directCosts

LEMMA PotFacts ==
  ASSUME NEW charges, \A r \in charges : r.source \in Sources /\ r.category \in Category
  PROVE  \A p \in sharedCostPots(charges) : p.source \in Sources /\ p.category \in Category
<1>1. ASSUME NEW shared, NEW g
      PROVE  /\ sharedCostPot(shared, g).source = g.source
             /\ sharedCostPot(shared, g).category = g.category
  BY DEF sharedCostPot
<1>2. \A p \in sharedCostPots(charges) : \E g \in charges :
        p.source = g.source /\ p.category = g.category
  <2> DEFINE shared == {r \in charges : r.team = NoTeam}
  <2>1. sharedCostPots(charges) = {sharedCostPot(shared, g) : g \in shared}
    BY Zenon DEF sharedCostPots
  <2>2. shared \subseteq charges
    OBVIOUS
  <2> HIDE DEF shared
  <2> QED
    BY <1>1, <2>1, <2>2
<1> QED
  BY <1>2

LEMMA ChargedFacts ==
  ASSUME NEW rs, NEW direct, NEW pots,
         \A d \in direct : d.source \in Sources /\ d.team # NoTeam
  PROVE  \A t \in TeamCosts(rs, direct, pots) : t.source \in Sources /\ t.team # NoTeam
BY DEF TeamCosts

-----------------------------------------------------------------------------
(* Type correctness. *)

\* The records whose fields the types leave open keep their fields.
CloserShape ==
  \A c \in Closer :
    closer[c] \in [at : {closer[c].at}, rules : {closer[c].rules}, direct : {closer[c].direct},
                  pots : {closer[c].pots}, late : {closer[c].late}]

TypeInv == TypeOK /\ CloserShape

ImpRecord ==
  [at : {"idle", "listed", "open"}, reader : Readers, files : SUBSET Path, wipe : BOOLEAN]

\* The parts of the type invariant, by who writes them.
FolderTyped ==
  /\ folder = [p \in Path |-> folder[p]]
  /\ \A p \in Path : folder[p] \in Offers[p] \cup {Absent}
RowsTyped ==
  /\ calls \subseteq AllRows
  /\ rows \subseteq AllLines
  /\ \A a \in attribution : a.day \in Day
LedgerTyped ==
  \A r \in ledger : /\ r.day \in Day /\ r.category \in Category
                    /\ r.from \in Readers \cup {"generated"} /\ r.source \in {"ai", "aws"}
FrozenTyped == \A f \in frozen : f.source \in {"ai", "aws"} /\ f.team # NoTeam
RuleRecord == [source : {Anywhere, "ai", "aws"}, category : Category, method : Methods]
RulesTyped == rules \subseteq RuleRecord
HistoryTyped ==
  /\ read \subseteq Export /\ imported \in [CloudPath -> Reading]
  /\ torn \subseteq Hash /\ lost \subseteq AllRows /\ lapsed \in [Readers -> SUBSET Day]
ImportsTyped ==
  /\ imp \in [Importer -> ImpRecord]
  /\ tx # NoTx => tx \in Transaction /\ tx.left \subseteq imp[tx.by].files
                  /\ imp[tx.by].at = "open" /\ tx.reader = imp[tx.by].reader /\ tx.wipe = imp[tx.by].wipe
CloseTyped(c) ==
  /\ closer[c].at \in {"idle", "looked", "direct", "priced"} /\ closer[c].late \in BOOLEAN
  /\ \A d \in closer[c].direct : d.source \in {"ai", "aws"} /\ d.team # NoTeam
  /\ \A p \in closer[c].pots : p.source \in {"ai", "aws"} /\ p.category \in Category
  /\ closer[c].at \in {"idle", "looked"} => closer[c].direct = {}
  /\ closer[c].at # "priced" => closer[c].pots = {}
ClosersTyped ==
  /\ closer = [c \in Closer |-> closer[c]]
  /\ \A c \in Closer : CloseTyped(c)

LEMMA TypeParts ==
  TypeOK <=> /\ FolderTyped /\ RowsTyped /\ LedgerTyped /\ FrozenTyped /\ RulesTyped
             /\ HistoryTyped /\ ImportsTyped /\ ClosersTyped
BY DEF TypeOK, FolderTyped, RowsTyped, LedgerTyped, FrozenTyped, RulesTyped, HistoryTyped,
       ImportsTyped, ClosersTyped, CloseTyped, ImpRecord, RuleRecord

LEMMA TypeInit == Init => TypeInv
<1> SUFFICES ASSUME Init PROVE TypeInv
  OBVIOUS
<1> USE DEF Init
<1>1. FolderTyped
  BY BooksAssumption DEF FolderTyped
<1>2. RowsTyped
  BY DEF RowsTyped
<1>3. LedgerTyped
  BY BooksAssumption DEF LedgerTyped
<1>4. FrozenTyped /\ RulesTyped
  BY BooksAssumption DEF FrozenTyped, RulesTyped, RuleRecord
<1>5. ImportsTyped
  BY DEF ImportsTyped, ImpRecord, Idle, Readers
<1>6. ClosersTyped /\ CloserShape
  BY DEF ClosersTyped, CloseTyped, CloserShape, Ready
<1>7. HistoryTyped
  BY DEF HistoryTyped, Reading, NotRead
<1> QED
  BY <1>1, <1>2, <1>3, <1>4, <1>5, <1>6, <1>7, TypeParts DEF TypeInv

-----------------------------------------------------------------------------
\* The content of a file the importers read, by whose folder it is in.
LEMMA ContentOf ==
  ASSUME TypeOK, NEW p \in Path
  PROVE  /\ folder[p] \in Hash \cup {Absent}
         /\ folder[p] \in Export \cup Unreadable \cup {Absent} \/ p \in CloudPath
         /\ p \in CloudPath => folder[p] \in Bill \cup Unreadable \cup {Absent}
BY BooksAssumption DEF TypeOK, Hash, CloudPath

LEMMA ListedTyped ==
  ASSUME TypeInv, NEW i \in Importer, NEW reader \in Readers, NEW replace \in BOOLEAN,
         NEW folders \in Configured(reader), ImportListed(i, reader, folders, replace)
  PROVE  ImportsTyped'
<1>1. UNION folders \subseteq Path
  BY BooksAssumption DEF Configured, CloudPath
<1>2. imp' \in [Importer -> ImpRecord]
  BY <1>1 DEF TypeInv, TypeOK, ImportListed, ImpRecord, Seeded
<1>3. tx # NoTx => tx.by # i
  BY DEF TypeInv, TypeOK, ImportListed, Transaction
<1> QED
  BY <1>2, <1>3 DEF TypeInv, TypeOK, ImportListed, ImportsTyped, Transaction

LEMMA OpenedTyped ==
  ASSUME TypeInv, NEW i \in Importer, ImportOpened(i)
  PROVE  ImportsTyped'
<1>1. imp' \in [Importer -> ImpRecord] /\ imp'[i].at = "open"
  BY DEF TypeInv, TypeOK, ImportOpened, ImpRecord
<1>2. imp'[i].reader = imp[i].reader /\ imp'[i].files = imp[i].files /\ imp'[i].wipe = imp[i].wipe
  BY DEF TypeInv, TypeOK, ImportOpened, ImpRecord
<1>3. [p \in Path |-> NotRead] \in [Path -> Reading]
  BY DEF Reading, NotRead
<1>4. tx' \in Transaction
  BY <1>3 DEF TypeInv, TypeOK, ImportOpened, Transaction
<1> QED
  BY <1>1, <1>2, <1>4 DEF TypeInv, TypeOK, ImportOpened, ImportsTyped

\* The open import after one of its files.
LEMMA OpenTyped ==
  ASSUME TypeInv, tx # NoTx, UNCHANGED imp, tx' \in Transaction, tx'.by = tx.by,
         tx'.reader = tx.reader, tx'.wipe = tx.wipe, tx'.left \subseteq tx.left
  PROVE  ImportsTyped'
BY DEF TypeInv, TypeOK, ImportsTyped, ImpRecord

\* What a file's steps leave of the open import, whichever it is.
SameImport ==
  /\ tx'.by = tx.by /\ tx'.reader = tx.reader /\ tx'.wipe = tx.wipe
  /\ UNCHANGED <<started, folder, store, rules, imp, closer, history>>
SameRows ==
  /\ tx'.calls = tx.calls /\ tx'.rows = tx.rows /\ tx'.touched = tx.touched
  /\ tx'.lost = tx.lost /\ tx'.lapsed = tx.lapsed

\* The open import before one of its files.
FileNext(reader, p) ==
  /\ tx # NoTx /\ tx \in Transaction /\ tx.reader = reader /\ p \in tx.left
  /\ tx.found[p] \in Reading /\ \A q \in tx.left : p <= q

LEMMA NextFileIs ==
  ASSUME TypeInv, NEW reader \in Readers, NEW p \in Path, NextFile(reader, p)
  PROVE  FileNext(reader, p) /\ UNCHANGED <<started, folder, store, rules, imp, closer, history>>
BY DEF TypeInv, TypeOK, NextFile, FileNext, Transaction

LEMMA FileHashedIs ==
  ASSUME TypeInv, NEW reader \in Readers, NEW p \in Path, FileHashed(reader, p)
  PROVE  /\ FileNext(reader, p) /\ SameImport /\ SameRows /\ tx' \in Transaction
         /\ tx.found[p].hash = Absent /\ folder[p] \in Hash /\ tx'.left = tx.left
         /\ tx'.found = [tx.found EXCEPT ![p] = [hash |-> folder[p], content |-> Absent]]
<1>1. FileNext(reader, p) /\ UNCHANGED <<started, folder, store, rules, imp, closer, history>>
  BY NextFileIs DEF FileHashed
<1>2. folder[p] \in Hash
  BY ContentOf DEF TypeInv, FileHashed
<1>3. [hash |-> folder[p], content |-> Absent] \in Reading
  BY <1>2 DEF Reading, NotRead
<1>4. tx' = [tx EXCEPT !.found[p] = [hash |-> folder[p], content |-> Absent]]
  BY DEF FileHashed
<1>5. tx.found[p].hash = Absent
  BY DEF FileHashed, Hashed
<1> QED
  BY <1>1, <1>2, <1>3, <1>4, <1>5 DEF SameImport, SameRows, FileNext, Transaction

LEMMA FileRefusedIs ==
  ASSUME TypeInv, NEW reader \in Readers, NEW p \in Path, FileRefused(reader, p)
  PROVE  /\ FileNext(reader, p) /\ SameImport /\ SameRows /\ tx' \in Transaction
         /\ tx'.left = tx.left \ {p} /\ tx'.found = tx.found
<1>1. FileNext(reader, p) /\ UNCHANGED <<started, folder, store, rules, imp, closer, history>>
  BY NextFileIs DEF FileRefused
<1>2. tx' = [tx EXCEPT !.left = @ \ {p}]
  BY DEF FileRefused
<1> QED
  BY <1>1, <1>2 DEF SameImport, SameRows, FileNext, Transaction

LEMMA BillSeenIs ==
  ASSUME TypeInv, NEW p \in Path, BillSeen(p)
  PROVE  /\ FileNext("cloud", p) /\ SameImport /\ SameRows /\ tx' \in Transaction
         /\ tx.found[p].hash = Absent /\ folder[p] \in Hash /\ tx'.left = tx.left \ {p}
         /\ \E q \in Path : tx.found[q].hash = folder[p]
         /\ tx'.found = [tx.found EXCEPT ![p] = [hash |-> folder[p], content |-> folder[p]]]
<1>1. FileNext("cloud", p) /\ UNCHANGED <<started, folder, store, rules, imp, closer, history>>
  BY NextFileIs DEF BillSeen, Readers
<1>2. folder[p] \in Hash
  BY ContentOf DEF TypeInv, BillSeen
<1>3. [hash |-> folder[p], content |-> folder[p]] \in Reading
  BY <1>2 DEF Reading, NotRead
<1>4. tx' = [tx EXCEPT !.left = @ \ {p}, !.found[p] = [hash |-> folder[p], content |-> folder[p]]]
  BY DEF BillSeen
<1>5. tx.found[p].hash = Absent /\ \E q \in Path : tx.found[q].hash = folder[p]
  BY DEF BillSeen, Hashed, Seen
<1> QED
  BY <1>1, <1>2, <1>3, <1>4, <1>5 DEF SameImport, SameRows, FileNext, Transaction

\* The rows an export comes in place of, and those it leaves.
ExportRows(p) == RowsOf(tx.found[p].hash, folder[p])
ExportHeld(p) == Upserted(tx.calls, ExportRows(p))
ExportGone(p) == superseded(ExportHeld(p), tx.found[p].hash, folder[p])
ExportOver(p) == WrittenOver(tx.calls, ExportRows(p))
FoundRead(p) == [tx.found EXCEPT ![p] = [hash |-> tx.found[p].hash, content |-> folder[p]]]

LEMMA ExportReadIs ==
  ASSUME TypeInv, NEW p \in Path, ExportRead(p)
  PROVE  /\ FileNext("gateway", p) /\ SameImport /\ tx' \in Transaction
         /\ tx.found[p].hash \in Hash /\ folder[p] \in Export
         /\ tx'.left = tx.left \ {p} /\ tx'.found = FoundRead(p)
         /\ tx'.calls = ExportHeld(p) \ ExportGone(p) /\ tx'.rows = tx.rows
         /\ tx'.touched = tx.touched \cup daysTouched(ExportRows(p), ExportGone(p))
         /\ tx'.lost = tx.lost \cup ExportOver(p)
         /\ tx'.lapsed = tx.lapsed \cup {CallOf(r).day : r \in ExportOver(p)}
<1> DEFINE kept == ExportHeld(p) \ ExportGone(p)
           days == daysTouched(ExportRows(p), ExportGone(p))
           over == ExportOver(p)
           gone == {CallOf(r).day : r \in ExportOver(p)}
<1>1. FileNext("gateway", p) /\ UNCHANGED <<started, folder, store, rules, imp, closer, history>>
  BY NextFileIs DEF ExportRead, Readers
<1>2. tx.found[p].hash \in Hash /\ folder[p] \in Export
  BY <1>1 DEF ExportRead, Hashed, FileNext, Reading, NotRead
<1>3. /\ ExportRows(p) \in SUBSET AllRows /\ tx.calls \in SUBSET AllRows
      /\ ExportGone(p) \in SUBSET ExportHeld(p) /\ over \in SUBSET tx.calls
  BY <1>1, <1>2, RowFacts, SupersededHeld, UpsertedIs
     DEF ExportRows, ExportGone, ExportOver, FileNext, Transaction
<1>4. kept \in SUBSET AllRows /\ over \in SUBSET AllRows
  BY <1>3, UpsertedIs DEF ExportHeld
<1>5. days \in SUBSET Day /\ gone \in SUBSET Day
  <2>1. ExportGone(p) \in SUBSET AllRows
    BY <1>3, UpsertedIs DEF ExportHeld
  <2> QED
    BY <1>3, <1>4, <2>1, RowFacts DEF daysTouched
<1>6. tx' = [tx EXCEPT !.left = @ \ {p}, !.found[p].content = folder[p], !.calls = kept,
                       !.touched = @ \cup days, !.lost = @ \cup over, !.lapsed = @ \cup gone]
  BY DEF ExportRead, ExportRows, ExportHeld, ExportGone, ExportOver
<1>7. FoundRead(p) \in [Path -> Reading]
  BY <1>1, <1>2 DEF FoundRead, FileNext, Transaction, Reading, NotRead, Hash
<1> HIDE DEF kept, days, over, gone
<1>8. [tx.found EXCEPT ![p].content = folder[p]] = FoundRead(p)
  BY <1>1 DEF FoundRead, FileNext, Transaction, Reading, NotRead
<1>9. tx'.found = FoundRead(p)
  BY <1>1, <1>6, <1>8 DEF FileNext, Transaction
<1>10. /\ tx'.by = tx.by /\ tx'.reader = tx.reader /\ tx'.wipe = tx.wipe
       /\ tx'.left = tx.left \ {p} /\ tx'.calls = kept /\ tx'.rows = tx.rows
       /\ tx'.touched = tx.touched \cup days /\ tx'.lost = tx.lost \cup over
       /\ tx'.lapsed = tx.lapsed \cup gone
  BY <1>1, <1>6 DEF FileNext, Transaction
<1>11. tx' \in Transaction
  BY <1>1, <1>4, <1>5, <1>6, <1>7, <1>8 DEF FileNext, Transaction
<1> QED
  BY <1>1, <1>2, <1>9, <1>10, <1>11 DEF SameImport, kept, days, over, gone

BillLines(p) == LinesOf(tx.found[p].hash, folder[p], p)
BillHeld(p) == Upserted(tx.rows, BillLines(p))
BillGone(p) == ReplacedBy(BillHeld(p), p, tx.found[p].hash)
BillOver(p) == WrittenOver(tx.rows, BillLines(p))

LEMMA BillReadIs ==
  ASSUME TypeInv, NEW p \in Path, BillRead(p)
  PROVE  /\ FileNext("cloud", p) /\ SameImport /\ tx' \in Transaction /\ p \in CloudPath
         /\ tx.found[p].hash \in Hash /\ folder[p] \in Bill
         /\ tx'.left = tx.left \ {p} /\ tx'.found = FoundRead(p)
         /\ tx'.rows = BillHeld(p) \ BillGone(p) /\ tx'.calls = tx.calls
         /\ tx'.touched = tx.touched \cup staleDays(BillLines(p), BillGone(p))
         /\ tx'.lost = tx.lost /\ tx'.lapsed = tx.lapsed \cup LineDays(BillOver(p))
<1> DEFINE kept == BillHeld(p) \ BillGone(p)
           days == staleDays(BillLines(p), BillGone(p))
           gone == LineDays(BillOver(p))
<1>1. FileNext("cloud", p) /\ UNCHANGED <<started, folder, store, rules, imp, closer, history>>
  BY NextFileIs DEF BillRead, Readers
<1>2. tx.found[p].hash \in Hash /\ folder[p] \in Bill
  BY <1>1 DEF BillRead, Hashed, FileNext, Reading, NotRead
<1>3. p \in CloudPath
  BY <1>2, ContentOf, BooksAssumption DEF TypeInv
<1>4. /\ BillLines(p) \in SUBSET AllLines /\ tx.rows \in SUBSET AllLines
      /\ BillGone(p) \in SUBSET BillHeld(p) /\ BillOver(p) \in SUBSET tx.rows
  BY <1>1, <1>2, <1>3, LineFacts, UpsertedIs
     DEF BillLines, BillGone, BillOver, ReplacedBy, FileNext, Transaction
<1>5. kept \in SUBSET AllLines /\ BillGone(p) \in SUBSET AllLines /\ BillOver(p) \in SUBSET AllLines
  BY <1>4, UpsertedIs DEF BillHeld
<1>6. days \in SUBSET Day /\ gone \in SUBSET Day
  BY <1>4, <1>5, LineFacts DEF staleDays, LineDays
<1>7. tx' = [tx EXCEPT !.left = @ \ {p}, !.found[p].content = folder[p], !.rows = kept,
                       !.touched = @ \cup days, !.lapsed = @ \cup gone]
  BY DEF BillRead, BillLines, BillHeld, BillGone, BillOver
<1>8. FoundRead(p) \in [Path -> Reading]
  BY <1>1, <1>2 DEF FoundRead, FileNext, Transaction, Reading, NotRead, Hash
<1> HIDE DEF kept, days, gone
<1>9. [tx.found EXCEPT ![p].content = folder[p]] = FoundRead(p)
  BY <1>1 DEF FoundRead, FileNext, Transaction, Reading, NotRead
<1>10. /\ tx'.by = tx.by /\ tx'.reader = tx.reader /\ tx'.wipe = tx.wipe
       /\ tx'.left = tx.left \ {p} /\ tx'.rows = kept /\ tx'.calls = tx.calls
       /\ tx'.touched = tx.touched \cup days /\ tx'.lost = tx.lost
       /\ tx'.lapsed = tx.lapsed \cup gone /\ tx'.found = FoundRead(p)
  BY <1>1, <1>7, <1>9 DEF FileNext, Transaction
<1>11. tx' \in Transaction
  BY <1>1, <1>5, <1>6, <1>7, <1>8, <1>9 DEF FileNext, Transaction
<1> QED
  BY <1>1, <1>2, <1>3, <1>10, <1>11 DEF SameImport, kept, days, gone

\* Whichever step a file takes, the open import stays one.
FileStep(p) ==
  \/ \E reader \in Readers : FileHashed(reader, p) \/ FileRefused(reader, p)
  \/ ExportRead(p) \/ BillRead(p) \/ BillSeen(p)

LEMMA FileStepIs ==
  ASSUME TypeInv, NEW p \in Path, FileStep(p)
  PROVE  tx # NoTx /\ SameImport /\ tx' \in Transaction /\ tx'.left \subseteq tx.left
<1>1. ASSUME NEW reader \in Readers, FileHashed(reader, p) \/ FileRefused(reader, p)
      PROVE  tx # NoTx /\ SameImport /\ tx' \in Transaction /\ tx'.left \subseteq tx.left
  BY <1>1, FileHashedIs, FileRefusedIs DEF FileNext
<1>2. CASE ExportRead(p)
  BY <1>2, ExportReadIs DEF FileNext
<1>3. CASE BillRead(p)
  BY <1>3, BillReadIs DEF FileNext
<1>4. CASE BillSeen(p)
  BY <1>4, BillSeenIs DEF FileNext
<1> QED
  BY <1>1, <1>2, <1>3, <1>4 DEF FileStep

LEMMA FileTyped ==
  ASSUME TypeInv, NEW p \in Path, FileStep(p)
  PROVE  ImportsTyped'
BY FileStepIs, OpenTyped DEF SameImport

\* A commit writes rows and charges of the model's days.
LEMMA CommittedTyped ==
  ASSUME TypeInv, ImportCommitted
  PROVE  RowsTyped' /\ LedgerTyped' /\ FrozenTyped' /\ HistoryTyped' /\ ImportsTyped'
<1>1. /\ tx \in Transaction /\ tx.by \in Importer /\ tx.reader \in Readers
      /\ tx.calls \in SUBSET AllRows /\ tx.rows \in SUBSET AllLines
      /\ tx.touched \in SUBSET Day /\ tx.lost \in SUBSET AllRows /\ tx.lapsed \in SUBSET Day
      /\ tx.found \in [Path -> Reading]
  BY DEF TypeInv, TypeOK, ImportCommitted, Transaction
<1>2. \A a \in attribution' : a.day \in Day
  <2>1. attribution' \subseteq attribution
        \/ \E standing \in SUBSET attribution :
             attribution' = deriveAttribution(standing, tx.calls, tx.touched)
    BY DEF ImportCommitted
  <2> QED
    BY <1>1, <2>1, AttributionDays DEF TypeInv, TypeOK
<1>3. RowsTyped'
  BY <1>1, <1>2 DEF RowsTyped, ImportCommitted
<1>4. LedgerTyped'
  <2> DEFINE Sound(r) == /\ r.day \in Day /\ r.category \in Category
                         /\ r.from \in Readers \cup {"generated"} /\ r.source \in {"ai", "aws"}
  <2>1. \A d \in tx.touched : \A r \in Derived(tx.reader, tx.calls, tx.rows, d) : Sound(r)
    BY <1>1, DerivedFacts DEF Sources
  <2>2. \A r \in ledger' : r \in ledger
          \/ \E d \in tx.touched : r \in Derived(tx.reader, tx.calls, tx.rows, d)
    BY DEF ImportCommitted
  <2>3. \A r \in ledger : Sound(r)
    BY DEF TypeInv, TypeOK
  <2>4. \A r \in ledger' : Sound(r)
    BY <2>1, <2>2, <2>3
  <2> QED
    BY <2>4 DEF LedgerTyped
<1>5. FrozenTyped'
  BY DEF TypeInv, TypeOK, FrozenTyped, ImportCommitted
<1>6. ImportsTyped'
  BY <1>1 DEF TypeInv, TypeOK, ImportsTyped, ImpRecord, ImportCommitted, Idle, Readers
<1>7. HistoryTyped'
  <2>1. \A q \in Path : Torn(tx.found[q]) => tx.found[q].hash \in Hash
    <3> SUFFICES ASSUME NEW q \in Path, Torn(tx.found[q]) PROVE tx.found[q].hash \in Hash
      OBVIOUS
    <3> QED
      BY <1>1 DEF Torn, Reading, NotRead
  <2>2. torn' \subseteq Hash
    BY <2>1 DEF ImportCommitted, TypeInv, TypeOK
  <2>3. imported' \in [CloudPath -> Reading]
    BY <1>1 DEF ImportCommitted, TypeInv, TypeOK, CloudPath
  <2>4. lapsed' \in [Readers -> SUBSET Day] /\ lost' \subseteq AllRows /\ read' \subseteq Export
    BY <1>1 DEF ImportCommitted, TypeInv, TypeOK
  <2> QED
    BY <2>2, <2>3, <2>4 DEF HistoryTyped
<1> QED
  BY <1>3, <1>4, <1>5, <1>6, <1>7

-----------------------------------------------------------------------------
\* The parts of a close's record after a step that writes them.
LEMMA CloserStep ==
  ASSUME TypeInv, NEW c \in Closer, NEW k, closer' = [closer EXCEPT ![c] = k],
         k \in [at : {k.at}, rules : {k.rules}, direct : {k.direct}, pots : {k.pots}, late : {k.late}],
         k.at \in {"idle", "looked", "direct", "priced"}, k.late \in BOOLEAN,
         \A d \in k.direct : d.source \in {"ai", "aws"} /\ d.team # NoTeam,
         \A p \in k.pots : p.source \in {"ai", "aws"} /\ p.category \in Category,
         k.at \in {"idle", "looked"} => k.direct = {},
         k.at # "priced" => k.pots = {}
  PROVE  ClosersTyped' /\ CloserShape'
BY DEF TypeInv, TypeOK, ClosersTyped, CloseTyped, CloserShape

LEMMA LookedTyped ==
  ASSUME TypeInv, NEW c \in Closer, CloseLooked(c)
  PROVE  ClosersTyped' /\ CloserShape'
<1> DEFINE k == [at |-> "looked", rules |-> rules, direct |-> {}, pots |-> {}, late |-> FALSE]
<1>1. closer' = [closer EXCEPT ![c] = k]
  BY DEF CloseLooked
<1>2. /\ k \in [at : {k.at}, rules : {k.rules}, direct : {k.direct}, pots : {k.pots}, late : {k.late}]
      /\ k.at = "looked" /\ k.direct = {} /\ k.pots = {} /\ k.late \in BOOLEAN
  OBVIOUS
<1> HIDE DEF k
<1> QED
  BY <1>1, <1>2, CloserStep

LEMMA ReadDirectTyped ==
  ASSUME TypeInv, NEW c \in Closer, CloseReadDirect(c)
  PROVE  ClosersTyped' /\ CloserShape'
<1> DEFINE k == [closer[c] EXCEPT !.at = "direct", !.direct = directCosts(ledger)]
<1>1. closer[c] \in [at : {closer[c].at}, rules : {closer[c].rules}, direct : {closer[c].direct},
                     pots : {closer[c].pots}, late : {closer[c].late}]
      /\ closer[c].late \in BOOLEAN /\ closer[c].pots = {}
  BY DEF TypeInv, TypeOK, CloserShape, CloseReadDirect
<1>2. \A d \in directCosts(ledger) : d.source \in {"ai", "aws"} /\ d.team # NoTeam
  BY DirectFacts DEF TypeInv, TypeOK, Sources
<1>3. closer' = [closer EXCEPT ![c] = k]
  BY DEF CloseReadDirect
<1>4. /\ k \in [at : {k.at}, rules : {k.rules}, direct : {k.direct}, pots : {k.pots}, late : {k.late}]
      /\ k.at = "direct" /\ k.direct = directCosts(ledger) /\ k.pots = {} /\ k.late \in BOOLEAN
  BY <1>1
<1> HIDE DEF k
<1> QED
  BY <1>2, <1>3, <1>4, CloserStep

LEMMA ReadPotsTyped ==
  ASSUME TypeInv, NEW c \in Closer, CloseReadPots(c)
  PROVE  ClosersTyped' /\ CloserShape'
<1>1. CASE closer[c].direct = {}
  <2>1. closer' = [closer EXCEPT ![c] = Ready]
    BY <1>1 DEF CloseReadPots
  <2>2. /\ Ready \in [at : {Ready.at}, rules : {Ready.rules}, direct : {Ready.direct},
                      pots : {Ready.pots}, late : {Ready.late}]
        /\ Ready.at = "idle" /\ Ready.direct = {} /\ Ready.pots = {} /\ Ready.late \in BOOLEAN
    BY DEF Ready
  <2> QED
    BY <2>1, <2>2, CloserStep
<1>2. CASE closer[c].direct # {}
  <2> DEFINE k == [closer[c] EXCEPT !.at = "priced", !.pots = sharedCostPots(ledger)]
  <2>1. closer[c] \in [at : {closer[c].at}, rules : {closer[c].rules}, direct : {closer[c].direct},
                       pots : {closer[c].pots}, late : {closer[c].late}]
        /\ closer[c].late \in BOOLEAN
        /\ \A d \in closer[c].direct : d.source \in {"ai", "aws"} /\ d.team # NoTeam
    BY DEF TypeInv, TypeOK, CloserShape
  <2>2. \A p \in sharedCostPots(ledger) : p.source \in {"ai", "aws"} /\ p.category \in Category
    BY PotFacts DEF TypeInv, TypeOK, Sources
  <2>3. closer' = [closer EXCEPT ![c] = k]
    BY <1>2 DEF CloseReadPots
  <2>4. /\ k \in [at : {k.at}, rules : {k.rules}, direct : {k.direct}, pots : {k.pots}, late : {k.late}]
        /\ k.at = "priced" /\ k.direct = closer[c].direct /\ k.pots = sharedCostPots(ledger)
        /\ k.late \in BOOLEAN
    BY <2>1
  <2> HIDE DEF k
  <2> QED
    BY <2>1, <2>2, <2>3, <2>4, CloserStep
<1> QED
  BY <1>1, <1>2

LEMMA WrittenTyped ==
  ASSUME TypeInv, NEW c \in Closer, CloseWritten(c)
  PROVE  ClosersTyped' /\ CloserShape' /\ FrozenTyped'
<1>1. FrozenTyped'
  <2> DEFINE charged == TeamCosts(closer[c].rules, closer[c].direct, closer[c].pots)
  <2>1. \A t \in charged : t.source \in {"ai", "aws"} /\ t.team # NoTeam
    BY ChargedFacts DEF TypeInv, TypeOK, Sources
  <2>2. \A f \in frozen' : f \in charged \/ f \in frozen
    BY DEF CloseWritten
  <2> QED
    BY <2>1, <2>2 DEF FrozenTyped, TypeInv, TypeOK
<1>2. \A x \in Closer : CloseTyped(x)' /\ closer'[x] \in
        [at : {closer'[x].at}, rules : {closer'[x].rules}, direct : {closer'[x].direct},
         pots : {closer'[x].pots}, late : {closer'[x].late}]
  <2> TAKE x \in Closer
  <2>1. CASE x = c
    <3>1. closer'[x] = Ready
      BY <2>1 DEF CloseWritten
    <3> QED
      BY <3>1 DEF Ready, CloseTyped
  <2>2. CASE x # c
    <3>1. closer'[x] = [closer[x] EXCEPT !.late = closer[x].at # "idle"]
      BY <2>2 DEF CloseWritten
    <3>2. closer[x] \in [at : {closer[x].at}, rules : {closer[x].rules}, direct : {closer[x].direct},
                         pots : {closer[x].pots}, late : {closer[x].late}]
      BY DEF TypeInv, CloserShape
    <3> DEFINE busy == closer[x].at # "idle"
    <3>3. busy \in BOOLEAN /\ closer'[x] = [closer[x] EXCEPT !.late = busy]
      BY <3>1
    <3> HIDE DEF busy
    <3>4. /\ closer'[x] \in [at : {closer[x].at}, rules : {closer[x].rules},
                             direct : {closer[x].direct}, pots : {closer[x].pots}, late : BOOLEAN]
      BY <3>2, <3>3
    <3>5. CloseTyped(x)
      BY DEF TypeInv, TypeOK, CloseTyped
    <3> QED
      BY <3>4, <3>5 DEF CloseTyped
  <2> QED
    BY <2>1, <2>2
<1>3. closer' = [x \in Closer |-> closer'[x]]
  BY DEF CloseWritten
<1> QED
  BY <1>1, <1>2, <1>3 DEF ClosersTyped, CloserShape

-----------------------------------------------------------------------------
LEMMA TypeNext == TypeInv /\ [Next]_vars => TypeInv'
<1> SUFFICES ASSUME TypeInv, [Next]_vars PROVE TypeInv'
  OBVIOUS
<1>0. /\ FolderTyped /\ RowsTyped /\ LedgerTyped /\ FrozenTyped /\ RulesTyped
      /\ HistoryTyped /\ ImportsTyped /\ ClosersTyped /\ CloserShape
  BY TypeParts DEF TypeInv
<1> DEFINE TypedThen == /\ FolderTyped' /\ RowsTyped' /\ LedgerTyped' /\ FrozenTyped'
                        /\ RulesTyped' /\ HistoryTyped' /\ ImportsTyped' /\ ClosersTyped'
                        /\ CloserShape'
           FolderKept == UNCHANGED folder => FolderTyped'
           RowsKept == UNCHANGED <<calls, rows, attribution>> => RowsTyped'
           LedgerKept == UNCHANGED ledger => LedgerTyped'
           FrozenKept == UNCHANGED frozen => FrozenTyped'
           RulesKept == UNCHANGED rules => RulesTyped'
           HistoryKept == UNCHANGED history => HistoryTyped'
           ImportsKept == UNCHANGED <<tx, imp>> => ImportsTyped'
           ClosersKept == UNCHANGED closer => ClosersTyped' /\ CloserShape'
<1>k. /\ FolderKept /\ RowsKept /\ LedgerKept /\ FrozenKept /\ RulesKept
      /\ HistoryKept /\ ImportsKept /\ ClosersKept
  BY <1>0 DEF FolderTyped, RowsTyped, LedgerTyped, FrozenTyped, RulesTyped, HistoryTyped, history,
              ImportsTyped, ClosersTyped, CloseTyped, CloserShape
<1>1. ASSUME NEW p \in Path, NEW content \in Offers[p] \cup {Absent},
             FolderMoves(p, content)
      PROVE  TypedThen
  <2>1. FolderTyped'
    BY <1>0, <1>1 DEF FolderTyped, FolderMoves
  <2> QED
    BY <2>1, <1>k, <1>1 DEF FolderMoves, store
<1>2. ASSUME NEW i \in Importer, NEW reader \in Readers, NEW replace \in BOOLEAN,
             NEW folders \in Configured(reader), ImportListed(i, reader, folders, replace)
      PROVE  TypedThen
  BY <1>k, <1>2, ListedTyped DEF ImportListed, store
<1>3. ASSUME NEW i \in Importer, ImportOpened(i) PROVE TypedThen
  BY <1>k, <1>3, OpenedTyped DEF ImportOpened, store
<1>4. ASSUME NEW p \in Path, FileStep(p) PROVE TypedThen
  BY <1>k, <1>4, FileTyped, FileStepIs DEF SameImport, store
<1>8. ASSUME ImportCommitted PROVE TypedThen
  BY <1>k, <1>8, CommittedTyped DEF ImportCommitted
<1>9. ASSUME ImportFailed PROVE TypedThen
  <2>1. ImportsTyped'
    BY <1>0, <1>9 DEF ImportsTyped, ImportFailed, ImpRecord, Transaction, Idle, Readers
  <2> QED
    BY <2>1, <1>k, <1>9 DEF ImportFailed, store
<1>10. ASSUME NEW c \in Closer, CloseLooked(c) PROVE TypedThen
  BY <1>k, <1>10, LookedTyped DEF CloseLooked, store
<1>11. ASSUME NEW c \in Closer, CloseReadDirect(c) PROVE TypedThen
  BY <1>k, <1>11, ReadDirectTyped DEF CloseReadDirect, store
<1>12. ASSUME NEW c \in Closer, CloseReadPots(c) PROVE TypedThen
  BY <1>k, <1>12, ReadPotsTyped DEF CloseReadPots, store
<1>13. ASSUME NEW c \in Closer, CloseWritten(c) PROVE TypedThen
  BY <1>k, <1>13, WrittenTyped DEF CloseWritten
<1>14. ASSUME Reopened PROVE TypedThen
  <2>1. FrozenTyped'
    BY <1>14 DEF Reopened, FrozenTyped
  <2> QED
    BY <2>1, <1>k, <1>14 DEF Reopened
<1>15. ASSUME NEW r \in rules, NEW method \in Methods, SetRule(r, method) PROVE TypedThen
  <2>1. [r EXCEPT !.method = method] \in RuleRecord
    BY <1>0 DEF RulesTyped, RuleRecord
  <2>2. RulesTyped'
    BY <2>1, <1>0, <1>15 DEF SetRule, RulesTyped
  <2> QED
    BY <2>2, <1>k, <1>15 DEF SetRule, store
<1>16. ASSUME UNCHANGED vars PROVE TypedThen
  <2>1. /\ UNCHANGED history /\ UNCHANGED folder /\ UNCHANGED <<calls, rows, attribution>> /\ UNCHANGED ledger
        /\ UNCHANGED frozen /\ UNCHANGED rules /\ UNCHANGED <<tx, imp>> /\ UNCHANGED closer
    BY <1>16 DEF vars, store
  <2> QED
    BY <2>1, <1>k
<1> HIDE DEF TypedThen
<1>17. ASSUME Next PROVE TypedThen
  BY <1>1, <1>2, <1>3, <1>4, <1>8, <1>9, <1>10, <1>11, <1>12, <1>13, <1>14, <1>15, <1>17
     DEF Next, FileStep
<1>18. TypeOK' <=> /\ FolderTyped' /\ RowsTyped' /\ LedgerTyped' /\ FrozenTyped' /\ RulesTyped'
                   /\ HistoryTyped' /\ ImportsTyped' /\ ClosersTyped'
  BY TypeParts, PTL
<1> QED
  BY <1>16, <1>17, <1>18 DEF TypeInv, TypedThen

\* The books' variables stay within what their tables and handlers can hold,
\* for any files and rows (connectors/tokenfusefocus.go, cloudfocus.go,
\* finops/chargeback.go).
THEOREM BooksTypeCorrect == Spec => []TypeOK
<1>1. Init => TypeInv
  BY TypeInit
<1>2. TypeInv /\ [Next]_vars => TypeInv'
  BY TypeNext
<1>3. TypeInv => TypeOK
  BY DEF TypeInv
<1> QED
  BY <1>1, <1>2, <1>3, PTL DEF Spec

-----------------------------------------------------------------------------
(* Each call stands once. *)

\* No two hashes both hold a copy of a call.
Unique(cs) == \A r, s \in cs : r[1] # s[1] => ~Copies(r, s)

\* Of every export of R each call stands in cs, in a copy at least as new, unless
\* a row of it is in L.
Covered(R, L, cs) ==
  \A e \in R : \A r \in RowsOf(e, e) :
    \/ \E s \in L : Copies(r, s)
    \/ \E s \in cs : Copies(r, s) /\ Generation[s[3]] >= Generation[e]

\* A hash's rows are of the door its bytes were read through.
Doored(cs) == \A r \in cs : Door[r[1]] = Door[r[3]]

ReadByNow == read \cup (Export \cap {tx.found[p].content : p \in Path})
LostByNow == lost \cup tx.lost

\* The paths an import reads are its reader's, and what it hashed was offered there.
PathsOf(reader) == IF reader = "gateway" THEN MainPath \cup DoorPath ELSE CloudPath
OwnPaths == \A i \in Importer : imp[i].files \subseteq PathsOf(imp[i].reader)
HashOffered(found) == \A p \in Path : found[p].hash \in Offers[p] \cup {Absent}

RowsOnce(cs, R, L) == Unique(cs) /\ Doored(cs) /\ Covered(R, L, cs)

\* The open import's rows are as sound as the committed ones, at every file.
OnceInv ==
  /\ TypeInv /\ OwnPaths /\ RowsOnce(calls, read, lost)
  /\ tx # NoTx => HashOffered(tx.found) /\ RowsOnce(tx.calls, ReadByNow, LostByNow)

LEMMA CopiesFacts ==
  /\ \A r : Copies(r, r)
  /\ \A r, s : Copies(r, s) => Copies(s, r)
  /\ \A r, s, t : Copies(r, s) /\ Copies(s, t) => Copies(r, t)
BY DEF Copies

LEMMA GenerationType == \A e \in Export : Generation[e] \in Nat
BY BooksAssumption

\* What one more export leaves of a call: the copies of one hash.
LEMMA SupersedeUnique ==
  ASSUME NEW cs \in SUBSET AllRows, Unique(cs), NEW h \in Hash, NEW e \in Export, NEW held,
         held = Upserted(cs, RowsOf(h, e))
  PROVE  Unique(held \ superseded(held, h, e))
<1> DEFINE new == RowsOf(h, e)
           elsewhere == {r \in held : r[1] # h /\ Door[r[3]] = Door[e]}
           others == {r \in elsewhere : Generation[r[3]] <= Generation[e] /\ CopiesOf(r, held, h) # {}}
           newer == {r \in elsewhere : Generation[r[3]] > Generation[e]}
           kept == held \ superseded(held, h, e)
<1>1. superseded(held, h, e) = others \cup UNION {CopiesOf(r, held, h) : r \in newer}
  BY DEF superseded
<1>2. held \subseteq cs \cup new /\ held \subseteq AllRows
  BY UpsertedIs, RowFacts
<1>3. \A r \in held : r[3] \in Export /\ Generation[r[3]] \in Nat
  BY <1>2, RowFacts, GenerationType
<1>4. Generation[e] \in Nat
  BY GenerationType
<1>5. ASSUME NEW r \in kept, NEW s \in kept, r[1] = h, s[1] # h, Copies(r, s)
      PROVE  FALSE
  <2>1. r \in held /\ s \in held
    OBVIOUS
  <2>2. CASE Door[s[3]] = Door[e]
    <3>1. r \in CopiesOf(s, held, h)
      BY <1>5, <2>1 DEF CopiesOf, Copies
    <3>2. s \in elsewhere
      BY <1>5, <2>1, <2>2
    <3>3. s \in others \/ s \in newer
      BY <3>1, <3>2, <1>3, <1>4
    <3>4. s \notin others
      BY <1>1
    <3> QED
      BY <1>1, <3>1, <3>3, <3>4
  <2>3. CASE Door[s[3]] # Door[e]
    <3>1. Door[r[3]] # Door[e]
      BY <1>5, <2>3 DEF Copies
    <3>2. r \notin new /\ s \notin new
      BY <1>5, <3>1, RowFacts
    <3> QED
      BY <1>2, <1>5, <2>1, <3>2 DEF Unique
  <2> QED
    BY <2>2, <2>3
<1>6. ASSUME NEW r \in kept, NEW s \in kept, r[1] # s[1], Copies(r, s)
      PROVE  FALSE
  <2>1. CASE r[1] = h
    BY <1>5, <1>6, <2>1
  <2>2. CASE s[1] = h
    BY <1>5, <1>6, <2>2, CopiesFacts
  <2>3. CASE r[1] # h /\ s[1] # h
    <3>1. r \in cs /\ s \in cs
      BY <1>2, <2>3, RowFacts
    <3> QED
      BY <1>6, <3>1 DEF Unique
  <2> QED
    BY <2>1, <2>2, <2>3
<1> QED
  BY <1>6 DEF Unique

\* And no call is lost but of a row written over, nor replaced by an older copy.
LEMMA SupersedeCovers ==
  ASSUME NEW cs \in SUBSET AllRows, Unique(cs), Doored(cs),
         NEW R, NEW L, R \subseteq Export, Covered(R, L, cs),
         NEW h \in Hash, NEW e \in Export, Door[h] = Door[e],
         NEW held, held = Upserted(cs, RowsOf(h, e))
  PROVE  Covered(R \cup {e}, L \cup WrittenOver(cs, RowsOf(h, e)), held \ superseded(held, h, e))
<1> DEFINE new == RowsOf(h, e)
           over == WrittenOver(cs, new)
           elsewhere == {r \in held : r[1] # h /\ Door[r[3]] = Door[e]}
           others == {r \in elsewhere : Generation[r[3]] <= Generation[e] /\ CopiesOf(r, held, h) # {}}
           newer == {r \in elsewhere : Generation[r[3]] > Generation[e]}
           mine == UNION {CopiesOf(r, held, h) : r \in newer}
           kept == held \ superseded(held, h, e)
           Stands(r, n) == \E s \in kept : Copies(r, s) /\ Generation[s[3]] >= n
<1>1. superseded(held, h, e) = others \cup mine
  BY DEF superseded
<1>2. held \subseteq cs \cup new /\ new \subseteq held /\ cs \subseteq held \cup over /\ held \subseteq AllRows
  BY UpsertedIs, RowFacts
<1>3. \A r \in held : r[3] \in Export /\ Generation[r[3]] \in Nat
  BY <1>2, RowFacts, GenerationType
<1>4. Generation[e] \in Nat
  BY GenerationType
<1>5. newer \subseteq kept
  <2>1. \A r \in newer : r \notin others
    BY <1>3, <1>4
  <2>2. \A r \in newer : r \notin mine
    BY DEF CopiesOf
  <2> QED
    BY <1>1, <2>1, <2>2
\* What another hash's row of this door is compared with are this file's own rows.
<1>6. ASSUME NEW s \in elsewhere, NEW t \in CopiesOf(s, held, h)
      PROVE  t \in new
  <2>1. SUFFICES ASSUME t \notin new PROVE FALSE
    OBVIOUS
  <2>2. t \in held /\ t[1] = h /\ CallOf(t).key = CallOf(s).key
    BY DEF CopiesOf
  <2>3. t \in cs /\ s \in cs
    BY <1>2, <2>1, <2>2, RowFacts
  <2>4. Door[t[3]] = Door[e]
    BY <2>2, <2>3 DEF Doored
  <2> QED
    BY <2>2, <2>3, <2>4 DEF Copies, Unique
<1>7. ASSUME NEW t \in new PROVE Stands(t, Generation[e])
  <2>1. t \in held /\ t[3] = e
    BY <1>2, RowFacts
  <2>2. CASE t \in mine
    <3>1. PICK n \in newer : t \in CopiesOf(n, held, h)
      BY <2>2
    <3>2. n \in kept /\ Generation[n[3]] >= Generation[e]
      BY <1>5, <1>3, <1>4
    <3>3. Copies(t, n)
      BY <2>1, <3>1 DEF CopiesOf, Copies
    <3> QED
      BY <3>2, <3>3
  <2>3. CASE t \notin mine
    <3>1. t \notin others
      BY RowFacts
    <3>2. t \in kept
      BY <1>1, <2>1, <2>3, <3>1
    <3> QED
      BY <2>1, <3>2, <1>4, CopiesFacts
  <2> QED
    BY <2>2, <2>3
<1>8. ASSUME NEW r \in RowsOf(e, e) PROVE Stands(r, Generation[e])
  <2>1. PICK n : r = <<e, n, e>> /\ <<h, n, e>> \in new
    BY DEF RowsOf
  <2>2. Copies(r, <<h, n, e>>)
    BY <2>1 DEF Copies, CallOf
  <2> DEFINE t == <<h, n, e>>
  <2>3. t \in new /\ Copies(r, t)
    BY <2>1, <2>2
  <2> HIDE DEF t
  <2> QED
    BY <2>3, <1>7, CopiesFacts
<1>9. ASSUME NEW f \in R, NEW r \in RowsOf(f, f), NEW s \in cs, Copies(r, s),
             Generation[s[3]] >= Generation[f]
      PROVE  (\E l \in over : Copies(r, l)) \/ Stands(r, Generation[f])
  <2>1. Generation[f] \in Nat /\ s[3] \in Export /\ Generation[s[3]] \in Nat
    BY RowFacts, GenerationType
  <2>2. CASE s \in over
    BY <1>9, <2>2
  <2>3. CASE s \in kept
    BY <1>9, <2>3
  <2>4. CASE s \in others
    <3>1. PICK t : t \in CopiesOf(s, held, h)
      BY <2>4
    <3>2. t \in new
      BY <1>6, <2>4, <3>1
    <3>3. t[3] = e
      BY <3>2, RowFacts
    <3>4. Copies(s, t)
      BY <2>4, <3>1, <3>3 DEF CopiesOf, Copies
    <3>5. PICK u \in kept : Copies(t, u) /\ Generation[u[3]] >= Generation[e]
      BY <1>7, <3>2
    <3>6. Generation[s[3]] <= Generation[e] /\ Generation[u[3]] \in Nat
      BY <2>4, <3>5, <1>3
    <3>7. Generation[u[3]] >= Generation[f]
      BY <1>9, <2>1, <3>5, <3>6, <1>4
    <3>8. Copies(r, u)
      BY <1>9, <3>4, <3>5, CopiesFacts
    <3> QED
      BY <3>7, <3>8
  <2>5. CASE s \in mine
    <3>1. PICK n \in newer : s \in CopiesOf(n, held, h)
      BY <2>5
    <3>2. s \in new
      BY <1>6, <3>1
    <3>3. s[3] = e
      BY <3>2, RowFacts
    <3>4. PICK u \in kept : Copies(s, u) /\ Generation[u[3]] >= Generation[e]
      BY <1>7, <3>2
    <3>5. Generation[u[3]] \in Nat
      BY <3>4, <1>3
    <3>6. Generation[u[3]] >= Generation[f]
      BY <1>9, <2>1, <3>3, <3>4, <3>5, <1>4
    <3>7. Copies(r, u)
      BY <1>9, <3>4, CopiesFacts
    <3> QED
      BY <3>6, <3>7
  <2> QED
    BY <1>1, <1>2, <2>2, <2>3, <2>4, <2>5
<1>10. \A f \in R \cup {e} : \A r \in RowsOf(f, f) :
         (\E l \in L \cup over : Copies(r, l)) \/ Stands(r, Generation[f])
  <2> SUFFICES ASSUME NEW f \in R \cup {e}, NEW r \in RowsOf(f, f)
               PROVE  (\E l \in L \cup over : Copies(r, l)) \/ Stands(r, Generation[f])
    OBVIOUS
  <2>1. CASE f = e
    BY <1>8, <2>1
  <2>2. CASE f \in R
    <3>1. (\E l \in L : Copies(r, l))
          \/ \E s \in cs : Copies(r, s) /\ Generation[s[3]] >= Generation[f]
      BY <2>2 DEF Covered
    <3> QED
      BY <1>9, <2>2, <3>1
  <2> QED
    BY <2>1, <2>2
<1> HIDE DEF kept, over
<1> QED
  BY <1>10 DEF Covered, kept, over

LEMMA OnceInit == Init => OnceInv
<1> SUFFICES ASSUME Init PROVE OnceInv
  OBVIOUS
<1>1. calls = {} /\ read = {} /\ tx = NoTx /\ imp = [i \in Importer |-> Idle]
  BY DEF Init
<1>2. OwnPaths
  BY <1>1 DEF OwnPaths, Idle
<1>3. RowsOnce(calls, read, lost)
  BY <1>1 DEF RowsOnce, Unique, Covered, Doored
<1> QED
  BY <1>1, <1>2, <1>3, TypeInit DEF OnceInv

\* What does not disturb the calls keeps the invariant.
LEMMA OnceKept ==
  ASSUME OnceInv, TypeInv', OwnPaths', UNCHANGED <<calls, read, lost>>,
         tx' = tx \/ tx' = NoTx
  PROVE  OnceInv'
<1>1. RowsOnce(calls', read', lost')
  BY DEF OnceInv
<1>2. ASSUME tx' # NoTx PROVE HashOffered(tx'.found) /\ RowsOnce(tx'.calls, ReadByNow', LostByNow')
  <2>1. tx' = tx /\ ReadByNow' = ReadByNow /\ LostByNow' = LostByNow
    BY <1>2 DEF ReadByNow, LostByNow
  <2> QED
    BY <2>1, <1>2 DEF OnceInv
<1> QED
  BY <1>1, <1>2 DEF OnceInv

\* Fewer exports, or more rows written over, ask no more of the same rows.
LEMMA OnceWeaker ==
  ASSUME NEW cs, NEW R, NEW L, RowsOnce(cs, R, L), NEW Q, Q \subseteq R
  PROVE  RowsOnce(cs, Q, L)
BY DEF RowsOnce, Covered

\* A file of the open import that adds no export.
LEMMA OnceFile ==
  ASSUME OnceInv, TypeInv', tx # NoTx, SameImport, NEW p \in Path, NEW x \in Reading,
         x.hash \in Offers[p] \cup {Absent}, x.content \notin Export,
         tx'.found = [tx.found EXCEPT ![p] = x], tx'.calls = tx.calls, tx'.lost = tx.lost
  PROVE  OnceInv'
<1>1. RowsOnce(tx.calls, ReadByNow, LostByNow) /\ RowsOnce(calls, read, lost) /\ OwnPaths
      /\ HashOffered(tx.found)
  BY DEF OnceInv
<1>2. tx.found \in [Path -> Reading]
  BY DEF OnceInv, TypeInv, TypeOK, Transaction
<1>3. UNCHANGED <<calls, read, lost, imp>>
  BY DEF SameImport, store, history
<1>4. ReadByNow' \subseteq ReadByNow /\ LostByNow' = LostByNow
  BY <1>2, <1>3 DEF ReadByNow, LostByNow
<1>5. RowsOnce(tx'.calls, ReadByNow', LostByNow')
  BY <1>1, <1>4, OnceWeaker
<1>6. OwnPaths'
  BY <1>1, <1>3 DEF OwnPaths
<1>7. HashOffered(tx'.found)
  BY <1>1, <1>2 DEF HashOffered
<1> QED
  BY <1>1, <1>3, <1>5, <1>6, <1>7 DEF OnceInv

\* The path of the file being read is one of the reader's.
LEMMA NextIsOwn ==
  ASSUME TypeInv, OwnPaths, NEW reader \in Readers, NEW p \in Path, FileNext(reader, p)
  PROVE  p \in PathsOf(reader)
BY DEF TypeInv, TypeOK, OwnPaths, FileNext, Transaction

LEMMA OnceExport ==
  ASSUME OnceInv, TypeInv', NEW p \in Path, ExportRead(p)
  PROVE  OnceInv'
<1> DEFINE h == tx.found[p].hash
           e == folder[p]
<1>0. TypeInv /\ OwnPaths /\ HashOffered(tx.found) /\ tx # NoTx
      /\ RowsOnce(tx.calls, ReadByNow, LostByNow) /\ RowsOnce(calls, read, lost)
  BY ExportReadIs DEF OnceInv, ExportRead, NextFile
<1>1. /\ FileNext("gateway", p) /\ SameImport /\ h \in Hash /\ e \in Export
      /\ tx'.found = FoundRead(p) /\ tx'.calls = ExportHeld(p) \ ExportGone(p)
      /\ tx'.lost = tx.lost \cup ExportOver(p)
  BY <1>0, ExportReadIs
<1>2. tx.calls \in SUBSET AllRows /\ tx.found \in [Path -> Reading]
  BY <1>1 DEF FileNext, Transaction
<1>3. UNCHANGED <<calls, read, lost, imp>>
  BY <1>1 DEF SameImport, store, history
<1>4. Door[h] = Door[e]
  <2>1. p \in MainPath \cup DoorPath
    BY <1>0, <1>1, NextIsOwn DEF PathsOf, Readers
  <2>2. e \in Offers[p] /\ h \in Offers[p]
    BY <1>0, <1>1, BooksAssumption DEF TypeInv, TypeOK, HashOffered, Hash
  <2> QED
    BY <2>1, <2>2, BooksAssumption
<1>5. ExportHeld(p) = Upserted(tx.calls, RowsOf(h, e)) /\ ExportGone(p) = superseded(ExportHeld(p), h, e)
      /\ ExportOver(p) = WrittenOver(tx.calls, RowsOf(h, e))
  BY DEF ExportHeld, ExportGone, ExportOver, ExportRows
<1>6. ReadByNow \subseteq Export
  BY DEF ReadByNow, OnceInv, TypeInv, TypeOK
<1>7. ReadByNow' \subseteq ReadByNow \cup {e} /\ LostByNow' = LostByNow \cup ExportOver(p)
  BY <1>1, <1>2, <1>3 DEF ReadByNow, LostByNow, FoundRead
<1>8. HashOffered(tx'.found)
  BY <1>0, <1>1, <1>2 DEF HashOffered, FoundRead
<1> HIDE DEF h, e
<1>9. Unique(tx'.calls)
  BY <1>0, <1>1, <1>2, <1>5, SupersedeUnique DEF RowsOnce
<1>10. Covered(ReadByNow \cup {e}, LostByNow \cup ExportOver(p), tx'.calls)
  BY <1>0, <1>1, <1>2, <1>4, <1>5, <1>6, SupersedeCovers DEF RowsOnce
<1>11. Doored(tx'.calls)
  <2>1. \A r \in tx'.calls : r \in tx.calls \/ r \in RowsOf(h, e)
    BY <1>1, <1>5, UpsertedIs
  <2> QED
    BY <1>0, <1>1, <1>4, <2>1, RowFacts DEF RowsOnce, Doored
<1>12. RowsOnce(tx'.calls, ReadByNow', LostByNow')
  BY <1>7, <1>9, <1>10, <1>11, OnceWeaker DEF RowsOnce
<1>13. OwnPaths'
  BY <1>0, <1>3 DEF OwnPaths
<1> QED
  BY <1>0, <1>3, <1>8, <1>12, <1>13 DEF OnceInv

LEMMA OnceFileStep ==
  ASSUME OnceInv, TypeInv', NEW p \in Path, FileStep(p)
  PROVE  OnceInv'
<1>0. TypeInv /\ OwnPaths
  BY DEF OnceInv
<1>1. ASSUME NEW reader \in Readers, FileHashed(reader, p) PROVE OnceInv'
  <2> DEFINE x == [hash |-> folder[p], content |-> Absent]
  <2>1. /\ tx # NoTx /\ SameImport /\ tx'.found = [tx.found EXCEPT ![p] = x]
        /\ tx'.calls = tx.calls /\ tx'.lost = tx.lost /\ folder[p] \in Hash
    BY <1>0, <1>1, FileHashedIs DEF FileNext, SameRows
  <2>2. x \in Reading /\ x.hash \in Offers[p] \cup {Absent} /\ x.content \notin Export
    BY <1>0, <2>1, BooksAssumption DEF Reading, TypeInv, TypeOK
  <2> HIDE DEF x
  <2> QED
    BY <2>1, <2>2, OnceFile
<1>2. ASSUME NEW reader \in Readers, FileRefused(reader, p) PROVE OnceInv'
  <2>1. /\ tx # NoTx /\ SameImport /\ tx'.found = tx.found
        /\ tx'.calls = tx.calls /\ tx'.lost = tx.lost
    BY <1>0, <1>2, FileRefusedIs DEF FileNext, SameRows
  <2>2. UNCHANGED <<calls, read, lost, imp>>
    BY <2>1 DEF SameImport, store, history
  <2>3. ReadByNow' = ReadByNow /\ LostByNow' = LostByNow
    BY <2>1, <2>2 DEF ReadByNow, LostByNow
  <2>4. OwnPaths'
    BY <1>0, <2>2 DEF OwnPaths
  <2> QED
    BY <2>1, <2>2, <2>3, <2>4 DEF OnceInv
<1>3. CASE ExportRead(p)
  BY <1>3, OnceExport
<1>4. CASE BillRead(p)
  <2> DEFINE x == [hash |-> tx.found[p].hash, content |-> folder[p]]
  <2>1. /\ tx # NoTx /\ SameImport /\ tx'.found = [tx.found EXCEPT ![p] = x]
        /\ tx'.calls = tx.calls /\ tx'.lost = tx.lost
        /\ folder[p] \in Bill /\ tx.found[p].hash \in Hash
    BY <1>0, <1>4, BillReadIs DEF FileNext, FoundRead
  <2>2. x \in Reading /\ x.hash \in Offers[p] \cup {Absent} /\ x.content \notin Export
    BY <2>1, BooksAssumption DEF Reading, Hash, OnceInv, HashOffered
  <2> HIDE DEF x
  <2> QED
    BY <2>1, <2>2, OnceFile
<1>5. CASE BillSeen(p)
  <2> DEFINE x == [hash |-> folder[p], content |-> folder[p]]
  <2>1. /\ tx # NoTx /\ SameImport /\ tx'.found = [tx.found EXCEPT ![p] = x]
        /\ tx'.calls = tx.calls /\ tx'.lost = tx.lost /\ folder[p] \in Hash
        /\ FileNext("cloud", p)
    BY <1>0, <1>5, BillSeenIs DEF FileNext, SameRows
  <2>2. p \in CloudPath
    BY <1>0, <2>1, NextIsOwn DEF PathsOf, Readers
  <2>3. folder[p] \notin Export
    BY <1>0, <2>1, <2>2, ContentOf, BooksAssumption DEF TypeInv
  <2>4. x \in Reading /\ x.hash \in Offers[p] \cup {Absent} /\ x.content \notin Export
    BY <1>0, <2>1, <2>3, BooksAssumption DEF Reading, TypeInv, TypeOK
  <2> HIDE DEF x
  <2> QED
    BY <2>1, <2>4, OnceFile
<1> QED
  BY <1>1, <1>2, <1>3, <1>4, <1>5 DEF FileStep

LEMMA OnceCommitted ==
  ASSUME OnceInv, TypeInv', ImportCommitted
  PROVE  OnceInv'
<1>1. /\ tx # NoTx /\ tx \in Transaction /\ calls' = tx.calls /\ read' = ReadByNow /\ tx' = NoTx
      /\ lost' = LostByNow /\ imp' = [imp EXCEPT ![tx.by] = Idle]
  BY DEF OnceInv, TypeInv, TypeOK, ImportCommitted, ReadByNow, LostByNow
<1>2. RowsOnce(tx.calls, ReadByNow, LostByNow) /\ OwnPaths
  BY <1>1 DEF OnceInv
<1>3. OwnPaths'
  BY <1>1, <1>2 DEF OwnPaths, Idle, OnceInv, TypeInv, TypeOK
<1> QED
  BY <1>1, <1>2, <1>3 DEF OnceInv

\* An import lists its reader's files.
LEMMA ListedOwn ==
  ASSUME TypeInv, OwnPaths, NEW i \in Importer, NEW reader \in Readers, NEW replace \in BOOLEAN,
         NEW folders \in Configured(reader), ImportListed(i, reader, folders, replace)
  PROVE  OwnPaths'
<1> DEFINE files == {p \in UNION folders : folder[p] # Absent}
<1>1. imp' = [imp EXCEPT ![i] = [at |-> "listed", reader |-> reader, files |-> files,
                                 wipe |-> Seeded]]
  BY DEF ImportListed
<1>2. files \subseteq PathsOf(reader)
  BY DEF Configured, PathsOf
<1> HIDE DEF files
<1> QED
  BY <1>1, <1>2 DEF OwnPaths, TypeInv, TypeOK

LEMMA OnceNext == OnceInv /\ [Next]_vars => OnceInv'
<1> SUFFICES ASSUME OnceInv, [Next]_vars PROVE OnceInv'
  OBVIOUS
<1>0. TypeInv' /\ OwnPaths /\ TypeInv
  BY TypeNext DEF OnceInv
<1>k. ASSUME UNCHANGED <<calls, read, lost, tx, imp>> PROVE OnceInv'
  BY <1>0, <1>k, OnceKept DEF OwnPaths
<1>1. ASSUME NEW p \in Path, NEW content \in Offers[p] \cup {Absent},
             FolderMoves(p, content)
      PROVE  OnceInv'
  BY <1>k, <1>1 DEF FolderMoves, store, history
<1>2. ASSUME NEW i \in Importer, NEW reader \in Readers, NEW replace \in BOOLEAN,
             NEW folders \in Configured(reader), ImportListed(i, reader, folders, replace)
      PROVE  OnceInv'
  <2>1. UNCHANGED <<calls, read, lost, tx>>
    BY <1>2 DEF ImportListed, store, history
  <2> QED
    BY <2>1, <1>0, <1>2, ListedOwn, OnceKept
<1>3. ASSUME NEW i \in Importer, ImportOpened(i) PROVE OnceInv'
  <2>1. /\ UNCHANGED <<calls, read, lost>> /\ tx'.calls = calls /\ tx'.lost = {}
        /\ tx'.found = [p \in Path |-> NotRead] /\ imp' = [imp EXCEPT ![i].at = "open"]
    BY <1>3 DEF ImportOpened, store, history
  <2>2. OwnPaths'
    BY <2>1, <1>0 DEF OwnPaths, TypeInv, TypeOK
  <2>3. ReadByNow' = read /\ LostByNow' = lost
    BY <2>1, BooksAssumption DEF ReadByNow, LostByNow, NotRead
  <2>4. HashOffered(tx'.found)
    BY <2>1 DEF HashOffered, NotRead
  <2> QED
    BY <2>1, <2>2, <2>3, <2>4, <1>0 DEF OnceInv
<1>4. ASSUME NEW p \in Path, FileStep(p) PROVE OnceInv'
  BY <1>0, <1>4, OnceFileStep
<1>8. ASSUME ImportCommitted PROVE OnceInv'
  BY <1>0, <1>8, OnceCommitted
<1>9. ASSUME ImportFailed PROVE OnceInv'
  <2>1. OwnPaths'
    BY <1>0, <1>9 DEF ImportFailed, OwnPaths, Idle, TypeInv, TypeOK
  <2> QED
    BY <2>1, <1>0, <1>9, OnceKept DEF ImportFailed, store, history
<1>10. ASSUME NEW c \in Closer,
              CloseLooked(c) \/ CloseReadDirect(c) \/ CloseReadPots(c) \/ CloseWritten(c)
       PROVE  OnceInv'
  BY <1>k, <1>10 DEF CloseLooked, CloseReadDirect, CloseReadPots, CloseWritten, store, history
<1>11. ASSUME Reopened PROVE OnceInv'
  BY <1>k, <1>11 DEF Reopened, history
<1>12. ASSUME NEW r \in rules, NEW method \in Methods, SetRule(r, method) PROVE OnceInv'
  BY <1>k, <1>12 DEF SetRule, store, history
<1>13. ASSUME UNCHANGED vars PROVE OnceInv'
  BY <1>k, <1>13 DEF vars, store, history
<1> QED
  BY <1>1, <1>2, <1>3, <1>4, <1>8, <1>9, <1>10, <1>11, <1>12, <1>13 DEF Next, FileStep

\* superseded: however exports are rewritten, also between their hash and their
\* rows, read again or read in another order, no two hashes of one door both hold
\* a call, and none is lost but of a row written over (tokenfusefocus.go:1432).
THEOREM BooksCallStandsOnce == Spec => []EachCallStandsOnce
<1>1. Init => OnceInv
  BY OnceInit
<1>2. OnceInv /\ [Next]_vars => OnceInv'
  BY OnceNext
<1>3. OnceInv => EachCallStandsOnce
  BY DEF OnceInv, RowsOnce, EachCallStandsOnce, Unique, Covered
<1> QED
  BY <1>1, <1>2, <1>3, PTL DEF Spec

-----------------------------------------------------------------------------
(* A closed month stays as it was closed. *)

\* A close in flight that no other close has overtaken finds the month open.
UnlessOvertaken == \A c \in Closer : closer[c].at # "idle" /\ ~closer[c].late => frozen = {}

LEMMA OvertakenNext == TypeInv /\ UnlessOvertaken /\ [Next]_vars => UnlessOvertaken'
<1> SUFFICES ASSUME TypeInv, UnlessOvertaken, [Next]_vars PROVE UnlessOvertaken'
  OBVIOUS
<1>0. /\ closer = [c \in Closer |-> closer[c]]
      /\ \A c \in Closer : closer[c] \in [at : {closer[c].at}, rules : {closer[c].rules},
                                       direct : {closer[c].direct}, pots : {closer[c].pots},
                                       late : {closer[c].late}]
  BY DEF TypeInv, TypeOK, CloserShape
<1>k. ASSUME UNCHANGED closer, frozen' \in {{}, frozen} PROVE UnlessOvertaken'
  BY <1>k DEF UnlessOvertaken
\* A close that goes on is neither late by that nor less so.
<1>c. ASSUME NEW c \in Closer, NEW k, closer' = [closer EXCEPT ![c] = k], UNCHANGED frozen,
             k.at # "idle" /\ ~k.late => frozen = {}
      PROVE  UnlessOvertaken'
  BY <1>0, <1>c DEF UnlessOvertaken
<1>1. ASSUME NEW p \in Path, NEW content \in Offers[p] \cup {Absent},
             FolderMoves(p, content)
      PROVE  UnlessOvertaken'
  BY <1>k, <1>1 DEF FolderMoves, store
<1>2. ASSUME NEW i \in Importer, NEW reader \in Readers, NEW replace \in BOOLEAN,
             NEW folders \in Configured(reader), ImportListed(i, reader, folders, replace)
      PROVE  UnlessOvertaken'
  BY <1>k, <1>2 DEF ImportListed, store
<1>3. ASSUME NEW i \in Importer, ImportOpened(i) PROVE UnlessOvertaken'
  BY <1>k, <1>3 DEF ImportOpened, store
<1>4. ASSUME NEW p \in Path, FileStep(p) PROVE UnlessOvertaken'
  BY <1>k, <1>4, FileStepIs DEF SameImport, store
<1>5. ASSUME ImportCommitted PROVE UnlessOvertaken'
  BY <1>k, <1>5 DEF ImportCommitted
<1>6. ASSUME ImportFailed PROVE UnlessOvertaken'
  BY <1>k, <1>6 DEF ImportFailed, store
<1>7. ASSUME NEW c \in Closer, CloseLooked(c) PROVE UnlessOvertaken'
  BY <1>c, <1>7 DEF CloseLooked, IsOpen, store
<1>8. ASSUME NEW c \in Closer, CloseReadDirect(c) PROVE UnlessOvertaken'
  <2> DEFINE k == [closer[c] EXCEPT !.at = "direct", !.direct = directCosts(ledger)]
  <2>1. closer' = [closer EXCEPT ![c] = k] /\ UNCHANGED frozen /\ closer[c].at = "looked"
    BY <1>0, <1>8 DEF CloseReadDirect, store
  <2>2. k.late = closer[c].late
    BY <1>0
  <2>3. ~k.late => frozen = {}
    BY <2>1, <2>2 DEF UnlessOvertaken
  <2> HIDE DEF k
  <2> QED
    BY <2>1, <2>3, <1>c
<1>9. ASSUME NEW c \in Closer, CloseReadPots(c) PROVE UnlessOvertaken'
  <2> DEFINE k == IF closer[c].direct = {} THEN Ready
                  ELSE [closer[c] EXCEPT !.at = "priced", !.pots = sharedCostPots(ledger)]
  <2>1. closer' = [closer EXCEPT ![c] = k] /\ UNCHANGED frozen /\ closer[c].at = "direct"
    BY <1>0, <1>9 DEF CloseReadPots, store
  <2>2. k.at = "idle" \/ k.late = closer[c].late
    BY <1>0 DEF Ready
  <2>3. k.at # "idle" /\ ~k.late => frozen = {}
    BY <2>1, <2>2 DEF UnlessOvertaken
  <2> HIDE DEF k
  <2> QED
    BY <2>1, <2>3, <1>c
<1>10. ASSUME NEW c \in Closer, CloseWritten(c) PROVE UnlessOvertaken'
  <2>1. closer' = [x \in Closer |-> IF x = c THEN Ready
                                    ELSE [closer[x] EXCEPT !.late = closer[x].at # "idle"]]
    BY <1>10 DEF CloseWritten
  <2>2. ASSUME NEW x \in Closer PROVE closer'[x].at = "idle" \/ closer'[x].late
    <3>1. CASE x = c
      BY <2>1, <3>1 DEF Ready
    <3>2. CASE x # c
      <4> DEFINE busy == closer[x].at # "idle"
      <4>1. closer'[x] = [closer[x] EXCEPT !.late = busy] /\ busy \in BOOLEAN
        BY <2>1, <3>2
      <4>2. closer[x].at # "idle" => busy
        OBVIOUS
      <4> HIDE DEF busy
      <4>3. closer'[x].at = closer[x].at /\ closer'[x].late = busy
        BY <4>1, <1>0
      <4> QED
        BY <4>2, <4>3
    <3> QED
      BY <3>1, <3>2
  <2> QED
    BY <2>2 DEF UnlessOvertaken
<1>11. ASSUME Reopened PROVE UnlessOvertaken'
  BY <1>11 DEF Reopened, UnlessOvertaken
<1>12. ASSUME NEW r \in rules, NEW method \in Methods, SetRule(r, method) PROVE UnlessOvertaken'
  BY <1>k, <1>12 DEF SetRule, store
<1>13. ASSUME UNCHANGED vars PROVE UnlessOvertaken'
  BY <1>k, <1>13 DEF vars, store
<1> QED
  BY <1>1, <1>2, <1>3, <1>4, <1>5, <1>6, <1>7, <1>8, <1>9, <1>10, <1>11, <1>12, <1>13
  DEF Next, FileStep

\* What may take a frozen row away.
FrozenStep ==
  \/ frozen \subseteq frozen'
  \/ Reopened
  \/ ImportCommitted /\ tx.wipe
  \/ \E c \in Closer : closer[c].late /\ CloseWritten(c)

LEMMA FrozenNext == TypeInv /\ UnlessOvertaken /\ Next => FrozenStep
<1> SUFFICES ASSUME TypeInv, UnlessOvertaken, Next PROVE FrozenStep
  OBVIOUS
<1>k. ASSUME UNCHANGED frozen PROVE FrozenStep
  BY <1>k DEF FrozenStep
<1>1. ASSUME ImportCommitted PROVE FrozenStep
  BY <1>1 DEF ImportCommitted, FrozenStep
<1>2. ASSUME NEW c \in Closer, CloseWritten(c) PROVE FrozenStep
  <2>1. closer[c].at = "priced" /\ closer[c].late \in BOOLEAN
    BY <1>2 DEF CloseWritten, TypeInv, TypeOK
  <2>2. CASE closer[c].late
    BY <2>2, <1>2 DEF FrozenStep
  <2>3. CASE ~closer[c].late
    BY <2>1, <2>3 DEF UnlessOvertaken, FrozenStep
  <2> QED
    BY <2>2, <2>3
<1>3. ASSUME NEW c \in Closer, CloseLooked(c) \/ CloseReadDirect(c) \/ CloseReadPots(c)
      PROVE  FrozenStep
  BY <1>k, <1>3 DEF CloseLooked, CloseReadDirect, CloseReadPots, store
<1>4. ASSUME NEW p \in Path, NEW content \in Offers[p] \cup {Absent},
             FolderMoves(p, content)
      PROVE  FrozenStep
  BY <1>k, <1>4 DEF FolderMoves, store
<1>5. ASSUME NEW i \in Importer, NEW reader \in Readers, NEW replace \in BOOLEAN,
             NEW folders \in Configured(reader), ImportListed(i, reader, folders, replace)
      PROVE  FrozenStep
  BY <1>k, <1>5 DEF ImportListed, store
<1>6. ASSUME NEW i \in Importer, ImportOpened(i) PROVE FrozenStep
  BY <1>k, <1>6 DEF ImportOpened, store
<1>7. ASSUME NEW p \in Path, FileStep(p) PROVE FrozenStep
  BY <1>k, <1>7, FileStepIs DEF SameImport, store
<1>8. ASSUME ImportFailed PROVE FrozenStep
  BY <1>k, <1>8 DEF ImportFailed, store
<1>9. ASSUME NEW r \in rules, NEW method \in Methods, SetRule(r, method) PROVE FrozenStep
  BY <1>k, <1>9 DEF SetRule, store
<1>10. ASSUME Reopened PROVE FrozenStep
  BY <1>10 DEF FrozenStep
<1> QED
  BY <1>1, <1>2, <1>3, <1>4, <1>5, <1>6, <1>7, <1>8, <1>9, <1>10 DEF Next, FileStep

\* Close: a frozen row changes or goes only when the month is reopened, when
\* the generated estate is replaced, or when an overtaken close writes
\* (chargeback.go:37).
THEOREM BooksFrozenStays == Spec => FrozenStays
<1>1. Init => UnlessOvertaken
  BY DEF Init, Ready, UnlessOvertaken
<1>2. TypeInv /\ UnlessOvertaken /\ [Next]_vars => UnlessOvertaken'
  BY OvertakenNext
<1>3. TypeInv /\ UnlessOvertaken /\ [Next]_vars => [FrozenStep]_vars
  BY FrozenNext
<1>4. FrozenStays <=> [][FrozenStep]_vars
  BY PTL DEF FrozenStays, FrozenStep
<1> QED
  BY <1>1, <1>2, <1>3, <1>4, TypeInit, TypeNext, PTL DEF Spec

-----------------------------------------------------------------------------
(* A revision replaces what its path held. *)

\* An earlier path had the same bytes.
Repeated(found, p) == \E q \in CloudPath : q < p /\ found[q].hash = found[p].hash

\* What a cloud import has found so far stands under its paths and hashes, and
\* alone where no other content was filed under the hash. Of what is imported
\* this is RevisionReplacesUnlessTwin.
Alone(h, b, p, rs, T) ==
  /\ LinesOf(h, b, p) \subseteq rs
  /\ \A r \in rs : r[4] = p => r[1] = h
  /\ h \notin T => \A r \in rs : r[4] = p => r \in LinesOf(h, b, p)
StandsFound(found, rs, T) ==
  \A p \in CloudPath : found[p].content \in Bill /\ ~Repeated(found, p) =>
    Alone(found[p].hash, found[p].content, p, rs, T)

\* A hash nothing else was filed under has the rows of its own content.
Clean(rs, T) == \A r \in rs : r[1] \in T \/ r[3] = r[1]

TornNow(found) == torn \cup {found[p].hash : p \in {q \in Path : Torn(found[q])}}

\* Files are read in the order of their paths and those of the reader only; what
\* a cloud's reader has hashed and not opened it has hashed once.
InOrder(found, left, reader) ==
  /\ \A q \in Path : found[q].hash # Absent => q \in PathsOf(reader) /\ \A r \in left : q <= r
  /\ \A q \in left : found[q].content = Absent
  /\ reader = "cloud" => \A p \in left : found[p].hash # Absent =>
       \A q \in Path \ {p} : found[q].hash # found[p].hash

RevisionInv ==
  /\ TypeInv /\ OwnPaths /\ StandsFound(imported, rows, torn) /\ Clean(rows, torn)
  /\ tx # NoTx =>
       /\ InOrder(tx.found, tx.left, tx.reader)
       /\ tx.reader = "gateway" => tx.rows = rows
       /\ tx.reader = "cloud" => /\ StandsFound(tx.found, tx.rows, TornNow(tx.found))
                                /\ Clean(tx.rows, TornNow(tx.found))

LEMMA ReplacedIs ==
  ASSUME TypeOK
  PROVE  RevisionReplacesUnlessTwin <=> StandsFound(imported, rows, torn)
<1>1. \A p \in CloudPath : Twin(p) <=> Repeated(imported, p)
  BY DEF Twin, Repeated
<1>2. ASSUME NEW p \in CloudPath, imported[p].content \in Bill
      PROVE  LET h == imported[p].hash
                 b == imported[p].content
             IN  (/\ LinesOf(h, b, p) \subseteq Standing(p)
                  /\ \A r \in Standing(p) : r[1] = h
                  /\ h \notin torn => Standing(p) = LinesOf(h, b, p))
                 <=> Alone(h, b, p, rows, torn)
  <2> DEFINE h == imported[p].hash
             b == imported[p].content
  <2>1. h \in Hash /\ b \in Bill
    BY <1>2, BooksAssumption DEF TypeOK, Reading, NotRead
  <2>2. \A r \in LinesOf(h, b, p) : r[4] = p
    BY <2>1, LineFacts
  <2> HIDE DEF h, b
  <2>3. (/\ LinesOf(h, b, p) \subseteq Standing(p)
         /\ \A r \in Standing(p) : r[1] = h
         /\ h \notin torn => Standing(p) = LinesOf(h, b, p))
        <=> Alone(h, b, p, rows, torn)
    BY <2>2 DEF Standing, Alone
  <2> QED
    BY <2>3 DEF h, b
<1> QED
  BY <1>1, <1>2 DEF RevisionReplacesUnlessTwin, StandsFound

\* More torn hashes ask no more.
LEMMA StandsWeaker ==
  ASSUME NEW found, NEW rs, NEW T, NEW T2, T \subseteq T2
  PROVE  /\ StandsFound(found, rs, T) => StandsFound(found, rs, T2)
         /\ Clean(rs, T) => Clean(rs, T2)
BY DEF StandsFound, Alone, Clean

\* What is said of the earlier paths when one more has a hash.
LEMMA RepeatedStill ==
  ASSUME NEW found \in [Path -> Reading], NEW p \in CloudPath, NEW x \in Reading,
         NEW q \in CloudPath, q # p, found[q].content \in Bill,
         found[p].hash = Absent \/ x.hash = found[p].hash
  PROVE  Repeated(found, q) => Repeated([found EXCEPT ![p] = x], q)
<1> SUFFICES ASSUME NEW t \in CloudPath, t < q, found[t].hash = found[q].hash
             PROVE  Repeated([found EXCEPT ![p] = x], q)
  BY DEF Repeated
<1>1. CloudPath \subseteq Path
  BY DEF CloudPath
<1>2. found[q].hash # Absent
  BY <1>1, BooksAssumption DEF Reading, NotRead, Hash
<1>3. [found EXCEPT ![p] = x][t].hash = found[t].hash /\ [found EXCEPT ![p] = x][q] = found[q]
  BY <1>1, <1>2
<1> QED
  BY <1>3 DEF Repeated

\* One more bill.
LEMMA StandsRead ==
  ASSUME NEW found \in [Path -> Reading], NEW rs \in SUBSET AllLines, NEW T, NEW T2, T \subseteq T2,
         StandsFound(found, rs, T), Clean(rs, T),
         NEW p \in CloudPath, NEW h \in Hash, h = found[p].hash, NEW b \in Bill,
         b # h => h \in T2, \A q \in Path \ {p} : found[q].hash # h,
         NEW held, held = Upserted(rs, LinesOf(h, b, p)),
         NEW kept, kept = held \ ReplacedBy(held, p, h)
  PROVE  /\ StandsFound([found EXCEPT ![p] = [hash |-> h, content |-> b]], kept, T2)
         /\ Clean(kept, T2)
<1> DEFINE x == [hash |-> h, content |-> b]
           f2 == [found EXCEPT ![p] = x]
           new == LinesOf(h, b, p)
<1>1. CloudPath \subseteq Path /\ x \in Reading /\ x.hash = h /\ x.content = b
  BY DEF CloudPath, Reading, Hash
<1>2. f2[p] = x /\ \A q \in CloudPath : q # p => f2[q] = found[q]
  BY <1>1
<1>3. /\ held \subseteq rs \cup new /\ new \subseteq held
      /\ \A r \in rs : r \in held \/ r \in WrittenOver(rs, new)
  BY UpsertedIs
<1>4. \A r \in new : r[1] = h /\ r[3] = b /\ r[4] = p
  BY LineFacts
<1>5. kept = {r \in held : ~(r[4] = p /\ r[1] # h)}
  BY DEF ReplacedBy
<1>6. new \subseteq kept
  BY <1>3, <1>4, <1>5
<1>7. kept \subseteq rs \cup new
  BY <1>3, <1>5
<1>8. Clean(kept, T2)
  BY <1>4, <1>7 DEF Clean
\* Under a hash of its own content every row of it is the new one.
<1>9. ASSUME h \notin T2, NEW r \in held, r[1] = h PROVE r \in new
  <2>1. SUFFICES ASSUME r \notin new PROVE FALSE
    OBVIOUS
  <2>2. r \in rs /\ b = h
    BY <1>3, <1>9, <2>1
  <2>3. r[3] = b
    BY <1>9, <2>2 DEF Clean
  <2>4. PICK h1 \in Hash, b1 \in Bill, p1 \in CloudPath : r \in LinesOf(h1, b1, p1)
    BY <2>2 DEF AllLines
  <2>5. h1 = h /\ b1 = b
    BY <1>9, <2>3, <2>4, LineFacts
  <2>6. PICK n : r = <<h, n, b, p1>> /\ <<h, n, b, p>> \in new
    BY <2>4, <2>5 DEF LinesOf
  <2> DEFINE s == <<h, n, b, p>>
  <2>7. s \in new /\ s[1] = r[1] /\ s[2] = r[2] /\ s # r
    BY <2>1, <2>6
  <2> HIDE DEF s
  <2>8. r \in WrittenOver(rs, new)
    BY <2>2, <2>7 DEF WrittenOver
  <2> QED
    BY <1>9, <2>1, <2>8 DEF Upserted
<1>10. Alone(h, b, p, kept, T2)
  BY <1>5, <1>6, <1>9 DEF Alone
<1> HIDE DEF x, f2
<1>11. ASSUME NEW q \in CloudPath, f2[q].content \in Bill, ~Repeated(f2, q), q # p
       PROVE  Alone(f2[q].hash, f2[q].content, q, kept, T2)
  <2> DEFINE hq == found[q].hash
             bq == found[q].content
  <2>1. f2[q] = found[q] /\ hq # h /\ bq \in Bill
    BY <1>1, <1>2, <1>11
  <2>2. hq \in Hash
    BY <1>1, <2>1, BooksAssumption DEF Reading, NotRead
  <2>3. ~Repeated(found, q)
    BY <1>1, <1>11, <2>1, RepeatedStill DEF f2
  <2>4. Alone(hq, bq, q, rs, T)
    BY <2>1, <2>3 DEF StandsFound
  <2> HIDE DEF hq, bq
  <2>5. \A r \in LinesOf(hq, bq, q) : r[1] = hq /\ r[4] = q
    BY <2>1, <2>2, LineFacts
  <2>6. LinesOf(hq, bq, q) \subseteq kept
    <3>1. ASSUME NEW r \in LinesOf(hq, bq, q) PROVE r \in kept
      <4>1. r \in rs /\ r[1] = hq /\ r[4] = q
        BY <2>4, <2>5 DEF Alone
      <4>2. r \notin WrittenOver(rs, new)
        BY <1>4, <2>1, <4>1 DEF WrittenOver
      <4> QED
        BY <1>3, <1>5, <1>11, <4>1, <4>2
    <3> QED
      BY <3>1
  <2>7. \A r \in kept : r[4] = q => r \in rs
    BY <1>4, <1>7, <1>11
  <2>8. Alone(hq, bq, q, kept, T2)
    BY <2>4, <2>6, <2>7 DEF Alone
  <2> QED
    BY <2>1, <2>8 DEF hq, bq
<1>12. StandsFound(f2, kept, T2)
  BY <1>1, <1>2, <1>10, <1>11 DEF StandsFound
<1> QED
  BY <1>8, <1>12 DEF f2, x

\* A file that adds no rows: only hashed, or its bytes found before.
LEMMA StandsPassed ==
  ASSUME NEW found \in [Path -> Reading], NEW rs, NEW T, StandsFound(found, rs, T),
         NEW p \in CloudPath, found[p].hash = Absent, NEW x \in Reading,
         x.content \in Bill => \E q \in CloudPath : q < p /\ found[q].hash = x.hash
  PROVE  StandsFound([found EXCEPT ![p] = x], rs, T)
<1> DEFINE f2 == [found EXCEPT ![p] = x]
<1>1. CloudPath \subseteq Path /\ p \in Nat
  BY BooksAssumption DEF CloudPath
<1>2. f2[p] = x /\ \A q \in CloudPath : q # p => f2[q] = found[q]
  BY <1>1
<1> HIDE DEF f2
<1>3. ASSUME NEW q \in CloudPath, f2[q].content \in Bill, ~Repeated(f2, q)
      PROVE  Alone(f2[q].hash, f2[q].content, q, rs, T)
  <2>1. CASE q = p
    <3>1. PICK t \in CloudPath : t < p /\ found[t].hash = x.hash
      BY <1>2, <1>3, <2>1
    <3>2. t # p
      BY <1>1, <3>1
    <3> QED
      BY <1>2, <1>3, <2>1, <3>1, <3>2 DEF Repeated
  <2>2. CASE q # p
    <3>1. f2[q] = found[q]
      BY <1>2, <2>2
    <3>2. ~Repeated(found, q)
      BY <1>3, <2>2, <3>1, RepeatedStill DEF f2
    <3> QED
      BY <1>3, <3>1, <3>2 DEF StandsFound
  <2> QED
    BY <2>1, <2>2
<1> QED
  BY <1>3 DEF StandsFound, f2

\* The order of the files after one of them.
LEMMA InOrderStep ==
  ASSUME TypeInv, OwnPaths, NEW reader \in Readers, NEW p \in Path, FileNext(reader, p),
         InOrder(tx.found, tx.left, tx.reader), NEW x \in Reading, NEW left,
         \/ left = tx.left \ {p} /\ (x.hash # tx.found[p].hash => tx.found[p].hash = Absent)
         \/ left = tx.left /\ x.content = Absent
            /\ (reader = "cloud" => \A q \in Path : tx.found[q].hash # x.hash)
  PROVE  InOrder([tx.found EXCEPT ![p] = x], left, tx.reader)
<1> DEFINE f2 == [tx.found EXCEPT ![p] = x]
<1>1. /\ p \in PathsOf(reader) /\ tx.reader = reader /\ tx.left \subseteq Path /\ p \in tx.left
      /\ \A q \in tx.left : p <= q /\ q \in Nat
      /\ tx.found \in [Path -> Reading] /\ Path \subseteq Nat
  BY NextIsOwn, BooksAssumption DEF FileNext, Transaction
<1>2. f2[p] = x /\ \A q \in Path : q # p => f2[q] = tx.found[q]
  BY <1>1
<1>3. left \subseteq tx.left /\ (p \in left => left = tx.left)
  OBVIOUS
<1> HIDE DEF f2
<1>4. \A q \in Path : f2[q].hash # Absent => q \in PathsOf(reader) /\ \A r \in left : q <= r
  BY <1>1, <1>2, <1>3 DEF InOrder
<1>5. \A q \in left : f2[q].content = Absent
  BY <1>1, <1>2, <1>3 DEF InOrder
<1>6. ASSUME reader = "cloud", NEW r \in left, f2[r].hash # Absent, NEW q \in Path \ {r}
      PROVE  f2[q].hash # f2[r].hash
  <2>1. r = p
    <3>1. SUFFICES ASSUME r # p PROVE FALSE
      OBVIOUS
    <3>2. tx.found[r].hash # Absent /\ r \in tx.left /\ r \in Path
      BY <1>1, <1>2, <1>3, <1>6, <3>1
    <3>3. r <= p /\ p <= r
      BY <1>1, <3>2 DEF InOrder
    <3> QED
      BY <1>1, <3>1, <3>2, <3>3
  <2>2. left = tx.left /\ \A t \in Path : tx.found[t].hash # x.hash
    BY <1>6, <2>1
  <2> QED
    BY <1>2, <1>6, <2>1, <2>2
<1>7. InOrder(f2, left, reader)
  BY <1>4, <1>5, <1>6 DEF InOrder
<1> QED
  BY <1>1, <1>7 DEF f2

LEMMA RevisionInit == Init => RevisionInv
<1> SUFFICES ASSUME Init PROVE RevisionInv
  OBVIOUS
<1>1. tx = NoTx /\ imported = [p \in CloudPath |-> NotRead] /\ imp = [i \in Importer |-> Idle]
      /\ rows = {}
  BY DEF Init
<1>2. OwnPaths
  BY <1>1 DEF OwnPaths, Idle
<1>3. StandsFound(imported, rows, torn) /\ Clean(rows, torn)
  BY <1>1, BooksAssumption DEF StandsFound, NotRead, Clean
<1> QED
  BY <1>1, <1>2, <1>3, TypeInit DEF RevisionInv

\* What disturbs neither the rows nor the open import.
LEMMA RevisionKept ==
  ASSUME RevisionInv, TypeInv', OwnPaths', UNCHANGED <<rows, imported, torn>>,
         tx' = tx \/ tx' = NoTx
  PROVE  RevisionInv'
<1>1. StandsFound(imported', rows', torn') /\ Clean(rows', torn')
  BY DEF RevisionInv
<1>2. ASSUME tx' # NoTx
      PROVE  /\ InOrder(tx'.found, tx'.left, tx'.reader)
             /\ tx'.reader = "gateway" => tx'.rows = rows'
             /\ tx'.reader = "cloud" => /\ StandsFound(tx'.found, tx'.rows, TornNow(tx.found)')
                                       /\ Clean(tx'.rows, TornNow(tx.found)')
  <2>1. tx' = tx /\ TornNow(tx.found)' = TornNow(tx.found)
    BY <1>2 DEF TornNow
  <2> QED
    BY <2>1, <1>2 DEF RevisionInv
<1> QED
  BY <1>1, <1>2 DEF RevisionInv

\* A file of the open import.
LEMMA RevisionFile ==
  ASSUME RevisionInv, TypeInv', tx # NoTx, SameImport,
         InOrder(tx'.found, tx'.left, tx'.reader),
         tx.reader = "gateway" => tx'.rows = tx.rows,
         tx.reader = "cloud" => /\ StandsFound(tx'.found, tx'.rows, TornNow(tx'.found))
                               /\ Clean(tx'.rows, TornNow(tx'.found))
  PROVE  RevisionInv'
<1>1. UNCHANGED <<rows, imported, torn, imp>>
  BY DEF SameImport, store, history
<1>2. TornNow(tx.found)' = TornNow(tx'.found)
  BY <1>1 DEF TornNow
<1>3. StandsFound(imported', rows', torn') /\ Clean(rows', torn')
  BY <1>1 DEF RevisionInv
<1>4. OwnPaths'
  BY <1>1 DEF RevisionInv, OwnPaths
<1>5. tx'.reader = "gateway" => tx'.rows = rows'
  BY <1>1 DEF RevisionInv, SameImport
<1>6. tx'.reader = "cloud" => /\ StandsFound(tx'.found, tx'.rows, TornNow(tx.found)')
                             /\ Clean(tx'.rows, TornNow(tx.found)')
  BY <1>2 DEF SameImport
<1> QED
  BY <1>3, <1>4, <1>5, <1>6 DEF RevisionInv

\* The torn hashes when a file that was not read is.
LEMMA TornGrows ==
  ASSUME NEW found \in [Path -> Reading], NEW p \in Path, found[p].content = Absent, NEW x \in Reading
  PROVE  /\ TornNow(found) \subseteq TornNow([found EXCEPT ![p] = x])
         /\ Torn(x) => x.hash \in TornNow([found EXCEPT ![p] = x])
<1> DEFINE f2 == [found EXCEPT ![p] = x]
<1>1. f2[p] = x /\ \A q \in Path : q # p => f2[q] = found[q]
  OBVIOUS
<1>2. ~Torn(found[p])
  BY DEF Torn
<1> HIDE DEF f2
<1>3. TornNow(found) \subseteq TornNow(f2) /\ (Torn(x) => x.hash \in TornNow(f2))
  BY <1>1, <1>2 DEF TornNow
<1> QED
  BY <1>3 DEF f2

LEMMA RevisionFileStep ==
  ASSUME RevisionInv, TypeInv', NEW p \in Path, FileStep(p)
  PROVE  RevisionInv'
<1>0. TypeInv /\ OwnPaths
  BY DEF RevisionInv
<1>1. tx # NoTx /\ SameImport /\ InOrder(tx.found, tx.left, tx.reader)
  BY <1>0, FileStepIs DEF RevisionInv
<1>2. \A reader \in Readers : FileNext(reader, p) =>
        /\ tx.found \in [Path -> Reading] /\ tx.found[p].content = Absent /\ tx.reader = reader
        /\ reader = "cloud" => p \in CloudPath
  BY <1>0, <1>1, NextIsOwn DEF FileNext, Transaction, InOrder, PathsOf
\* A file hashed, or passed over.
<1>3. ASSUME NEW reader \in Readers, NEW x \in Reading, FileNext(reader, p), SameRows,
             tx.found[p].hash = Absent, tx'.found = [tx.found EXCEPT ![p] = x],
             x.content \in {Absent, x.hash},
             x.content \in Bill => \E q \in Path : tx.found[q].hash = x.hash,
             \/ tx'.left = tx.left \ {p}
             \/ /\ tx'.left = tx.left /\ x.content = Absent
                /\ reader = "cloud" => \A q \in Path : tx.found[q].hash # x.hash
      PROVE  RevisionInv'
  <2>1. InOrder(tx'.found, tx'.left, tx'.reader)
    BY <1>0, <1>1, <1>3, InOrderStep DEF SameImport
  <2>2. ASSUME tx.reader = "cloud"
        PROVE  /\ StandsFound(tx'.found, tx'.rows, TornNow(tx'.found))
               /\ Clean(tx'.rows, TornNow(tx'.found))
    <3>1. p \in CloudPath /\ reader = "cloud" /\ tx.found \in [Path -> Reading]
      BY <1>2, <1>3, <2>2
    <3>2. x.content \in Bill => \E q \in CloudPath : q < p /\ tx.found[q].hash = x.hash
      <4> SUFFICES ASSUME x.content \in Bill
                   PROVE  \E q \in CloudPath : q < p /\ tx.found[q].hash = x.hash
        OBVIOUS
      <4>1. PICK q \in Path : tx.found[q].hash = x.hash
        BY <1>3
      <4>2. x.hash # Absent
        BY BooksAssumption DEF Reading, NotRead, Hash
      <4>3. q \in CloudPath /\ q <= p
        BY <1>1, <1>3, <2>2, <4>1, <4>2 DEF InOrder, PathsOf, FileNext
      <4>4. q # p /\ q \in Nat /\ p \in Nat
        BY <1>3, <4>1, <4>2, BooksAssumption
      <4> QED
        BY <4>1, <4>3, <4>4
    <3>3. StandsFound(tx'.found, tx.rows, TornNow(tx.found))
      BY <1>1, <1>3, <2>2, <3>1, <3>2, StandsPassed DEF RevisionInv
    <3>4. TornNow(tx.found) \subseteq TornNow(tx'.found)
      BY <1>2, <1>3, <3>1, TornGrows
    <3>5. Clean(tx.rows, TornNow(tx.found))
      BY <1>1, <2>2 DEF RevisionInv
    <3> QED
      BY <1>3, <3>3, <3>4, <3>5, StandsWeaker DEF SameRows
  <2> QED
    BY <1>1, <1>3, <2>1, <2>2, RevisionFile DEF SameRows
<1>4. ASSUME NEW reader \in Readers, FileHashed(reader, p) PROVE RevisionInv'
  <2> DEFINE x == [hash |-> folder[p], content |-> Absent]
  <2>1. /\ FileNext(reader, p) /\ SameRows /\ tx.found[p].hash = Absent /\ folder[p] \in Hash
        /\ tx'.left = tx.left /\ tx'.found = [tx.found EXCEPT ![p] = x]
    BY <1>0, <1>4, FileHashedIs
  <2>2. reader = "cloud" => \A q \in Path : tx.found[q].hash # folder[p]
    BY <1>4 DEF FileHashed, Seen
  <2>3. x \in Reading /\ x.hash = folder[p] /\ x.content = Absent /\ x.content \notin Bill
    BY <2>1, BooksAssumption DEF Reading
  <2> HIDE DEF x
  <2> QED
    BY <1>3, <2>1, <2>2, <2>3
<1>5. ASSUME NEW reader \in Readers, FileRefused(reader, p) PROVE RevisionInv'
  <2>1. /\ FileNext(reader, p) /\ SameRows /\ tx'.left = tx.left \ {p} /\ tx'.found = tx.found
    BY <1>0, <1>5, FileRefusedIs
  <2>2. InOrder(tx'.found, tx'.left, tx'.reader)
    BY <1>1, <2>1 DEF InOrder, SameImport
  <2>3. tx.reader = "cloud" => /\ StandsFound(tx'.found, tx'.rows, TornNow(tx'.found))
                              /\ Clean(tx'.rows, TornNow(tx'.found))
    BY <1>1, <2>1 DEF RevisionInv, SameRows
  <2> QED
    BY <1>1, <2>1, <2>2, <2>3, RevisionFile DEF SameRows
<1>6. CASE ExportRead(p)
  <2>1. /\ FileNext("gateway", p) /\ tx'.rows = tx.rows /\ tx'.left = tx.left \ {p}
        /\ tx'.found = FoundRead(p) /\ tx.found[p].hash \in Hash /\ folder[p] \in Export
    BY <1>0, <1>6, ExportReadIs
  <2> DEFINE x == [hash |-> tx.found[p].hash, content |-> folder[p]]
  <2>2. x \in Reading /\ x.hash = tx.found[p].hash /\ tx'.found = [tx.found EXCEPT ![p] = x]
    BY <2>1 DEF Reading, Hash, FoundRead
  <2> HIDE DEF x
  <2>3. InOrder(tx'.found, tx'.left, tx'.reader)
    BY <1>0, <1>1, <2>1, <2>2, InOrderStep DEF SameImport, Readers
  <2> QED
    BY <1>1, <2>1, <2>3, RevisionFile DEF FileNext
<1>7. CASE BillRead(p)
  <2> DEFINE h == tx.found[p].hash
             b == folder[p]
             x == [hash |-> h, content |-> b]
  <2>1. /\ FileNext("cloud", p) /\ tx'.left = tx.left \ {p} /\ p \in CloudPath /\ tx.reader = "cloud"
        /\ tx'.found = FoundRead(p) /\ h \in Hash /\ b \in Bill
        /\ tx'.rows = BillHeld(p) \ BillGone(p) /\ tx.rows \in SUBSET AllLines
    BY <1>0, <1>7, BillReadIs DEF FileNext, Transaction
  <2>2. x \in Reading /\ tx'.found = [tx.found EXCEPT ![p] = x]
    BY <2>1 DEF Reading, Hash, FoundRead
  <2>3. InOrder(tx'.found, tx'.left, tx'.reader)
    BY <1>0, <1>1, <2>1, <2>2, InOrderStep DEF SameImport, Readers
  <2>4. /\ tx.found \in [Path -> Reading] /\ tx.found[p].content = Absent
        /\ StandsFound(tx.found, tx.rows, TornNow(tx.found)) /\ Clean(tx.rows, TornNow(tx.found))
    BY <1>1, <1>2, <2>1 DEF RevisionInv, Readers
  <2>5. \A q \in Path \ {p} : tx.found[q].hash # h
    BY <1>1, <2>1, BooksAssumption DEF InOrder, FileNext, Hash
  <2>6. TornNow(tx.found) \subseteq TornNow(tx'.found) /\ (b # h => h \in TornNow(tx'.found))
    <3>1. b # h => Torn(x)
      BY <2>1, BooksAssumption DEF Torn
    <3> QED
      BY <2>2, <2>4, <3>1, TornGrows
  <2>7. BillHeld(p) = Upserted(tx.rows, LinesOf(h, b, p)) /\ BillGone(p) = ReplacedBy(BillHeld(p), p, h)
    BY DEF BillHeld, BillGone, BillLines
  <2> HIDE DEF h, b
  <2>8. StandsFound(tx'.found, tx'.rows, TornNow(tx'.found)) /\ Clean(tx'.rows, TornNow(tx'.found))
    <3> DEFINE f == tx.found
               f2 == tx'.found
               rs == tx.rows
               held == BillHeld(p)
               kept == tx'.rows
               T == TornNow(tx.found)
               T2 == TornNow(tx'.found)
    <3>1. /\ f \in [Path -> Reading] /\ rs \in SUBSET AllLines /\ T \subseteq T2
          /\ StandsFound(f, rs, T) /\ Clean(rs, T) /\ p \in CloudPath /\ h \in Hash /\ b \in Bill
          /\ b # h => h \in T2
      BY <2>1, <2>4, <2>6
    <3>2. h = f[p].hash /\ \A q \in Path \ {p} : f[q].hash # h
      BY <2>5 DEF h
    <3>3. /\ held = Upserted(rs, LinesOf(h, b, p)) /\ kept = held \ ReplacedBy(held, p, h)
          /\ f2 = [f EXCEPT ![p] = [hash |-> h, content |-> b]]
      BY <2>1, <2>2, <2>7
    <3> HIDE DEF f, f2, rs, held, kept, T, T2, x
    <3>4. StandsFound(f2, kept, T2) /\ Clean(kept, T2)
      BY <3>1, <3>2, <3>3, StandsRead
    <3> QED
      BY <3>4 DEF f2, kept, T2
  <2> QED
    BY <1>1, <2>1, <2>3, <2>8, RevisionFile
<1>8. CASE BillSeen(p)
  <2> DEFINE x == [hash |-> folder[p], content |-> folder[p]]
  <2>1. /\ FileNext("cloud", p) /\ SameRows /\ tx.found[p].hash = Absent /\ folder[p] \in Hash
        /\ tx'.left = tx.left \ {p} /\ tx'.found = [tx.found EXCEPT ![p] = x]
        /\ \E q \in Path : tx.found[q].hash = folder[p]
    BY <1>0, <1>8, BillSeenIs
  <2>2. x \in Reading /\ x.hash = folder[p] /\ x.content = x.hash
    BY <2>1 DEF Reading
  <2> HIDE DEF x
  <2> QED
    BY <1>3, <2>1, <2>2 DEF Readers
<1> QED
  BY <1>4, <1>5, <1>6, <1>7, <1>8 DEF FileStep

LEMMA RevisionNext == RevisionInv /\ [Next]_vars => RevisionInv'
<1> SUFFICES ASSUME RevisionInv, [Next]_vars PROVE RevisionInv'
  OBVIOUS
<1>0. TypeInv' /\ OwnPaths /\ TypeInv
  BY TypeNext DEF RevisionInv
<1>k. ASSUME UNCHANGED <<rows, imported, torn, tx, imp>> PROVE RevisionInv'
  BY <1>0, <1>k, RevisionKept DEF OwnPaths
<1>1. ASSUME NEW p \in Path, NEW content \in Offers[p] \cup {Absent},
             FolderMoves(p, content)
      PROVE  RevisionInv'
  BY <1>k, <1>1 DEF FolderMoves, store, history
<1>2. ASSUME NEW i \in Importer, NEW reader \in Readers, NEW replace \in BOOLEAN,
             NEW folders \in Configured(reader), ImportListed(i, reader, folders, replace)
      PROVE  RevisionInv'
  <2>1. UNCHANGED <<rows, imported, torn, tx>>
    BY <1>2 DEF ImportListed, store, history
  <2> QED
    BY <2>1, <1>0, <1>2, ListedOwn, RevisionKept
<1>3. ASSUME NEW i \in Importer, ImportOpened(i) PROVE RevisionInv'
  <2>1. /\ UNCHANGED <<rows, imported, torn>> /\ tx'.rows = rows /\ tx'.found = [p \in Path |-> NotRead]
        /\ imp' = [imp EXCEPT ![i].at = "open"] /\ tx'.left = imp[i].files /\ imp[i].files \subseteq Path
    BY <1>0, <1>3 DEF ImportOpened, store, history, TypeInv, TypeOK
  <2>2. OwnPaths'
    BY <2>1, <1>0 DEF OwnPaths, TypeInv, TypeOK
  <2>3. StandsFound(imported', rows', torn') /\ Clean(rows', torn')
    BY <2>1 DEF RevisionInv
  <2>4. InOrder(tx'.found, tx'.left, tx'.reader)
    BY <2>1 DEF InOrder, NotRead
  <2>5. StandsFound(tx'.found, tx'.rows, TornNow(tx.found)')
    BY <2>1, BooksAssumption DEF StandsFound, CloudPath, NotRead
  <2>6. Clean(tx'.rows, TornNow(tx.found)')
    BY <2>1, <2>3, StandsWeaker DEF TornNow
  <2> QED
    BY <2>1, <2>2, <2>3, <2>4, <2>5, <2>6, <1>0 DEF RevisionInv
<1>4. ASSUME NEW p \in Path, FileStep(p) PROVE RevisionInv'
  BY <1>0, <1>4, RevisionFileStep
<1>8. ASSUME ImportCommitted PROVE RevisionInv'
  <2>1. /\ tx # NoTx /\ tx \in Transaction /\ rows' = tx.rows /\ tx' = NoTx
        /\ imp' = [imp EXCEPT ![tx.by] = Idle]
        /\ imported' = IF tx.reader = "cloud" THEN [p \in CloudPath |-> tx.found[p]] ELSE imported
        /\ torn' = TornNow(tx.found) /\ torn \subseteq torn'
    BY <1>0, <1>8 DEF TypeInv, TypeOK, ImportCommitted, TornNow
  <2>2. OwnPaths'
    BY <2>1, <1>0 DEF OwnPaths, Idle, TypeInv, TypeOK
  <2>3. CASE tx.reader = "gateway"
    <3>1. rows' = rows /\ imported' = imported
      BY <2>1, <2>3 DEF RevisionInv
    <3>2. StandsFound(imported', rows', torn') /\ Clean(rows', torn')
      BY <2>1, <3>1, StandsWeaker DEF RevisionInv
    <3> QED
      BY <3>2, <2>1, <2>2, <1>0 DEF RevisionInv
  <2>4. CASE tx.reader = "cloud"
    <3>1. StandsFound(tx.found, tx.rows, torn') /\ Clean(tx.rows, torn')
      BY <2>1, <2>4 DEF RevisionInv
    <3>2. imported' = [p \in CloudPath |-> tx.found[p]] /\ rows' = tx.rows
      BY <2>1, <2>4
    <3>3. StandsFound(imported', rows', torn')
      BY <3>1, <3>2 DEF StandsFound, Repeated
    <3> QED
      BY <3>1, <3>2, <3>3, <2>1, <2>2, <1>0 DEF RevisionInv
  <2> QED
    BY <2>1, <2>3, <2>4 DEF Transaction, Readers
<1>9. ASSUME ImportFailed PROVE RevisionInv'
  <2>1. OwnPaths'
    BY <1>0, <1>9 DEF ImportFailed, OwnPaths, Idle, TypeInv, TypeOK
  <2> QED
    BY <2>1, <1>0, <1>9, RevisionKept DEF ImportFailed, store, history
<1>10. ASSUME NEW c \in Closer,
              CloseLooked(c) \/ CloseReadDirect(c) \/ CloseReadPots(c) \/ CloseWritten(c)
       PROVE  RevisionInv'
  BY <1>k, <1>10 DEF CloseLooked, CloseReadDirect, CloseReadPots, CloseWritten, store, history
<1>11. ASSUME Reopened PROVE RevisionInv'
  BY <1>k, <1>11 DEF Reopened, history
<1>12. ASSUME NEW r \in rules, NEW method \in Methods, SetRule(r, method) PROVE RevisionInv'
  BY <1>k, <1>12 DEF SetRule, store, history
<1>13. ASSUME UNCHANGED vars PROVE RevisionInv'
  BY <1>k, <1>13 DEF vars, store, history
<1> QED
  BY <1>1, <1>2, <1>3, <1>4, <1>8, <1>9, <1>10, <1>11, <1>12, <1>13 DEF Next, FileStep

\* processCloudFile: a revised file's rows, filed under the hash taken of it,
\* replace those of any other hash under its path, unless an earlier file of the
\* import held the same bytes (cloudfocus.go:564).
THEOREM BooksRevisionReplaces == Spec => []RevisionReplacesUnlessTwin
<1>1. Init => RevisionInv
  BY RevisionInit
<1>2. RevisionInv /\ [Next]_vars => RevisionInv'
  BY RevisionNext
<1>3. RevisionInv => RevisionReplacesUnlessTwin
  BY ReplacedIs DEF RevisionInv, TypeInv
<1> QED
  BY <1>1, <1>2, <1>3, PTL DEF Spec

-----------------------------------------------------------------------------
(* The ledger is what the rows say. *)

\* A day no row of which comes, goes or is written over has the calls it had.
NoCallOf(d, held, new, gone) ==
  \A r \in new \cup gone \cup WrittenOver(held, new) : CallOf(r).day # d

LEMMA SpentSame ==
  ASSUME NEW held, NEW new, NEW gone, NEW d, NoCallOf(d, held, new, gone)
  PROVE  Spent(Upserted(held, new) \ gone, d) = Spent(held, d)
<1> DEFINE over == WrittenOver(held, new)
           kept == Upserted(held, new) \ gone
<1>1. kept = ((held \ over) \cup new) \ gone
  BY DEF Upserted
<1> HIDE DEF over, kept
<1>2. {x \in kept : CallOf(x).day = d /\ ~CallOf(x).blocked /\ ~CallOf(x).fallback}
      = {x \in held : CallOf(x).day = d /\ ~CallOf(x).blocked /\ ~CallOf(x).fallback}
  BY <1>1 DEF over, NoCallOf
<1>3. Spent(kept, d) = Spent(held, d)
  BY <1>2 DEF Spent
<1> QED
  BY <1>3 DEF kept

\* And the lines it had.
NoLineOf(d, standing, new, gone) ==
  \A r \in new \cup gone \cup WrittenOver(standing, new) : LineOf(r).day # d

LEMMA BilledSame ==
  ASSUME NEW standing, NEW new, NEW gone, NEW d, NoLineOf(d, standing, new, gone)
  PROVE  Billed(Upserted(standing, new) \ gone, d) = Billed(standing, d)
<1> DEFINE over == WrittenOver(standing, new)
           kept == Upserted(standing, new) \ gone
<1>1. kept = ((standing \ over) \cup new) \ gone
  BY DEF Upserted
<1> HIDE DEF over, kept
<1>2. {x \in kept : LineOf(x).day = d} = {x \in standing : LineOf(x).day = d}
  BY <1>1 DEF over, NoLineOf
<1>3. Billed(kept, d) = Billed(standing, d)
  BY <1>2 DEF Billed
<1> QED
  BY <1>3 DEF kept

\* The charges of a day depend on the day's rows alone.
LEMMA DerivedSame ==
  ASSUME NEW reader \in Readers, NEW held, NEW held2, NEW standing, NEW standing2, NEW d,
         reader = "gateway" => Spent(held, d) = Spent(held2, d),
         reader = "cloud" => Billed(standing, d) = Billed(standing2, d)
  PROVE  Derived(reader, held, standing, d) = Derived(reader, held2, standing2, d)
<1>1. CASE reader = "gateway"
  <2>1. deriveCharges(held, d) = deriveCharges(held2, d)
    BY <1>1 DEF deriveCharges
  <2> QED
    BY <2>1, <1>1 DEF Derived
<1>2. CASE reader = "cloud"
  <2>1. deriveCloudCharges(standing, d) = deriveCloudCharges(standing2, d)
    BY <1>2 DEF deriveCloudCharges
  <2> QED
    BY <2>1, <1>2 DEF Derived
<1> QED
  BY <1>1, <1>2 DEF Readers

\* No rows, no charges.
LEMMA DerivedEmpty ==
  ASSUME NEW reader \in Readers, NEW d
  PROVE  Derived(reader, {}, {}, d) = {}
<1>1. Spent({}, d) = {}
  BY DEF Spent
<1>2. Billed({}, d) = {}
  BY DEF Billed
<1>3. deriveCharges({}, d) = {}
  BY <1>1 DEF deriveCharges
<1>4. deriveCloudCharges({}, d) = {}
  BY <1>2 DEF deriveCloudCharges
<1> QED
  BY <1>3, <1>4 DEF Derived

\* Whom a team's day is put down to, of the days derived and of the others.
LEMMA AttributionOf ==
  ASSUME NEW standing, NEW held, NEW days, NEW g \in TeamDays(held, days)
  PROVE  {a.agent : a \in {x \in deriveAttribution(standing, held, days) :
                             x.day = g[1] /\ x.team = g[2]}}
           = {TopAgent(Spent(held, g[1]), g[2])}
<1> DEFINE D == deriveAttribution(standing, held, days)
           new == [day |-> g[1], team |-> g[2], agent |-> TopAgent(Spent(held, g[1]), g[2])]
<1>1. g = <<g[1], g[2]>>
  BY DEF TeamDays
<1>2. new \in D
  BY DEF deriveAttribution
<1>3. ASSUME NEW a \in D, a.day = g[1], a.team = g[2] PROVE a.agent = new.agent
  BY <1>1, <1>3 DEF deriveAttribution, TeamDays
<1>4. new.day = g[1] /\ new.team = g[2] /\ new.agent = TopAgent(Spent(held, g[1]), g[2])
  OBVIOUS
<1> HIDE DEF D, new
<1>5. {a.agent : a \in {x \in D : x.day = g[1] /\ x.team = g[2]}}
      = {TopAgent(Spent(held, g[1]), g[2])}
  BY <1>2, <1>3, <1>4
<1> QED
  BY <1>5 DEF D

LEMMA AttributionKept ==
  ASSUME NEW standing, NEW held, NEW days, NEW d, d \notin days, NEW t
  PROVE  {x \in deriveAttribution(standing, held, days) : x.day = d /\ x.team = t}
           = {x \in standing : x.day = d /\ x.team = t}
<1>1. \A g \in TeamDays(held, days) : g[1] \in days
  BY DEF TeamDays
<1> QED
  BY <1>1 DEF deriveAttribution

\* A day the import has neither touched nor written over has the rows it had.
Untouched(held, standing, days) ==
  \A d \in Day \ days : /\ Spent(held, d) = Spent(calls, d)
                       /\ Billed(standing, d) = Billed(rows, d)

\* Until the generated estate is replaced nothing has been imported, and an
\* import that does not replace it found it gone.
SeededFirst ==
  /\ Seeded => calls = {}
  /\ \A i \in Importer : imp[i].at # "idle" /\ ~imp[i].wipe => ~Seeded

OneReader ==
  /\ tx.reader = "gateway" => tx.rows = rows
  /\ tx.reader = "cloud" => tx.calls = calls

LedgerInv ==
  /\ TypeInv /\ OwnPaths /\ LedgerIsTheRows /\ SeededFirst
  /\ tx # NoTx => OneReader /\ Untouched(tx.calls, tx.rows, tx.touched \cup tx.lapsed)

LEMMA LedgerInit == Init => LedgerInv
<1> SUFFICES ASSUME Init PROVE LedgerInv
  OBVIOUS
<1>1. /\ calls = {} /\ rows = {} /\ ledger = InitLedger /\ tx = NoTx
      /\ imp = [i \in Importer |-> Idle]
  BY DEF Init
<1>2. \A r \in ledger : r.from \notin Readers
  BY <1>1, BooksAssumption DEF Readers
<1>3. ASSUME NEW reader \in Readers, NEW d \in Day
      PROVE  {r \in ledger : r.from = reader /\ r.day = d} = Derived(reader, calls, rows, d)
  BY <1>1, <1>2, DerivedEmpty
<1>4. ChargesAreTheRows
  BY <1>3 DEF ChargesAreTheRows
<1>5. AttributionIsTheRows
  BY <1>1 DEF AttributionIsTheRows, TeamDays, Spent
<1>6. SeededFirst
  BY <1>1 DEF SeededFirst, Idle
<1>7. OwnPaths
  BY <1>1 DEF OwnPaths, Idle
<1> QED
  BY <1>1, <1>4, <1>5, <1>6, <1>7, TypeInit DEF LedgerInv, LedgerIsTheRows

\* What disturbs neither rows nor charges.
LEMMA LedgerKept ==
  ASSUME LedgerInv, TypeInv', OwnPaths', SeededFirst',
         UNCHANGED <<calls, rows, attribution, ledger, lapsed, wipedLate>>, tx' = tx \/ tx' = NoTx
  PROVE  LedgerInv'
<1>1. LedgerIsTheRows'
  BY DEF LedgerInv, LedgerIsTheRows, ChargesAreTheRows, AttributionIsTheRows
<1>2. (tx # NoTx => OneReader /\ Untouched(tx.calls, tx.rows, tx.touched \cup tx.lapsed))'
  BY DEF LedgerInv, OneReader, Untouched
<1> QED
  BY <1>1, <1>2 DEF LedgerInv

\* A file of the open import.
LEMMA LedgerFile ==
  ASSUME LedgerInv, TypeInv', tx # NoTx, SameImport,
         NEW days, days = tx'.touched \cup tx'.lapsed, tx.touched \cup tx.lapsed \subseteq days,
         tx.reader = "gateway" => tx'.rows = tx.rows,
         tx.reader = "cloud" => tx'.calls = tx.calls,
         \A d \in Day \ days : /\ Spent(tx'.calls, d) = Spent(tx.calls, d)
                              /\ Billed(tx'.rows, d) = Billed(tx.rows, d)
  PROVE  LedgerInv'
<1>0. UNCHANGED <<calls, rows, attribution, ledger, lapsed, wipedLate, imp>> /\ tx'.reader = tx.reader
  BY DEF SameImport, store, history
<1>1. LedgerIsTheRows'
  BY <1>0 DEF LedgerInv, LedgerIsTheRows, ChargesAreTheRows, AttributionIsTheRows
<1>2. Untouched(tx'.calls, tx'.rows, days)
  BY DEF LedgerInv, Untouched
<1>3. OneReader' /\ Untouched(tx.calls, tx.rows, tx.touched \cup tx.lapsed)'
  BY <1>0, <1>2 DEF LedgerInv, OneReader, Untouched
<1>4. OwnPaths' /\ SeededFirst'
  BY <1>0 DEF LedgerInv, OwnPaths, SeededFirst, Seeded
<1> QED
  BY <1>1, <1>3, <1>4 DEF LedgerInv

LEMMA LedgerExport ==
  ASSUME LedgerInv, TypeInv', NEW p \in Path, ExportRead(p)
  PROVE  LedgerInv'
<1> DEFINE new == ExportRows(p)
           gone == ExportGone(p)
           over == ExportOver(p)
           days == tx'.touched \cup tx'.lapsed
<1>1. /\ FileNext("gateway", p) /\ SameImport /\ tx # NoTx /\ tx.reader = "gateway"
      /\ tx'.calls = Upserted(tx.calls, new) \ gone /\ tx'.rows = tx.rows
      /\ tx'.touched = tx.touched \cup daysTouched(new, gone)
      /\ tx'.lapsed = tx.lapsed \cup {CallOf(r).day : r \in over}
      /\ over = WrittenOver(tx.calls, new)
  BY ExportReadIs DEF LedgerInv, FileNext, ExportHeld, ExportOver
<1> HIDE DEF new, gone, over
<1>2. \A d \in Day \ days : \A r \in new \cup gone \cup WrittenOver(tx.calls, new) : CallOf(r).day # d
  BY <1>1 DEF daysTouched
<1>3. ASSUME NEW d \in Day \ days PROVE Spent(tx'.calls, d) = Spent(tx.calls, d)
  <2> DEFINE held == tx.calls
  <2>0. NoCallOf(d, held, new, gone)
    BY <1>2 DEF NoCallOf
  <2> HIDE DEF held
  <2>1. Spent(Upserted(held, new) \ gone, d) = Spent(held, d)
    BY <2>0, SpentSame
  <2> QED
    BY <2>1, <1>1 DEF held
<1>4. tx.touched \cup tx.lapsed \subseteq days
  BY <1>1
<1> QED
  BY <1>1, <1>3, <1>4, LedgerFile

LEMMA LedgerBill ==
  ASSUME LedgerInv, TypeInv', NEW p \in Path, BillRead(p)
  PROVE  LedgerInv'
<1> DEFINE new == BillLines(p)
           gone == BillGone(p)
           over == BillOver(p)
           days == tx'.touched \cup tx'.lapsed
<1>1. /\ FileNext("cloud", p) /\ SameImport /\ tx # NoTx /\ tx.reader = "cloud"
      /\ tx'.rows = Upserted(tx.rows, new) \ gone /\ tx'.calls = tx.calls
      /\ tx'.touched = tx.touched \cup staleDays(new, gone)
      /\ tx'.lapsed = tx.lapsed \cup LineDays(over)
      /\ over = WrittenOver(tx.rows, new)
  BY BillReadIs DEF LedgerInv, FileNext, BillHeld, BillOver
<1> HIDE DEF new, gone, over
<1>2. \A d \in Day \ days : \A r \in new \cup gone \cup WrittenOver(tx.rows, new) : LineOf(r).day # d
  BY <1>1 DEF staleDays, LineDays
<1>3. ASSUME NEW d \in Day \ days PROVE Billed(tx'.rows, d) = Billed(tx.rows, d)
  <2> DEFINE held == tx.rows
  <2>0. NoLineOf(d, held, new, gone)
    BY <1>2 DEF NoLineOf
  <2> HIDE DEF held
  <2>1. Billed(Upserted(held, new) \ gone, d) = Billed(held, d)
    BY <2>0, BilledSame
  <2> QED
    BY <2>1, <1>1 DEF held
<1>4. tx.touched \cup tx.lapsed \subseteq days
  BY <1>1
<1> QED
  BY <1>1, <1>3, <1>4, LedgerFile

LEMMA LedgerFileStep ==
  ASSUME LedgerInv, TypeInv', NEW p \in Path, FileStep(p)
  PROVE  LedgerInv'
<1>0. TypeInv
  BY DEF LedgerInv
<1>1. ASSUME tx # NoTx, SameImport, SameRows PROVE LedgerInv'
  <2> DEFINE days == tx'.touched \cup tx'.lapsed
  <2>1. days = tx.touched \cup tx.lapsed /\ tx'.calls = tx.calls /\ tx'.rows = tx.rows
    BY <1>1 DEF SameRows
  <2> HIDE DEF days
  <2> QED
    BY <1>1, <2>1, LedgerFile DEF days
<1>2. ASSUME NEW reader \in Readers, FileHashed(reader, p) \/ FileRefused(reader, p) PROVE LedgerInv'
  BY <1>0, <1>1, <1>2, FileHashedIs, FileRefusedIs DEF FileNext
<1>3. CASE BillSeen(p)
  BY <1>0, <1>1, <1>3, BillSeenIs DEF FileNext
<1> QED
  BY <1>2, <1>3, LedgerExport, LedgerBill DEF FileStep

\* What a commit writes is what the rows it commits say.
LEMMA LedgerCommitted ==
  ASSUME LedgerInv, TypeInv', ImportCommitted
  PROVE  LedgerInv'
<1> DEFINE kept == IF tx.wipe THEN {r \in ledger : r.from # "generated"} ELSE ledger
           fresh(d) == Derived(tx.reader, tx.calls, tx.rows, d)
           stood == IF tx.wipe THEN {} ELSE attribution
<1>1. /\ tx # NoTx /\ tx \in Transaction /\ calls' = tx.calls /\ rows' = tx.rows
      /\ ledger' = {r \in kept : r.from # tx.reader \/ r.day \notin tx.touched}
                   \cup UNION {fresh(d) : d \in tx.touched}
      /\ attribution' = IF tx.reader = "gateway"
                        THEN deriveAttribution(stood, tx.calls, tx.touched) ELSE stood
      /\ lapsed' = [lapsed EXCEPT ![tx.reader] = (@ \cup tx.lapsed) \ tx.touched]
      /\ lapsed \in [Readers -> SUBSET Day]
      /\ wipedLate' = (wipedLate \/ (tx.wipe /\ ~Seeded))
      /\ tx' = NoTx /\ imp' = [imp EXCEPT ![tx.by] = Idle]
      /\ imp[tx.by].at = "open" /\ imp[tx.by].wipe = tx.wipe /\ tx.by \in Importer
  BY DEF LedgerInv, TypeInv, TypeOK, ImportCommitted, Transaction
<1>2. /\ OneReader /\ Untouched(tx.calls, tx.rows, tx.touched \cup tx.lapsed)
      /\ ChargesAreTheRows /\ AttributionIsTheRows /\ SeededFirst /\ OwnPaths
      /\ tx.touched \subseteq Day /\ tx.reader \in Readers
      /\ tx.calls \subseteq AllRows /\ tx.rows \subseteq AllLines
  BY <1>1 DEF LedgerInv, LedgerIsTheRows, Transaction
<1>3. \A d : \A r \in fresh(d) : r.from = tx.reader /\ r.day = d
  BY <1>2, DerivedFacts
<1> HIDE DEF fresh
<1>4. ASSUME NEW reader \in Readers, NEW d \in Day \ lapsed'[reader]
      PROVE  {r \in ledger' : r.from = reader /\ r.day = d} = Derived(reader, calls', rows', d)
  <2>0. reader # tx.reader \/ d \notin tx.touched =>
          /\ d \in Day \ lapsed[reader]
          /\ reader = tx.reader => d \notin tx.lapsed
    <3>1. lapsed'[reader] = IF reader = tx.reader THEN (lapsed[reader] \cup tx.lapsed) \ tx.touched
                            ELSE lapsed[reader]
      BY <1>1
    <3> QED
      BY <3>1
  <2>1. CASE reader = tx.reader /\ d \in tx.touched
    <3>1. {r \in ledger' : r.from = reader /\ r.day = d} = fresh(d)
      BY <1>1, <1>3, <2>1
    <3> QED
      BY <3>1, <2>1, <1>1 DEF fresh
  <2>2. CASE reader # tx.reader \/ d \notin tx.touched
    <3>1. reader # "generated"
      BY DEF Readers
    <3>2. {r \in ledger' : r.from = reader /\ r.day = d}
          = {r \in ledger : r.from = reader /\ r.day = d}
      BY <1>1, <1>3, <2>2, <3>1
    <3>3. {r \in ledger : r.from = reader /\ r.day = d} = Derived(reader, calls, rows, d)
      BY <1>2, <2>0, <2>2 DEF ChargesAreTheRows
    <3>4. (reader = "gateway" => Spent(calls, d) = Spent(tx.calls, d))
          /\ (reader = "cloud" => Billed(rows, d) = Billed(tx.rows, d))
      BY <1>2, <2>0, <2>2 DEF OneReader, Untouched, Readers
    <3>5. Derived(reader, calls, rows, d) = Derived(reader, tx.calls, tx.rows, d)
      BY <3>4, DerivedSame
    <3> QED
      BY <3>2, <3>3, <3>5, <1>1
  <2> QED
    BY <2>1, <2>2
<1>5. ChargesAreTheRows'
  BY <1>4 DEF ChargesAreTheRows
<1>6. ASSUME ~wipedLate', NEW g \in TeamDays(calls', Day \ lapsed'["gateway"])
      PROVE  {a.agent : a \in {x \in attribution' : x.day = g[1] /\ x.team = g[2]}}
               = {TopAgent(Spent(calls', g[1]), g[2])}
  <2>0. g[1] \in Day \ lapsed'["gateway"] /\ g \in TeamDays(tx.calls, {g[1]})
    BY <1>6, <1>1 DEF TeamDays
  <2>1. CASE g[1] \in tx.touched /\ tx.reader = "gateway"
    <3>1. g \in TeamDays(tx.calls, tx.touched)
      BY <2>0, <2>1 DEF TeamDays
    <3> QED
      BY <3>1, <2>1, <1>1, AttributionOf
  <2>2. CASE g[1] \notin tx.touched \/ tx.reader = "cloud"
    <3>0. g[1] \in Day \ lapsed["gateway"] /\ (tx.reader = "gateway" => g[1] \notin tx.lapsed)
      BY <2>0, <2>2, <1>1, <1>2 DEF Readers
    <3>1. Spent(tx.calls, g[1]) = Spent(calls, g[1])
      BY <3>0, <2>2, <1>2 DEF OneReader, Untouched, Readers
    <3>2. g \in TeamDays(calls, Day \ lapsed["gateway"])
      BY <2>0, <3>0, <3>1 DEF TeamDays
    <3>3. {x \in attribution' : x.day = g[1] /\ x.team = g[2]}
          = {x \in stood : x.day = g[1] /\ x.team = g[2]}
      <4>1. CASE tx.reader = "cloud"
        BY <1>1, <4>1
      <4>2. CASE tx.reader = "gateway"
        <5>1. g[1] \notin tx.touched
          BY <2>2, <4>2
        <5>2. attribution' = deriveAttribution(stood, tx.calls, tx.touched)
          BY <1>1, <4>2
        <5> HIDE DEF stood
        <5> QED
          BY <5>1, <5>2, AttributionKept
      <4> QED
        BY <4>1, <4>2, <1>2 DEF Readers
    <3>4. ~tx.wipe
      <4>1. ASSUME Seeded PROVE FALSE
        BY <4>1, <3>2, <1>2 DEF SeededFirst, TeamDays, Spent
      <4> QED
        BY <4>1, <1>6, <1>1
    <3>5. {a.agent : a \in {x \in attribution : x.day = g[1] /\ x.team = g[2]}}
          = {TopAgent(Spent(calls, g[1]), g[2])}
      BY <3>2, <1>1, <1>2, <1>6 DEF AttributionIsTheRows
    <3> QED
      BY <3>1, <3>3, <3>4, <3>5, <1>1
  <2> QED
    BY <2>1, <2>2, <1>2 DEF Readers
<1>7. AttributionIsTheRows'
  BY <1>6 DEF AttributionIsTheRows
<1>8. SeededFirst'
  <2>1. Seeded' => Seeded /\ ~tx.wipe
    BY <1>1, <1>2, <1>3 DEF Seeded, Readers
  <2>2. ~Seeded'
    BY <2>1, <1>1, <1>2 DEF SeededFirst
  <2> QED
    BY <2>2 DEF SeededFirst
<1>9. OwnPaths'
  BY <1>1, <1>2 DEF OwnPaths, Idle, LedgerInv, TypeInv, TypeOK
<1> QED
  BY <1>1, <1>5, <1>7, <1>8, <1>9 DEF LedgerInv, LedgerIsTheRows

LEMMA LedgerNext == LedgerInv /\ [Next]_vars => LedgerInv'
<1> SUFFICES ASSUME LedgerInv, [Next]_vars PROVE LedgerInv'
  OBVIOUS
<1>0. TypeInv' /\ OwnPaths /\ TypeInv /\ SeededFirst
  BY TypeNext DEF LedgerInv
<1>k. ASSUME UNCHANGED <<calls, rows, attribution, ledger, lapsed, wipedLate, tx, imp>> PROVE LedgerInv'
  BY <1>0, <1>k, LedgerKept DEF OwnPaths, SeededFirst, Seeded
<1>1. ASSUME NEW p \in Path, NEW content \in Offers[p] \cup {Absent},
             FolderMoves(p, content)
      PROVE  LedgerInv'
  BY <1>k, <1>1 DEF FolderMoves, store, history
<1>2. ASSUME NEW i \in Importer, NEW reader \in Readers, NEW replace \in BOOLEAN,
             NEW folders \in Configured(reader), ImportListed(i, reader, folders, replace)
      PROVE  LedgerInv'
  <2> DEFINE files == {p \in UNION folders : folder[p] # Absent}
  <2>1. /\ UNCHANGED <<calls, rows, attribution, ledger, lapsed, wipedLate, tx>>
        /\ imp' = [imp EXCEPT ![i] = [at |-> "listed", reader |-> reader, files |-> files,
                                      wipe |-> Seeded]]
    BY <1>2 DEF ImportListed, store, history
  <2> HIDE DEF files
  <2>2. SeededFirst'
    BY <2>1, <1>0 DEF SeededFirst, Seeded, TypeInv, TypeOK
  <2> QED
    BY <2>1, <2>2, <1>0, <1>2, ListedOwn, LedgerKept
<1>3. ASSUME NEW i \in Importer, ImportOpened(i) PROVE LedgerInv'
  <2>1. /\ UNCHANGED <<calls, rows, attribution, ledger, lapsed, wipedLate>> /\ tx'.rows = rows
        /\ tx'.calls = calls /\ imp[i].at = "listed" /\ imp' = [imp EXCEPT ![i].at = "open"]
    BY <1>3 DEF ImportOpened, store, history
  <2>2. OwnPaths' /\ SeededFirst'
    BY <2>1, <1>0 DEF OwnPaths, SeededFirst, Seeded, TypeInv, TypeOK
  <2>3. LedgerIsTheRows'
    BY <2>1 DEF LedgerInv, LedgerIsTheRows, ChargesAreTheRows, AttributionIsTheRows
  <2>4. (OneReader /\ Untouched(tx.calls, tx.rows, tx.touched \cup tx.lapsed))'
    BY <2>1 DEF OneReader, Untouched
  <2> QED
    BY <2>2, <2>3, <2>4, <1>0 DEF LedgerInv
<1>4. ASSUME NEW p \in Path, FileStep(p) PROVE LedgerInv'
  BY <1>0, <1>4, LedgerFileStep
<1>9. ASSUME ImportCommitted PROVE LedgerInv'
  BY <1>0, <1>9, LedgerCommitted
<1>10. ASSUME ImportFailed PROVE LedgerInv'
  <2>1. OwnPaths' /\ SeededFirst'
    BY <1>0, <1>10 DEF ImportFailed, OwnPaths, SeededFirst, Seeded, Idle, TypeInv, TypeOK, store
  <2> QED
    BY <2>1, <1>0, <1>10, LedgerKept DEF ImportFailed, store, history
<1>11. ASSUME NEW c \in Closer,
              CloseLooked(c) \/ CloseReadDirect(c) \/ CloseReadPots(c) \/ CloseWritten(c)
       PROVE  LedgerInv'
  BY <1>k, <1>11 DEF CloseLooked, CloseReadDirect, CloseReadPots, CloseWritten, store, history
<1>12. ASSUME Reopened PROVE LedgerInv'
  BY <1>k, <1>12 DEF Reopened, history
<1>13. ASSUME NEW r \in rules, NEW method \in Methods, SetRule(r, method) PROVE LedgerInv'
  BY <1>k, <1>13 DEF SetRule, store, history
<1>14. ASSUME UNCHANGED vars PROVE LedgerInv'
  BY <1>k, <1>14 DEF vars, store, history
<1> QED
  BY <1>1, <1>2, <1>3, <1>4, <1>9, <1>10, <1>11, <1>12, <1>13, <1>14 DEF Next, FileStep

\* deriveCharges, deriveCloudCharges, deriveAttribution: only the days an
\* import touched are derived, and every day's charges are what its rows say
\* (tokenfusefocus.go, cloudfocus.go), but for the days of rows written over
\* when a file changed between its hash and its rows.
THEOREM BooksLedgerIsTheRows == Spec => []LedgerIsTheRows
<1>1. Init => LedgerInv
  BY LedgerInit
<1>2. LedgerInv /\ [Next]_vars => LedgerInv'
  BY LedgerNext
<1>3. LedgerInv => LedgerIsTheRows
  BY DEF LedgerInv
<1> QED
  BY <1>1, <1>2, <1>3, PTL DEF Spec

-----------------------------------------------------------------------------
(***************************************************************************)
(* What the allocation adds up to. A month's named charges and its pots    *)
(* partition the bill; a placed pot's shares and its remainder are the pot;*)
(* and what each team is allocated, added up team by team, is what the     *)
(* pots hold, added up pot by pot.                                         *)
(***************************************************************************)

\* Charges with a team's number and an amount.
Counted(charges) ==
  IsFiniteSet(charges) /\ \A r \in charges : r.team \in Int /\ r.cents \in Int

\* Amounts.
Amounts(S) == IsFiniteSet(S) /\ \A r \in S : r.cents \in Int

\* One amount for each team of a desk.
Dues(D) ==
  /\ Amounts(D) /\ \A d \in D : d.team \in Int
  /\ \A d, e \in D : d.source = e.source /\ d.team = e.team => d = e

LEMMA FiniteImage ==
  ASSUME NEW S, IsFiniteSet(S), NEW f
  PROVE  IsFiniteSet({f[x] : x \in S})
<1> DEFINE T == {f[x] : x \in S}
           g == [x \in S |-> f[x]]
<1>1. g \in Surjection(S, T)
  BY DEF Surjection
<1> QED
  BY <1>1, FS_Surjection

LEMMA PartAmounts ==
  ASSUME NEW S, Amounts(S), NEW R \in SUBSET S
  PROVE  Amounts(R)
BY FS_Subset DEF Amounts

LEMMA CentsType ==
  ASSUME NEW S, Amounts(S)
  PROVE  Cents(S) \in Int
<1> DEFINE h == [r \in S |-> r.cents]
<1>1. \A r \in S : h[r] \in Int
  BY DEF Amounts
<1> HIDE DEF h
<1>2. SumFunctionOnSet(h, S) \in Int
  BY <1>1, SumType DEF Amounts
<1> QED
  BY <1>2 DEF Cents, h

LEMMA CentsSplit ==
  ASSUME NEW S, Amounts(S), NEW R \in SUBSET S, NEW Q, Q = S \ R
  PROVE  Cents(S) = Cents(R) + Cents(Q)
<1> DEFINE h == [r \in S |-> r.cents]
           hR == [r \in R |-> r.cents]
           hQ == [r \in Q |-> r.cents]
<1>1. (\A r \in S : h[r] \in Int) /\ (\A r \in R : h[r] = hR[r]) /\ (\A r \in Q : h[r] = hQ[r])
  BY DEF Amounts
<1>2. IsFiniteSet(R) /\ IsFiniteSet(Q) /\ IsFiniteSet(S)
  <2>1. Q \in SUBSET S
    OBVIOUS
  <2> QED
    BY <2>1, PartAmounts DEF Amounts
<1> HIDE DEF h, hR, hQ
<1>3. SumFunctionOnSet(h, S) = SumFunctionOnSet(h, R) + SumFunctionOnSet(h, Q)
  BY <1>1, <1>2, SumSplits
<1>4. SumFunctionOnSet(h, R) = SumFunctionOnSet(hR, R)
  BY <1>1, <1>2, SumAgrees
<1>5. SumFunctionOnSet(h, Q) = SumFunctionOnSet(hQ, Q)
  BY <1>1, <1>2, SumAgrees
<1> QED
  BY <1>3, <1>4, <1>5 DEF Cents, h, hR, hQ

\* The groups K of S, each worth what is put in it.
Grouped(S, K, c) ==
  /\ \A r \in S : c[r] \in K
  /\ \A k \in K : k.cents = Cents({r \in S : c[r] = k})

LEMMA CentsByGroup ==
  ASSUME NEW S, Amounts(S), NEW K, IsFiniteSet(K), NEW c, Grouped(S, K, c)
  PROVE  Cents(K) = Cents(S) /\ Amounts(K)
<1> DEFINE h == [r \in S |-> r.cents]
           g == [k \in K |-> k.cents]
           part(k) == {r \in S : c[r] = k}
<1>0. \A k \in K : part(k) \in SUBSET S
  OBVIOUS
<1>1. \A r \in S : c[r] \in K /\ h[r] \in Int
  BY DEF Amounts, Grouped
<1>2. ASSUME NEW k \in K PROVE g[k] = SumFunctionOnSet(h, part(k)) /\ g[k] \in Int
  <2> DEFINE hk == [r \in part(k) |-> r.cents]
  <2>1. Amounts(part(k))
    BY <1>0, PartAmounts
  <2>2. \A r \in part(k) : h[r] = hk[r]
    OBVIOUS
  <2>3. g[k] = Cents(part(k))
    BY DEF Grouped
  <2> HIDE DEF h, g, part, hk
  <2>4. SumFunctionOnSet(h, part(k)) = SumFunctionOnSet(hk, part(k))
    BY <2>1, <2>2, SumAgrees DEF Amounts
  <2>5. g[k] \in Int
    BY <2>1, <2>3, CentsType
  <2> QED
    BY <2>3, <2>4, <2>5 DEF Cents, hk
<1>3. Groups(g, h, c, S, K)
  <2> HIDE DEF h, g
  <2> QED
    BY <1>1, <1>2 DEF Groups
<1>4. SumFunctionOnSet(h, S) = SumFunctionOnSet(g, K)
  <2> HIDE DEF h, g
  <2> QED
    BY <1>3, SumByKey DEF Amounts
<1>5. Amounts(K)
  BY <1>2 DEF Amounts
<1> QED
  BY <1>4, <1>5 DEF Cents

\* directCost, for each team of each desk: together they are what has a team.
LEMMA DirectAddUp ==
  ASSUME NEW charges, Counted(charges)
  PROVE  /\ Dues(directCosts(charges))
         /\ Cents(directCosts(charges)) = Cents({r \in charges : r.team # NoTeam})
<1> DEFINE S == {r \in charges : r.team # NoTeam}
           c == [g \in S |-> directCost(S, g)]
           K == {c[g] : g \in S}
<1>1. directCosts(charges) = K
  BY Zenon DEF directCosts
<1>2. Amounts(charges) /\ S \in SUBSET charges
  BY DEF Counted, Amounts
<1>3. \A r \in S : r.team \in Int
  BY DEF Counted
<1> HIDE DEF S
<1>4. Amounts(S)
  BY <1>2, PartAmounts
<1>5. IsFiniteSet(K)
  <2> HIDE DEF c
  <2> QED
    BY <1>4, FiniteImage DEF Amounts
<1>6. \A g \in S : c[g].source = g.source /\ c[g].team = g.team
  BY DEF directCost
<1>7. ASSUME NEW g \in S, NEW e \in S, g.source = e.source, g.team = e.team
      PROVE  c[g] = c[e]
  <2>1. directCost(S, g) = directCost(S, e)
    BY <1>7, Zenon DEF directCost
  <2> QED
    BY <2>1
<1>8. ASSUME NEW k \in K PROVE k.cents = Cents({r \in S : c[r] = k})
  <2>1. PICK g \in S : k = c[g]
    OBVIOUS
  <2>2. {r \in S : c[r] = k} = {r \in S : r.source = g.source /\ r.team = g.team}
    <3> HIDE DEF c
    <3>1. \A r \in S : c[r] = k <=> r.source = g.source /\ r.team = g.team
      BY <1>6, <1>7, <2>1
    <3> QED
      BY <3>1
  <2>3. k.cents = Cents({r \in S : r.source = g.source /\ r.team = g.team})
    BY <2>1 DEF directCost
  <2> QED
    BY <2>2, <2>3
<1>9. Grouped(S, K, c)
  BY <1>8 DEF Grouped
<1>10. Cents(K) = Cents(S) /\ Amounts(K)
  <2> HIDE DEF c, K
  <2> QED
    BY <1>4, <1>5, <1>9, CentsByGroup
<1>11. Dues(K)
  <2>1. \A d \in K : d.team \in Int
    <3> HIDE DEF c
    <3> QED
      BY <1>3, <1>6
  <2>2. \A d, e \in K : d.source = e.source /\ d.team = e.team => d = e
    <3> HIDE DEF c
    <3> QED
      BY <1>6, <1>7
  <2> QED
    BY <2>1, <2>2, <1>10 DEF Dues
<1> QED
  BY <1>1, <1>10, <1>11 DEF S

\* sharedCostPot, for each category of each desk: together they are what has none.
LEMMA SharedAddUp ==
  ASSUME NEW charges, Counted(charges)
  PROVE  /\ Amounts(sharedCostPots(charges))
         /\ Cents(sharedCostPots(charges)) = Cents({r \in charges : r.team = NoTeam})
<1> DEFINE S == {r \in charges : r.team = NoTeam}
           c == [g \in S |-> sharedCostPot(S, g)]
           K == {c[g] : g \in S}
<1>1. sharedCostPots(charges) = K
  BY Zenon DEF sharedCostPots
<1>2. Amounts(charges) /\ S \in SUBSET charges
  BY DEF Counted, Amounts
<1> HIDE DEF S
<1>4. Amounts(S)
  BY <1>2, PartAmounts
<1>5. IsFiniteSet(K)
  <2> HIDE DEF c
  <2> QED
    BY <1>4, FiniteImage DEF Amounts
<1>6. \A g \in S : c[g].source = g.source /\ c[g].category = g.category
  BY DEF sharedCostPot
<1>7. ASSUME NEW g \in S, NEW e \in S, g.source = e.source, g.category = e.category
      PROVE  c[g] = c[e]
  <2>1. sharedCostPot(S, g) = sharedCostPot(S, e)
    BY <1>7, Zenon DEF sharedCostPot
  <2> QED
    BY <2>1
<1>8. ASSUME NEW k \in K PROVE k.cents = Cents({r \in S : c[r] = k})
  <2>1. PICK g \in S : k = c[g]
    OBVIOUS
  <2>2. {r \in S : c[r] = k} = {r \in S : r.source = g.source /\ r.category = g.category}
    <3> HIDE DEF c
    <3>1. \A r \in S : c[r] = k <=> r.source = g.source /\ r.category = g.category
      BY <1>6, <1>7, <2>1
    <3> QED
      BY <3>1
  <2>3. k.cents = Cents({r \in S : r.source = g.source /\ r.category = g.category})
    BY <2>1 DEF sharedCostPot
  <2> QED
    BY <2>2, <2>3
<1>9. Grouped(S, K, c)
  BY <1>8 DEF Grouped
<1>10. Cents(K) = Cents(S) /\ Amounts(K)
  <2> HIDE DEF c, K
  <2> QED
    BY <1>4, <1>5, <1>9, CentsByGroup
<1> QED
  BY <1>1, <1>10 DEF S

-----------------------------------------------------------------------------
(* One pot's split. *)

\* A finite set of numbers has a greatest and a least.
LEMMA Extremes ==
  ASSUME NEW S, IsFiniteSet(S), S \subseteq Int, S # {}
  PROVE  (\E x \in S : \A y \in S : x >= y) /\ (\E x \in S : \A y \in S : x <= y)
<1> DEFINE High(T) == \E x \in T : \A y \in T : x >= y
           Low(T) == \E x \in T : \A y \in T : x <= y
           G == {T \in SUBSET S : T # {} => High(T) /\ Low(T)}
<1>1. ASSUME NEW T \in SUBSET S, \A x \in T : T \ {x} \in G
      PROVE  T \in G
  <2>1. ASSUME T # {} PROVE High(T) /\ Low(T)
    <3>1. PICK a \in T : TRUE
      BY <2>1
    <3> DEFINE U == T \ {a}
    <3>2. U \in G
      BY <1>1
    <3>3. CASE U = {}
      BY <3>1, <3>3
    <3>4. CASE U # {}
      <4>1. High(U) /\ Low(U)
        BY <3>2, <3>4
      <4>2. PICK x \in U : \A y \in U : x >= y
        BY <4>1
      <4>3. PICK z \in U : \A y \in U : z <= y
        BY <4>1
      <4>4. High(T)
        <5>1. \A y \in T : (IF a >= x THEN a ELSE x) >= y
          BY <4>2
        <5> QED
          BY <5>1
      <4>5. Low(T)
        <5>1. \A y \in T : (IF a <= z THEN a ELSE z) <= y
          BY <4>3
        <5> QED
          BY <5>1
      <4> QED
        BY <4>4, <4>5
    <3> QED
      BY <3>3, <3>4
  <2> QED
    BY <2>1
<1>2. SUBSET S \subseteq G
  <2> HIDE DEF G
  <2> QED
    BY <1>1, SubsetInduction
<1> QED
  BY <1>2

LEMMA QuotientType ==
  ASSUME NEW a \in Int, NEW b \in Int \ {0}
  PROVE  Quotient(a, b) \in Int
<1>1. Magnitude(a) \in Int /\ Magnitude(b) \in Nat \ {0}
  BY DEF Magnitude
<1>2. Magnitude(a) \div Magnitude(b) \in Int
  BY <1>1
<1> QED
  BY <1>2 DEF Quotient

\* Somebody carries the remainder.
LEMMA BiggestBears ==
  ASSUME NEW B, Dues(B), B # {}
  PROVE  BiggestOf(B) \in B
<1> DEFINE amounts == {d.cents : d \in B}
           most == Max(amounts)
           first == IF most > 0 THEN {d \in B : d.cents = most} ELSE B
           teams == {d.team : d \in first}
<1>1. IsFiniteSet(amounts) /\ amounts \subseteq Int /\ amounts # {}
  <2> DEFINE f == [d \in B |-> d.cents]
  <2>1. amounts = {f[d] : d \in B}
    OBVIOUS
  <2>2. IsFiniteSet({f[d] : d \in B})
    <3> HIDE DEF f
    <3> QED
      BY FiniteImage DEF Dues, Amounts
  <2>3. amounts \subseteq Int /\ amounts # {}
    BY DEF Dues, Amounts
  <2> HIDE DEF amounts
  <2> QED
    BY <2>1, <2>2, <2>3
<1>2. most \in amounts
  <2> HIDE DEF amounts
  <2>1. \E x \in amounts : \A y \in amounts : x >= y
    BY <1>1, Extremes
  <2> QED
    BY <2>1 DEF Max
<1>3. first \in SUBSET B /\ first # {}
  BY <1>2
<1> HIDE DEF first
<1>4. IsFiniteSet(first) /\ \A d \in first : d.team \in Int
  BY <1>3, FS_Subset DEF Dues, Amounts
<1>5. IsFiniteSet(teams) /\ teams \subseteq Int /\ teams # {}
  <2> DEFINE f == [d \in first |-> d.team]
  <2>1. teams = {f[d] : d \in first}
    OBVIOUS
  <2>2. IsFiniteSet({f[d] : d \in first})
    <3> HIDE DEF f
    <3> QED
      BY <1>4, FiniteImage
  <2> QED
    BY <2>1, <2>2, <1>3, <1>4
<1>6. \E d \in first : \A e \in first : d.team <= e.team
  <2>1. \E x \in teams : \A y \in teams : x <= y
    <3> HIDE DEF teams
    <3> QED
      BY <1>5, Extremes
  <2> QED
    BY <2>1
<1>7. BiggestOf(B) = CHOOSE d \in first : \A e \in first : d.team <= e.team
  BY Zenon DEF BiggestOf, first
<1> QED
  BY <1>3, <1>6, <1>7

\* The shares of a pot that is placed, and the whole of it.
LEMMA BearersDue ==
  ASSUME NEW D, Dues(D), NEW p
  PROVE  Dues(Bearers(D, p))
<1>1. Bearers(D, p) \in SUBSET D
  BY DEF Bearers
<1>2. Amounts(Bearers(D, p))
  BY <1>1, PartAmounts DEF Dues
<1> QED
  BY <1>1, <1>2 DEF Dues

LEMMA ShareType ==
  ASSUME NEW B, Dues(B), NEW p, p.cents \in Int, NEW method, Basis(method, B) # 0, NEW d \in B
  PROVE  Share(method, B, p, d) \in Int
<1>1. Cents(B) \in Int /\ Cardinality(B) \in Int /\ d.cents \in Int
  BY CentsType, FS_CardinalityType DEF Dues, Amounts
<1>2. p.cents * d.cents \in Int
  BY <1>1
<1> QED
  BY <1>1, <1>2, QuotientType DEF Share, Basis

LEMMA PotSplit ==
  ASSUME NEW rs, NEW D, Dues(D), NEW p, p.cents \in Int, ~StaysUnallocated(rs, D, p),
         NEW B, B = Bearers(D, p), NEW f, \A d \in B : f[d] = Borne(rs, D, p, d)
  PROVE  /\ SumFunctionOnSet(f, B) = p.cents
         /\ \A d \in B : f[d] \in Int
<1> DEFINE share == [e \in B |-> Share(MethodOf(rs, p), B, p, e)]
           left == p.cents - SumFunctionOnSet(share, B)
           big == BiggestOf(B)
           rest == [d \in B |-> IF d = big THEN left ELSE 0]
<1>1. Dues(B) /\ B # {} /\ Basis(MethodOf(rs, p), B) # 0
  BY BearersDue DEF StaysUnallocated
<1>2. \A d \in B : share[d] \in Int
  BY <1>1, ShareType
<1>3. \A d \in B : f[d] = share[d] + rest[d]
  BY DEF Borne
<1>4. IsFiniteSet(B) /\ big \in B
  BY <1>1, BiggestBears DEF Dues, Amounts
<1>5. \A d \in B : rest[d] = IF d = big THEN left ELSE 0
  OBVIOUS
<1> HIDE DEF share, rest, big
<1>6. SumFunctionOnSet(share, B) \in Int
  BY <1>2, <1>4, SumType
<1>7. left \in Int
  BY <1>6
<1>8. \A d \in B : share[d] \in Int /\ rest[d] \in Int /\ f[d] = share[d] + rest[d]
  BY <1>2, <1>3, <1>5, <1>7
<1>9. SumFunctionOnSet(rest, B) = left
  <2> HIDE DEF left
  <2> QED
    BY <1>4, <1>5, <1>7, SumAtOne
<1>10. SumFunctionOnSet(f, B) = SumFunctionOnSet(share, B) + SumFunctionOnSet(rest, B)
  <2> HIDE DEF left
  <2> QED
    BY <1>4, <1>8, SumAdds
<1>11. \A d \in B : f[d] \in Int
  BY <1>8
<1> QED
  BY <1>6, <1>9, <1>10, <1>11

-----------------------------------------------------------------------------
(* All of them. *)

Stay(rs, D, P) == {p \in P : StaysUnallocated(rs, D, p)}
Placed(rs, D, P) == {p \in P : ~StaysUnallocated(rs, D, p)}

\* Team by team or pot by pot, what is allocated is what is placed.
LEMMA AllocatedAddUp ==
  ASSUME NEW rs, NEW D, Dues(D), NEW P, Amounts(P),
         NEW f, \A d \in D : f[d] = AllocatedTo(rs, D, P, d)
  PROVE  /\ SumFunctionOnSet(f, D) = Cents(Placed(rs, D, P))
         /\ \A d \in D : f[d] \in Int
<1> DEFINE Q == Placed(rs, D, P)
           E == {e \in D \X Q : e[2].source = e[1].source}
           g == [e \in E |-> Borne(rs, D, e[2], e[1])]
           v == [p \in Q |-> p.cents]
<1>1. Q \in SUBSET P /\ Amounts(Q) /\ \A p \in Q : ~StaysUnallocated(rs, D, p)
  <2>1. Q \in SUBSET P /\ \A p \in Q : ~StaysUnallocated(rs, D, p)
    BY DEF Placed
  <2> QED
    BY <2>1, PartAmounts
<1>2. \A p \in Q : ColumnOfPairs(E, D, p) = Bearers(D, p)
  BY DEF ColumnOfPairs, Bearers
<1>3. \A d \in D : RowOfPairs(E, Q, d) = {p \in P : p.source = d.source /\ ~StaysUnallocated(rs, D, p)}
  BY DEF RowOfPairs, Placed
<1>4. ASSUME NEW p \in Q
      PROVE  LET C == ColumnOfPairs(E, D, p)
                 h == [d \in C |-> g[<<d, p>>]]
             IN  v[p] = SumFunctionOnSet(h, C) /\ \A d \in C : g[<<d, p>>] \in Int
  <2> DEFINE C == ColumnOfPairs(E, D, p)
             h == [d \in C |-> g[<<d, p>>]]
  <2>1. \A d \in C : h[d] = Borne(rs, D, p, d)
    BY DEF ColumnOfPairs
  <2>2. C = Bearers(D, p) /\ p.cents \in Int /\ ~StaysUnallocated(rs, D, p)
    BY <1>1, <1>2 DEF Amounts
  <2>3. \A d \in C : h[d] = g[<<d, p>>]
    OBVIOUS
  <2>4. v[p] = p.cents
    OBVIOUS
  <2> HIDE DEF C, h, g, E, Q, v
  <2>5. SumFunctionOnSet(h, C) = p.cents /\ \A d \in C : h[d] \in Int
    BY <2>1, <2>2, PotSplit
  <2> QED
    BY <2>3, <2>4, <2>5 DEF h, C
<1>5. \A e \in E : g[e] \in Int
  <2>1. ASSUME NEW e \in E PROVE g[e] \in Int
    <3>1. e = <<e[1], e[2]>> /\ e[1] \in D /\ e[2] \in Q
      OBVIOUS
    <3>2. e[1] \in ColumnOfPairs(E, D, e[2])
      BY <3>1 DEF ColumnOfPairs
    <3> HIDE DEF g, E, Q
    <3> QED
      BY <3>1, <3>2, <1>4
  <2> QED
    BY <2>1
<1>6. ASSUME NEW d \in D
      PROVE  f[d] = SumFunctionOnSet([p \in RowOfPairs(E, Q, d) |-> g[<<d, p>>]],
                                     RowOfPairs(E, Q, d))
  <2> DEFINE R == {p \in P : p.source = d.source /\ ~StaysUnallocated(rs, D, p)}
  <2>1. RowOfPairs(E, Q, d) = R
    BY <1>3
  <2>2. \A p \in R : g[<<d, p>>] = Borne(rs, D, p, d)
    BY DEF Placed
  <2>3. [p \in R |-> g[<<d, p>>]] = [p \in R |-> Borne(rs, D, p, d)]
    BY <2>2
  <2>4. f[d] = SumFunctionOnSet([p \in R |-> Borne(rs, D, p, d)], R)
    BY DEF AllocatedTo
  <2> QED
    BY <2>1, <2>3, <2>4
<1>7. E \in SUBSET (D \X Q) /\ IsFiniteSet(D) /\ IsFiniteSet(Q)
  BY <1>1 DEF Dues, Amounts
<1>8. RowSums(f, g, E, D, Q)
  <2> HIDE DEF g, E, Q
  <2> QED
    BY <1>6 DEF RowSums
<1>9. ColumnSums(v, g, E, D, Q)
  <2> HIDE DEF g, E, Q, v
  <2> QED
    BY <1>4 DEF ColumnSums
<1>10. Cents(Q) = SumFunctionOnSet(v, Q)
  BY DEF Cents
<1> HIDE DEF g, E, Q, v
<1>11. SumFunctionOnSet(g, E) = SumFunctionOnSet(f, D)
  BY <1>5, <1>7, <1>8, SumRows
<1>12. SumFunctionOnSet(g, E) = SumFunctionOnSet(v, Q)
  BY <1>5, <1>7, <1>9, SumColumns
<1>13. \A d \in D : f[d] \in Int
  <2>1. ASSUME NEW d \in D PROVE f[d] \in Int
    <3> DEFINE R == RowOfPairs(E, Q, d)
               h == [p \in R |-> g[<<d, p>>]]
    <3>1. \A p \in R : h[p] \in Int
      BY <1>5 DEF RowOfPairs
    <3>2. IsFiniteSet(R)
      <4>1. R \in SUBSET Q
        BY DEF RowOfPairs
      <4> HIDE DEF R
      <4> QED
        BY <4>1, <1>7, FS_Subset
    <3>3. f[d] = SumFunctionOnSet(h, R)
      BY <1>6
    <3> HIDE DEF h, R
    <3> QED
      BY <3>1, <3>2, <3>3, SumType
  <2> QED
    BY <2>1
<1> QED
  BY <1>10, <1>11, <1>12, <1>13 DEF Q

\* Costs by team and desk.
Owed(T) ==
  /\ IsFiniteSet(T) /\ \A t \in T : t.direct \in Int /\ t.allocated \in Int
  /\ \A s, t \in T : s.source = t.source /\ s.team = t.team => s = t

LEMMA LoadedType ==
  ASSUME NEW T, Owed(T), NEW R \in SUBSET T
  PROVE  Loaded(R) \in Int
<1> DEFINE h == [t \in R |-> t.direct + t.allocated]
<1>1. IsFiniteSet(R) /\ \A t \in R : h[t] \in Int
  BY FS_Subset DEF Owed
<1> HIDE DEF h
<1>2. SumFunctionOnSet(h, R) \in Int
  BY <1>1, SumType
<1> QED
  BY <1>2 DEF Loaded, h

\* Allocate: what the teams bear and what is placed.
LEMMA TeamsAddUp ==
  ASSUME NEW rs, NEW D, Dues(D), NEW P, Amounts(P)
  PROVE  /\ Owed(TeamCosts(rs, D, P))
         /\ Loaded(TeamCosts(rs, D, P)) = Cents(D) + Cents(Placed(rs, D, P))
<1> DEFINE T == TeamCosts(rs, D, P)
           f == [d \in D |-> AllocatedTo(rs, D, P, d)]
           v == [d \in D |-> d.cents]
           h == [d \in D |-> d.cents + AllocatedTo(rs, D, P, d)]
           m == [d \in D |-> [source |-> d.source, team |-> d.team, direct |-> d.cents,
                              allocated |-> AllocatedTo(rs, D, P, d)]]
           g == [t \in T |-> t.direct + t.allocated]
<1>1. SumFunctionOnSet(f, D) = Cents(Placed(rs, D, P)) /\ \A d \in D : f[d] \in Int
  <2>1. \A d \in D : f[d] = AllocatedTo(rs, D, P, d)
    OBVIOUS
  <2> HIDE DEF f
  <2> QED
    BY <2>1, AllocatedAddUp
<1>2. IsFiniteSet(D) /\ \A d \in D : v[d] \in Int
  BY DEF Dues, Amounts
<1>3. T = {m[d] : d \in D}
  BY DEF TeamCosts
<1>4. \A d \in D : /\ m[d].source = d.source /\ m[d].team = d.team
                   /\ m[d].direct = v[d] /\ m[d].allocated = f[d]
  OBVIOUS
<1>5. \A d \in D : h[d] = v[d] + f[d]
  OBVIOUS
<1>6. \A t \in T : g[t] = t.direct + t.allocated
  OBVIOUS
<1>7. Cents(D) = SumFunctionOnSet(v, D) /\ Loaded(T) = SumFunctionOnSet(g, T)
  BY DEF Cents, Loaded
<1> HIDE DEF T, f, v, h, m, g
<1>8. \A d, e \in D : m[d] = m[e] => d = e
  BY <1>4 DEF Dues
<1>9. Renames(m, D, T)
  BY <1>3, <1>8 DEF Renames
<1>10. \A d \in D : h[d] \in Int /\ h[d] = g[m[d]]
  BY <1>1, <1>2, <1>3, <1>4, <1>5, <1>6
<1>11. SumFunctionOnSet(h, D) = SumFunctionOnSet(g, T)
  BY <1>2, <1>9, <1>10, SumRenames
<1>12. SumFunctionOnSet(h, D) = SumFunctionOnSet(v, D) + SumFunctionOnSet(f, D)
  BY <1>1, <1>2, <1>5, SumAdds
<1>13. IsFiniteSet(T)
  BY <1>2, <1>3, FiniteImage
<1>14. \A t \in T : t.direct \in Int /\ t.allocated \in Int
  BY <1>1, <1>2, <1>3, <1>4
<1>15. \A s, t \in T : s.source = t.source /\ s.team = t.team => s = t
  BY <1>3, <1>4 DEF Dues
<1> QED
  BY <1>1, <1>7, <1>11, <1>12, <1>13, <1>14, <1>15 DEF Owed, T

\* Walked a second time, the pots that stay are the same.
LEMMA UnallocatedAgree ==
  ASSUME NEW rs, NEW D, NEW P, Amounts(P)
  PROVE  Cents(UnallocatedPots(rs, D, P)) = Unallocated(rs, D, P)
<1> DEFINE why(p) ==
             CASE ruleFor(rs, p) = {} -> "no rule names this category"
               [] MethodOf(rs, p) = "unallocated" -> "the rule leaves it"
               [] Bearers(D, p) = {} -> "nothing on this desk to carry it"
               [] Basis(MethodOf(rs, p), Bearers(D, p)) = 0 -> "nets to zero"
               [] OTHER -> "placed"
           S == Stay(rs, D, P)
           U == UnallocatedPots(rs, D, P)
           m == [p \in S |-> [pot |-> p, cents |-> p.cents, reason |-> why(p)]]
           h == [p \in S |-> p.cents]
           g == [u \in U |-> u.cents]
<1>1. \A p : why(p) # "placed" <=> StaysUnallocated(rs, D, p)
  <2>1. SUFFICES ASSUME NEW p PROVE why(p) # "placed" <=> StaysUnallocated(rs, D, p)
    OBVIOUS
  <2>2. ruleFor(rs, p) = {} => MethodOf(rs, p) = "unallocated"
    BY DEF MethodOf
  <2>3. CASE ruleFor(rs, p) = {} \/ MethodOf(rs, p) = "unallocated" \/ Bearers(D, p) = {}
             \/ Basis(MethodOf(rs, p), Bearers(D, p)) = 0
    <3>1. why(p) \in {"no rule names this category", "the rule leaves it",
                      "nothing on this desk to carry it", "nets to zero"}
      BY <2>3
    <3> HIDE DEF why
    <3>2. why(p) # "placed"
      BY <3>1
    <3> QED
      BY <2>2, <2>3, <3>2 DEF StaysUnallocated
  <2>4. CASE ~(ruleFor(rs, p) = {} \/ MethodOf(rs, p) = "unallocated" \/ Bearers(D, p) = {}
               \/ Basis(MethodOf(rs, p), Bearers(D, p)) = 0)
    BY <2>4 DEF StaysUnallocated
  <2> QED
    BY <2>3, <2>4
<1>2. U = {[pot |-> p, cents |-> p.cents, reason |-> why(p)] : p \in {x \in P : why(x) # "placed"}}
  BY DEF UnallocatedPots
<1>3. \A p \in S : m[p].pot = p /\ m[p].cents = p.cents
  OBVIOUS
<1>4. U = {m[p] : p \in S}
  <2> HIDE DEF why, U
  <2> QED
    BY <1>1, <1>2 DEF Stay
<1>5. (\A p \in S : h[p] = p.cents) /\ (\A u \in U : g[u] = u.cents)
  OBVIOUS
<1>6. Amounts(S)
  <2>1. S \in SUBSET P
    BY DEF Stay
  <2> QED
    BY <2>1, PartAmounts
<1>7. Cents(U) = SumFunctionOnSet(g, U) /\ Unallocated(rs, D, P) = SumFunctionOnSet(h, S)
  BY DEF Cents, Unallocated, Stay
<1> HIDE DEF S, U, m, h, g, why
<1>8. Renames(m, S, U)
  BY <1>3, <1>4 DEF Renames
<1>9. \A p \in S : h[p] \in Int /\ h[p] = g[m[p]]
  BY <1>3, <1>4, <1>5, <1>6 DEF Amounts
<1>10. SumFunctionOnSet(h, S) = SumFunctionOnSet(g, U)
  BY <1>6, <1>8, <1>9, SumRenames DEF Amounts
<1> QED
  BY <1>7, <1>10 DEF U

\* What the teams bear and what stays is the bill.
LEMMA BillAddsUp ==
  ASSUME NEW rs, NEW charges, Counted(charges)
  PROVE  LET D == directCosts(charges)
             P == sharedCostPots(charges)
         IN  Loaded(TeamCosts(rs, D, P)) + Unallocated(rs, D, P) = Cents(charges)
<1> DEFINE D == directCosts(charges)
           P == sharedCostPots(charges)
           named == {r \in charges : r.team # NoTeam}
           shared == {r \in charges : r.team = NoTeam}
<1>1. Amounts(charges)
  BY DEF Counted, Amounts
<1>2. Dues(D) /\ Cents(D) = Cents(named)
  BY DirectAddUp
<1>3. Amounts(P) /\ Cents(P) = Cents(shared)
  BY SharedAddUp
<1>4. Cents(charges) = Cents(named) + Cents(shared)
  <2>1. named \in SUBSET charges /\ shared = charges \ named
    OBVIOUS
  <2> HIDE DEF named, shared
  <2> QED
    BY <1>1, <2>1, CentsSplit
<1> HIDE DEF D, P, named, shared
<1>5. Loaded(TeamCosts(rs, D, P)) = Cents(D) + Cents(Placed(rs, D, P))
  BY <1>2, <1>3, TeamsAddUp
<1> DEFINE S == Stay(rs, D, P)
           Q == Placed(rs, D, P)
<1>6. S \in SUBSET P /\ Q \in SUBSET P /\ Q = P \ S
  BY DEF Stay, Placed
<1>7. Unallocated(rs, D, P) = Cents(S)
  BY DEF Unallocated, Stay
<1> HIDE DEF S, Q
<1>8. Cents(P) = Cents(S) + Cents(Q)
  BY <1>3, <1>6, CentsSplit
<1>9. Cents(S) \in Int /\ Cents(Q) \in Int /\ Cents(D) \in Int
  BY <1>2, <1>3, <1>6, PartAmounts, CentsType DEF Dues
<1>10. Loaded(TeamCosts(rs, D, P)) + Unallocated(rs, D, P) = Cents(charges)
  BY <1>2, <1>3, <1>4, <1>5, <1>7, <1>8, <1>9 DEF Q
<1> QED
  BY <1>10 DEF D, P

-----------------------------------------------------------------------------
\* What was charged and how far it has moved since is what the same teams cost
\* now; the rest are the teams the close did not charge.
LEMMA TrueUpAddsUp ==
  ASSUME NEW F, Owed(F), NEW L, Owed(L),
         NEW N, N = {t \in L : \A f \in F : <<f.source, f.team>> # <<t.source, t.team>>}
  PROVE  Loaded(F) + Cents(TrueUpFor(F, L)) + Loaded(N) = Loaded(L)
<1> DEFINE Now(f) == {t \in L : t.source = f.source /\ t.team = f.team}
           S == {t \in L : \E f \in F : t.source = f.source /\ t.team = f.team}
           c == [t \in S |-> CHOOSE f \in F : t.source = f.source /\ t.team = f.team]
           U == TrueUpFor(F, L)
           m == [f \in F |-> [source |-> f.source, team |-> f.team,
                              cents |-> Loaded(Now(f)) - (f.direct + f.allocated)]]
           now == [f \in F |-> Loaded(Now(f))]
           owed == [f \in F |-> f.direct + f.allocated]
           moved == [f \in F |-> Loaded(Now(f)) - (f.direct + f.allocated)]
           cost == [t \in L |-> t.direct + t.allocated]
           g == [u \in U |-> u.cents]
<1>0. IsFiniteSet(F) /\ IsFiniteSet(L) /\ IsFiniteSet(S) /\ IsFiniteSet(N)
  <2>1. S \in SUBSET L /\ N \in SUBSET L
    OBVIOUS
  <2> HIDE DEF S
  <2> QED
    BY <2>1, FS_Subset DEF Owed
<1>1. \A f \in F : Loaded(Now(f)) \in Int /\ f.direct + f.allocated \in Int
  <2>1. \A f \in F : Now(f) \in SUBSET L
    OBVIOUS
  <2> HIDE DEF Now
  <2> QED
    BY <2>1, LoadedType DEF Owed
<1>2. \A f \in F : /\ now[f] \in Int /\ owed[f] \in Int /\ moved[f] \in Int
                   /\ now[f] = owed[f] + moved[f]
  <2> HIDE DEF Now
  <2> QED
    BY <1>1
<1>3. \A t \in S : c[t] \in F /\ t.source = c[t].source /\ t.team = c[t].team
  OBVIOUS
<1>4. \A t \in L : cost[t] \in Int
  BY DEF Owed
<1>5. ASSUME NEW f \in F
      PROVE  now[f] = SumFunctionOnSet(cost, {t \in S : c[t] = f})
  <2>1. {t \in S : c[t] = f} = Now(f)
    <3> HIDE DEF c
    <3> QED
      BY <1>3 DEF Owed
  <2> DEFINE R == Now(f)
             h == [t \in R |-> t.direct + t.allocated]
  <2>2. (\A t \in R : cost[t] = h[t]) /\ R \in SUBSET L
    OBVIOUS
  <2>3. now[f] = SumFunctionOnSet(h, R)
    BY DEF Loaded
  <2> HIDE DEF R, h, cost, now, c, S
  <2>4. IsFiniteSet(R)
    BY <2>2, <1>0, FS_Subset
  <2>5. SumFunctionOnSet(cost, R) = SumFunctionOnSet(h, R)
    BY <2>2, <2>4, SumAgrees
  <2> QED
    BY <2>1, <2>3, <2>5 DEF R
<1>6. Groups(now, cost, c, S, F)
  <2>1. S \in SUBSET L
    OBVIOUS
  <2> HIDE DEF now, cost, c, S
  <2> QED
    BY <2>1, <1>3, <1>4, <1>5 DEF Groups
<1>7. SumFunctionOnSet(cost, S) = SumFunctionOnSet(now, F)
  <2> HIDE DEF now, cost, c, S
  <2> QED
    BY <1>0, <1>6, SumByKey
<1>8. S \in SUBSET L /\ N = L \ S
  OBVIOUS
<1>9. SumFunctionOnSet(cost, L) = SumFunctionOnSet(cost, S) + SumFunctionOnSet(cost, N)
  <2> HIDE DEF cost, S
  <2> QED
    BY <1>0, <1>4, <1>8, SumSplits
<1>10. SumFunctionOnSet(now, F) = SumFunctionOnSet(owed, F) + SumFunctionOnSet(moved, F)
  <2> HIDE DEF now, owed, moved
  <2> QED
    BY <1>0, <1>2, SumAdds
<1>11. SumFunctionOnSet(moved, F) = SumFunctionOnSet(g, U)
  <2>1. U = {m[f] : f \in F}
    BY DEF TrueUpFor
  <2>2. \A f \in F : m[f].source = f.source /\ m[f].team = f.team /\ m[f].cents = moved[f]
    OBVIOUS
  <2>3. \A u \in U : g[u] = u.cents
    OBVIOUS
  <2> HIDE DEF U, m, moved, g
  <2>4. \A d, e \in F : m[d] = m[e] => d = e
    BY <2>2 DEF Owed
  <2>5. Renames(m, F, U)
    BY <2>1, <2>4 DEF Renames
  <2>6. \A f \in F : moved[f] \in Int /\ moved[f] = g[m[f]]
    BY <1>2, <2>1, <2>2, <2>3
  <2> QED
    BY <1>0, <2>5, <2>6, SumRenames
<1>12. Loaded(L) = SumFunctionOnSet(cost, L) /\ Loaded(F) = SumFunctionOnSet(owed, F)
       /\ Cents(U) = SumFunctionOnSet(g, U)
  BY DEF Loaded, Cents
<1>13. Loaded(N) = SumFunctionOnSet(cost, N)
  <2> DEFINE h == [t \in N |-> t.direct + t.allocated]
  <2>1. \A t \in N : h[t] = cost[t]
    OBVIOUS
  <2>2. Loaded(N) = SumFunctionOnSet(h, N)
    BY DEF Loaded
  <2> HIDE DEF h, cost
  <2> QED
    BY <1>0, <2>1, <2>2, SumAgrees
<1>14. SumFunctionOnSet(owed, F) \in Int /\ SumFunctionOnSet(moved, F) \in Int
       /\ SumFunctionOnSet(cost, N) \in Int
  <2> HIDE DEF owed, moved, cost
  <2> QED
    BY <1>0, <1>2, <1>4, <1>8, SumType
<1> HIDE DEF now, owed, moved, cost, g, U, S
<1> QED
  BY <1>7, <1>9, <1>10, <1>11, <1>12, <1>13, <1>14 DEF U

-----------------------------------------------------------------------------
(* What the imports and the closes write are amounts. *)

\* A family of finite sets, indexed by a finite set, joined.
LEMMA FiniteFamily ==
  ASSUME NEW I, IsFiniteSet(I), NEW F, \A i \in I : IsFiniteSet(F[i])
  PROVE  IsFiniteSet(UNION {F[i] : i \in I})
<1> DEFINE S == {F[i] : i \in I}
<1>1. IsFiniteSet(S)
  BY FiniteImage
<1>2. \A T \in S : IsFiniteSet(T)
  OBVIOUS
<1> HIDE DEF S
<1>3. IsFiniteSet(UNION S)
  BY <1>1, <1>2, FS_UNION
<1> QED
  BY <1>3 DEF S

LEMMA CentsOfType ==
  ASSUME NEW m \in Int
  PROVE  CentsOf(m) \in Int
<1>1. Magnitude(m) \in Nat /\ PerCent \in Nat \ {0}
  BY AllocationAssumption DEF Magnitude
<1>2. PerCent \div 2 \in Nat
  BY <1>1
<1>3. (Magnitude(m) + (PerCent \div 2)) \div PerCent \in Int
  BY <1>1, <1>2
<1> QED
  BY <1>3 DEF CentsOf

\* Rows of a table with the team and the micros of each.
Metered(S) == IsFiniteSet(S) /\ \A r \in S : r.line.team \in Int /\ r.line.micros \in Int

LEMMA MicrosType ==
  ASSUME NEW S, Metered(S), NEW R \in SUBSET S
  PROVE  CentsOf(Micros(R)) \in Int
<1> DEFINE h == [r \in R |-> r.line.micros]
<1>1. IsFiniteSet(R) /\ \A r \in R : h[r] \in Int
  BY FS_Subset DEF Metered
<1> HIDE DEF h
<1>2. SumFunctionOnSet(h, R) \in Int
  BY <1>1, SumType
<1>3. Micros(R) \in Int
  BY <1>2 DEF Micros, h
<1> QED
  BY <1>3, CentsOfType

\* All the rows there could be.
LEMMA RowsFinite == IsFiniteSet(AllRows) /\ IsFiniteSet(AllLines)
<1>1. IsFiniteSet(Hash) /\ IsFiniteSet(CloudPath)
  <2>1. IsFiniteSet(Export \cup Bill)
    BY BooksAssumption, FS_Union
  <2>2. IsFiniteSet((Export \cup Bill) \cup Unreadable)
    BY <2>1, BooksAssumption, FS_Union
  <2>3. CloudPath \in SUBSET Path
    BY DEF CloudPath
  <2> QED
    BY <2>2, <2>3, BooksAssumption, FS_Subset DEF Hash
<1>2. ASSUME NEW h, NEW e \in Export PROVE IsFiniteSet(RowsOf(h, e))
  <2> DEFINE S == {m \in DOMAIN Calls[e] : parseFocusRow(Calls[e][m])}
             f == [n \in S |-> <<h, n, e>>]
  <2>1. RowsOf(h, e) = {f[n] : n \in S}
    BY DEF RowsOf
  <2>2. S \in SUBSET DOMAIN Calls[e] /\ IsFiniteSet(DOMAIN Calls[e])
    BY BooksAssumption
  <2> HIDE DEF f, S
  <2>3. IsFiniteSet(S)
    BY <2>2, FS_Subset
  <2> QED
    BY <2>1, <2>3, FiniteImage
<1>3. ASSUME NEW h, NEW b \in Bill, NEW p PROVE IsFiniteSet(LinesOf(h, b, p))
  <2> DEFINE S == {m \in DOMAIN Lines[b] : parseCloudRow(Lines[b][m])}
             f == [n \in S |-> <<h, n, b, p>>]
  <2>1. LinesOf(h, b, p) = {f[n] : n \in S}
    BY DEF LinesOf
  <2>2. S \in SUBSET DOMAIN Lines[b] /\ IsFiniteSet(DOMAIN Lines[b])
    BY BooksAssumption
  <2> HIDE DEF f, S
  <2>3. IsFiniteSet(S)
    BY <2>2, FS_Subset
  <2> QED
    BY <2>1, <2>3, FiniteImage
<1>4. IsFiniteSet(AllRows)
  <2> DEFINE of(h) == [e \in Export |-> RowsOf(h, e)]
             F == [h \in Hash |-> UNION {of(h)[e] : e \in Export}]
  <2>1. \A h \in Hash : IsFiniteSet(F[h])
    <3> SUFFICES ASSUME NEW h \in Hash PROVE IsFiniteSet(UNION {of(h)[e] : e \in Export})
      OBVIOUS
    <3> DEFINE G == of(h)
    <3>1. \A e \in Export : IsFiniteSet(G[e])
      BY <1>2
    <3> HIDE DEF G
    <3>2. IsFiniteSet(Export)
      BY BooksAssumption
    <3>3. IsFiniteSet(UNION {G[e] : e \in Export})
      BY <3>1, <3>2, FiniteFamily
    <3> QED
      BY <3>3 DEF G
  <2>2. AllRows = UNION {F[h] : h \in Hash}
    BY DEF AllRows
  <2> HIDE DEF F
  <2> QED
    BY <2>1, <2>2, <1>1, FiniteFamily
<1>5. IsFiniteSet(AllLines)
  <2> DEFINE at(h, b) == [p \in CloudPath |-> LinesOf(h, b, p)]
             of(h) == [b \in Bill |-> UNION {at(h, b)[p] : p \in CloudPath}]
             F == [h \in Hash |-> UNION {of(h)[b] : b \in Bill}]
  <2>1. ASSUME NEW h, NEW b \in Bill PROVE IsFiniteSet(UNION {at(h, b)[p] : p \in CloudPath})
    <3> DEFINE G == at(h, b)
    <3>1. \A p \in CloudPath : IsFiniteSet(G[p])
      BY <1>3
    <3> HIDE DEF G
    <3>2. IsFiniteSet(UNION {G[p] : p \in CloudPath})
      BY <3>1, <1>1, FiniteFamily
    <3> QED
      BY <3>2 DEF G
  <2>2. \A h \in Hash : IsFiniteSet(F[h])
    <3> SUFFICES ASSUME NEW h \in Hash PROVE IsFiniteSet(UNION {of(h)[b] : b \in Bill})
      OBVIOUS
    <3> DEFINE G == of(h)
    <3>1. \A b \in Bill : IsFiniteSet(G[b])
      BY <2>1
    <3> HIDE DEF G
    <3>2. IsFiniteSet(Bill)
      BY BooksAssumption
    <3>3. IsFiniteSet(UNION {G[b] : b \in Bill})
      BY <3>1, <3>2, FiniteFamily
    <3> QED
      BY <3>3 DEF G
  <2>3. AllLines = UNION {F[h] : h \in Hash}
    BY DEF AllLines
  <2> HIDE DEF F
  <2> QED
    BY <2>2, <2>3, <1>1, FiniteFamily
<1> QED
  BY <1>4, <1>5

LEMMA SpentMetered ==
  ASSUME NEW held \in SUBSET AllRows, NEW d
  PROVE  Metered(Spent(held, d))
<1>1. IsFiniteSet(AllRows)
  BY RowsFinite
<1> DEFINE S == {x \in held : CallOf(x).day = d /\ ~CallOf(x).blocked /\ ~CallOf(x).fallback}
           f == [r \in S |-> [row |-> r, line |-> CallOf(r)]]
<1>2. S \in SUBSET AllRows
  OBVIOUS
<1>3. Spent(held, d) = {f[r] : r \in S}
  BY DEF Spent
<1>4. \A r \in S : f[r].line = CallOf(r)
  OBVIOUS
<1>5. \A r \in AllRows : CallOf(r).team \in Int /\ CallOf(r).micros \in Int
  BY BooksAssumption DEF AllRows, RowsOf, CallOf
<1> HIDE DEF f, S
<1>6. IsFiniteSet(S)
  BY <1>1, <1>2, FS_Subset
<1>7. IsFiniteSet(Spent(held, d))
  BY <1>3, <1>6, FiniteImage
<1> QED
  BY <1>2, <1>3, <1>4, <1>5, <1>7 DEF Metered

LEMMA BilledMetered ==
  ASSUME NEW standing \in SUBSET AllLines, NEW d
  PROVE  Metered(Billed(standing, d))
<1> DEFINE S == {x \in standing : LineOf(x).day = d}
           f == [r \in S |-> [row |-> r, line |-> LineOf(r)]]
<1>1. S \in SUBSET AllLines
  OBVIOUS
<1>2. Billed(standing, d) = {f[r] : r \in S}
  BY DEF Billed
<1>3. \A r \in S : f[r].line = LineOf(r)
  OBVIOUS
<1>4. \A r \in AllLines : LineOf(r).team \in Int /\ LineOf(r).micros \in Int
  BY BooksAssumption DEF AllLines, LinesOf, LineOf
<1> HIDE DEF f, S
<1>5. IsFiniteSet(S)
  BY <1>1, RowsFinite, FS_Subset
<1>6. IsFiniteSet(Billed(standing, d))
  BY <1>2, <1>5, FiniteImage
<1> QED
  BY <1>1, <1>2, <1>3, <1>4, <1>6 DEF Metered

\* The charges derived for a day.
LEMMA DerivedCounted ==
  ASSUME NEW reader, NEW held \in SUBSET AllRows, NEW standing \in SUBSET AllLines, NEW d
  PROVE  Counted(Derived(reader, held, standing, d))
<1>1. Counted(deriveCharges(held, d))
  <2> DEFINE S == Spent(held, d)
             t == [r \in S |-> r.line.team]
             T == {t[r] : r \in S}
             f == [x \in T |-> UsageCharge(S, d, x)]
  <2>1. Metered(S)
    BY SpentMetered
  <2>2. deriveCharges(held, d) = {f[x] : x \in T}
    BY DEF deriveCharges
  <2>3. \A r \in S : t[r] = r.line.team
    OBVIOUS
  <2>4. \A x \in T : f[x].team = x /\ f[x].cents \in Int
    <3> SUFFICES ASSUME NEW x \in T PROVE f[x].team = x /\ f[x].cents \in Int
      OBVIOUS
    <3> DEFINE R == {r \in S : r.line.team = x}
    <3>1. f[x].team = x /\ f[x].cents = CentsOf(Micros(R)) /\ R \in SUBSET S
      BY DEF UsageCharge
    <3> HIDE DEF f, R, S
    <3> QED
      BY <2>1, <3>1, MicrosType
  <2> HIDE DEF f, t, S
  <2>5. \A x \in T : x \in Int
    BY <2>1, <2>3 DEF Metered
  <2>6. IsFiniteSet(T)
    BY <2>1, FiniteImage DEF Metered
  <2> HIDE DEF T
  <2>7. IsFiniteSet({f[x] : x \in T})
    BY <2>6, FiniteImage
  <2> QED
    BY <2>2, <2>4, <2>5, <2>7 DEF Counted
<1>2. Counted(deriveCloudCharges(standing, d))
  <2> DEFINE S == Billed(standing, d)
             t == [r \in S |-> <<r.line.team, r.line.category>>]
             T == {t[r] : r \in S}
             K == {x \in T : Micros(Group(S, x)) # 0}
             f == [x \in K |-> CloudCharge(S, d, x)]
  <2>1. Metered(S)
    BY BilledMetered
  <2>2. deriveCloudCharges(standing, d) = {f[x] : x \in K}
    BY DEF deriveCloudCharges
  <2>3. \A r \in S : t[r][1] = r.line.team
    OBVIOUS
  <2>4. \A x \in K : f[x].team = x[1] /\ f[x].cents \in Int
    <3> SUFFICES ASSUME NEW x \in K PROVE f[x].team = x[1] /\ f[x].cents \in Int
      OBVIOUS
    <3>1. f[x].team = x[1] /\ f[x].cents = CentsOf(Micros(Group(S, x))) /\ Group(S, x) \in SUBSET S
      BY DEF CloudCharge, Group
    <3> HIDE DEF f, K, S
    <3> QED
      BY <2>1, <3>1, MicrosType
  <2> HIDE DEF f, t, S
  <2>5. \A x \in T : x[1] \in Int
    BY <2>1, <2>3 DEF Metered
  <2>6. IsFiniteSet(T)
    BY <2>1, FiniteImage DEF Metered
  <2>7. K \in SUBSET T
    OBVIOUS
  <2> HIDE DEF K, T
  <2>8. IsFiniteSet(K)
    BY <2>6, <2>7, FS_Subset
  <2>9. IsFiniteSet({f[x] : x \in K})
    BY <2>8, FiniteImage
  <2> QED
    BY <2>2, <2>4, <2>5, <2>7, <2>9 DEF Counted
<1> QED
  BY <1>1, <1>2 DEF Derived

-----------------------------------------------------------------------------
(***************************************************************************)
(* The invariant: the ledger counts, what was frozen is owed once by each  *)
(* team of a desk, and so is what a close in flight has read.              *)
(***************************************************************************)
ReadCounted(c) == Dues(closer[c].direct) /\ Amounts(closer[c].pots)
MoneyInv ==
  /\ TypeInv /\ Counted(ledger) /\ Owed(frozen)
  /\ \A c \in Closer : ReadCounted(c)

LEMMA NothingCounted == Dues({}) /\ Amounts({}) /\ Owed({})
BY FS_EmptySet DEF Dues, Amounts, Owed

LEMMA MoneyAddsUp == MoneyInv => TheBooksAddUp
<1> SUFFICES ASSUME MoneyInv PROVE TheBooksAddUp
  OBVIOUS
<1> DEFINE D == directCosts(ledger)
           P == sharedCostPots(ledger)
           N == {t \in Live : \A f \in frozen : <<f.source, f.team>> # <<t.source, t.team>>}
<1>1. Counted(ledger) /\ Owed(frozen)
  BY DEF MoneyInv
<1>2. Loaded(Live) + Unallocated(rules, D, P) = Cents(ledger)
  BY <1>1, BillAddsUp DEF Live
<1>3. Dues(D) /\ Amounts(P)
  BY <1>1, DirectAddUp, SharedAddUp
<1>4. Live = TeamCosts(rules, D, P)
  BY DEF Live
<1> HIDE DEF D, P
<1>5. Cents(UnallocatedPots(rules, D, P)) = Unallocated(rules, D, P)
  BY <1>3, UnallocatedAgree
<1>6. Owed(Live)
  BY <1>3, <1>4, TeamsAddUp
<1>7. Loaded(frozen) + Cents(TrueUpFor(frozen, Live)) + Loaded(N) = Loaded(Live)
  BY <1>1, <1>6, TrueUpAddsUp
<1> QED
  BY <1>2, <1>5, <1>7 DEF TheBooksAddUp, D, P

LEMMA MoneyInit == Init => MoneyInv
<1> SUFFICES ASSUME Init PROVE MoneyInv
  OBVIOUS
<1>1. TypeInv
  BY TypeInit
<1>2. Counted(ledger)
  BY BooksAssumption DEF Init, Counted
<1>3. Owed(frozen)
  BY NothingCounted DEF Init
<1>4. \A c \in Closer : ReadCounted(c)
  BY NothingCounted DEF Init, Ready, ReadCounted
<1> QED
  BY <1>1, <1>2, <1>3, <1>4 DEF MoneyInv

\* A commit keeps charges of the ledger and adds those it derives.
LEMMA CommittedCounted ==
  ASSUME TypeInv, Counted(ledger), ImportCommitted
  PROVE  Counted(ledger')
<1> DEFINE kept == IF tx.wipe THEN {r \in ledger : r.from # "generated"} ELSE ledger
           stay == {r \in kept : r.from # tx.reader \/ r.day \notin tx.touched}
           fresh == [d \in tx.touched |-> Derived(tx.reader, tx.calls, tx.rows, d)]
           more == UNION {fresh[d] : d \in tx.touched}
<1>1. /\ tx.calls \in SUBSET AllRows /\ tx.rows \in SUBSET AllLines
      /\ tx.touched \in SUBSET Day /\ IsFiniteSet(Day)
  BY BooksAssumption DEF TypeInv, TypeOK, ImportCommitted, Transaction
<1>2. ledger' = stay \cup more
  BY DEF ImportCommitted
<1>3. stay \in SUBSET ledger
  OBVIOUS
<1>4. \A d \in tx.touched : Counted(fresh[d])
  BY <1>1, DerivedCounted
<1> HIDE DEF kept, stay, fresh
<1>5. IsFiniteSet(stay)
  BY <1>3, FS_Subset DEF Counted
<1>6. IsFiniteSet(tx.touched)
  BY <1>1, FS_Subset
<1>7. IsFiniteSet(more)
  BY <1>4, <1>6, FiniteFamily DEF Counted
<1>8. \A r \in more : r.team \in Int /\ r.cents \in Int
  BY <1>4 DEF Counted
<1> HIDE DEF more
<1>9. IsFiniteSet(stay \cup more)
  BY <1>5, <1>7, FS_Union
<1> QED
  BY <1>2, <1>3, <1>8, <1>9 DEF Counted

\* A close writes each team of a desk once, over what stood for it.
LEMMA WrittenOwed ==
  ASSUME MoneyInv, NEW c \in Closer, CloseWritten(c)
  PROVE  Owed(frozen')
<1> DEFINE charged == TeamCosts(closer[c].rules, closer[c].direct, closer[c].pots)
           stay == {f \in frozen : \A t \in charged : <<t.source, t.team>> # <<f.source, f.team>>}
<1>1. frozen' = charged \cup stay
  BY DEF CloseWritten
<1>2. Owed(frozen) /\ ReadCounted(c)
  BY DEF MoneyInv
<1>3. Owed(charged)
  BY <1>2, TeamsAddUp DEF ReadCounted
<1> HIDE DEF charged
<1>4. stay \in SUBSET frozen
        /\ \A f \in stay : \A t \in charged : ~(t.source = f.source /\ t.team = f.team)
  OBVIOUS
<1> HIDE DEF stay
<1>5. IsFiniteSet(stay)
  BY <1>2, <1>4, FS_Subset DEF Owed
<1>6. IsFiniteSet(charged \cup stay)
  BY <1>3, <1>5, FS_Union DEF Owed
<1>7. \A t \in charged \cup stay : t.direct \in Int /\ t.allocated \in Int
  BY <1>2, <1>3, <1>4 DEF Owed
<1>8. \A s, t \in charged \cup stay : s.source = t.source /\ s.team = t.team => s = t
  BY <1>2, <1>3, <1>4 DEF Owed
<1> QED
  BY <1>1, <1>6, <1>7, <1>8 DEF Owed

LEMMA MoneyNext == MoneyInv /\ [Next]_vars => MoneyInv'
<1> SUFFICES ASSUME MoneyInv, [Next]_vars PROVE MoneyInv'
  OBVIOUS
<1>0. TypeInv' /\ TypeInv /\ Counted(ledger) /\ Owed(frozen) /\ \A c \in Closer : ReadCounted(c)
  BY TypeNext DEF MoneyInv
<1>k. ASSUME UNCHANGED <<ledger, frozen, closer>> PROVE MoneyInv'
  BY <1>0, <1>k DEF MoneyInv, ReadCounted
<1>1. ASSUME NEW p \in Path, NEW content \in Offers[p] \cup {Absent},
             FolderMoves(p, content)
      PROVE  MoneyInv'
  BY <1>k, <1>1 DEF FolderMoves, store
<1>2. ASSUME NEW i \in Importer, NEW reader \in Readers, NEW replace \in BOOLEAN,
             NEW folders \in Configured(reader), ImportListed(i, reader, folders, replace)
      PROVE  MoneyInv'
  BY <1>k, <1>2 DEF ImportListed, store
<1>3. ASSUME NEW i \in Importer, ImportOpened(i) PROVE MoneyInv'
  BY <1>k, <1>3 DEF ImportOpened, store
<1>5. ASSUME NEW p \in Path, FileStep(p) PROVE MoneyInv'
  BY <1>0, <1>k, <1>5, FileStepIs DEF SameImport, store
<1>6. ASSUME ImportCommitted PROVE MoneyInv'
  <2>1. Counted(ledger')
    BY <1>0, <1>6, CommittedCounted
  <2>2. frozen' \in {{}, frozen} /\ UNCHANGED closer
    BY <1>6 DEF ImportCommitted
  <2>3. Owed(frozen')
    BY <2>2, <1>0, NothingCounted
  <2> QED
    BY <2>1, <2>2, <2>3, <1>0 DEF MoneyInv, ReadCounted
<1>7. ASSUME ImportFailed PROVE MoneyInv'
  BY <1>k, <1>7 DEF ImportFailed, store
<1>c. ASSUME UNCHANGED ledger, Owed(frozen'), NEW c \in Closer,
             \A x \in Closer \ {c} : closer'[x].direct = closer[x].direct
                                     /\ closer'[x].pots = closer[x].pots,
             Dues(closer'[c].direct), Amounts(closer'[c].pots)
      PROVE  MoneyInv'
  <2>1. \A x \in Closer : Dues(closer'[x].direct) /\ Amounts(closer'[x].pots)
    BY <1>0, <1>c DEF ReadCounted
  <2> QED
    BY <2>1, <1>0, <1>c DEF MoneyInv, ReadCounted
<1>8. ASSUME NEW c \in Closer, CloseLooked(c) PROVE MoneyInv'
  <2>1. /\ UNCHANGED <<ledger, frozen>> /\ closer'[c].direct = {} /\ closer'[c].pots = {}
        /\ \A x \in Closer \ {c} : closer'[x] = closer[x]
    BY <1>0, <1>8 DEF CloseLooked, store, TypeInv, TypeOK
  <2> QED
    BY <2>1, <1>0, <1>c, NothingCounted
<1>9. ASSUME NEW c \in Closer, CloseReadDirect(c) PROVE MoneyInv'
  <2>1. /\ UNCHANGED <<ledger, frozen>> /\ closer'[c].direct = directCosts(ledger)
        /\ closer'[c].pots = closer[c].pots
        /\ \A x \in Closer \ {c} : closer'[x] = closer[x]
    BY <1>0, <1>9 DEF CloseReadDirect, store, TypeInv, TypeOK, CloserShape
  <2>2. Dues(directCosts(ledger))
    BY <1>0, DirectAddUp
  <2> QED
    BY <2>1, <2>2, <1>0, <1>c DEF ReadCounted
<1>10. ASSUME NEW c \in Closer, CloseReadPots(c) PROVE MoneyInv'
  <2>1. /\ UNCHANGED <<ledger, frozen>> /\ \A x \in Closer \ {c} : closer'[x] = closer[x]
        /\ closer'[c] = IF closer[c].direct = {} THEN Ready
                        ELSE [closer[c] EXCEPT !.at = "priced", !.pots = sharedCostPots(ledger)]
    BY <1>0, <1>10 DEF CloseReadPots, store, TypeInv, TypeOK
  <2>2. Amounts(sharedCostPots(ledger))
    BY <1>0, SharedAddUp
  <2>3. CASE closer[c].direct = {}
    <3>1. closer'[c].direct = {} /\ closer'[c].pots = {}
      BY <2>1, <2>3 DEF Ready
    <3> QED
      BY <3>1, <2>1, <1>0, <1>c, NothingCounted
  <2>4. CASE closer[c].direct # {}
    <3>1. closer'[c].direct = closer[c].direct /\ closer'[c].pots = sharedCostPots(ledger)
      BY <1>0, <2>1, <2>4 DEF TypeInv, CloserShape
    <3> QED
      BY <3>1, <2>1, <2>2, <1>0, <1>c DEF ReadCounted
  <2> QED
    BY <2>3, <2>4
<1>11. ASSUME NEW c \in Closer, CloseWritten(c) PROVE MoneyInv'
  <2>1. Owed(frozen') /\ UNCHANGED ledger
    BY <1>11, WrittenOwed DEF CloseWritten
  <2>2. closer'[c].direct = {} /\ closer'[c].pots = {}
    BY <1>11 DEF CloseWritten, Ready
  <2>3. ASSUME NEW x \in Closer \ {c}
        PROVE  closer'[x].direct = closer[x].direct /\ closer'[x].pots = closer[x].pots
    <3> DEFINE busy == closer[x].at # "idle"
    <3>1. closer'[x] = [closer[x] EXCEPT !.late = busy]
      BY <1>11 DEF CloseWritten
    <3> HIDE DEF busy
    <3> QED
      BY <3>1, <1>0 DEF TypeInv, CloserShape
  <2> QED
    BY <2>1, <2>2, <2>3, <1>0, <1>c, NothingCounted
<1>12. ASSUME Reopened PROVE MoneyInv'
  <2>1. frozen' = {} /\ UNCHANGED <<ledger, closer>>
    BY <1>12 DEF Reopened
  <2> QED
    BY <2>1, <1>0, NothingCounted DEF MoneyInv, ReadCounted
<1>13. ASSUME NEW r \in rules, NEW method \in Methods, SetRule(r, method) PROVE MoneyInv'
  BY <1>k, <1>13 DEF SetRule, store
<1>14. ASSUME UNCHANGED vars PROVE MoneyInv'
  BY <1>k, <1>14 DEF vars, store
<1> QED
  BY <1>1, <1>2, <1>3, <1>5, <1>6, <1>7, <1>8, <1>9, <1>10, <1>11, <1>12, <1>13, <1>14
     DEF Next, FileStep

\* Allocate, UnallocatedPots, TrueUpFor: the teams' loaded costs and what could
\* not be placed are the bill to the cent, and a closed month, its true-up and
\* the teams it did not charge are the live bill's placed part (allocation.go:377,
\* chargeback.go).
THEOREM BooksAddUp == Spec => []TheBooksAddUp
<1>1. Init => MoneyInv
  BY MoneyInit
<1>2. MoneyInv /\ [Next]_vars => MoneyInv'
  BY MoneyNext
<1>3. MoneyInv => TheBooksAddUp
  BY MoneyAddsUp
<1> QED
  BY <1>1, <1>2, <1>3, PTL DEF Spec
=============================================================================
