------------------------------- MODULE Books -------------------------------
(***************************************************************************)
(* The money's way through the console: export files in the folders of the *)
(* gateway and of a cloud become rows (connectors/tokenfusefocus.go,       *)
(* cloudfocus.go), the rows become the charges of their days, the charges  *)
(* become what each team owes (Allocation), and a close writes that down   *)
(* (finops/chargeback.go). One month: every operation on a period touches  *)
(* the rows of that period only, except the replacement of the generated   *)
(* estate, which empties the table.                                        *)
(*                                                                         *)
(* An import is one transaction, read here file by file, and each file     *)
(* twice: once for its hash, which its rows are filed under, and once for  *)
(* its rows; the folder may change in between. SQLite lets one transaction *)
(* write at a time and readers see what is committed. A close looks, reads *)
(* three times and writes, each on its own.                                *)
(***************************************************************************)
EXTENDS Allocation

CONSTANTS
  Importer,          \* the console's -focus-dir watcher and people's clicks
  Closer,            \* people, and options applied
  Path,              \* numbers, in the order the files are read
  MainPath, DoorPath, \* those of the gateway's two folders; the others are the cloud's
  Offers,            \* Offers[p]: what a file at p may hold
  Export, Bill,      \* the contents of gateway and of cloud files
  Unreadable,        \* those a reader does not get to the end of
  Calls, Lines,      \* the rows of each
  Door, Generation,  \* of an export: its folder's gateway, its columns; no bytes
                     \* are in both gateways' folders
  Day, Category,
  InitFolder, InitLedger, InitRules,
  Absent, NoTx,
  NoAgent,           \* of a row that names neither agent nor resource
  MaxStarts          \* bound: files moved, imports, closes and settings begun, in all

ASSUME BooksAssumption ==
  /\ Path \subseteq Nat /\ MainPath \subseteq Path /\ DoorPath \subseteq Path
  /\ \A p \in Path : Offers[p] \subseteq Unreadable \cup IF p \in MainPath \cup DoorPath THEN Export ELSE Bill
  /\ \A p \in Path : InitFolder[p] \in Offers[p] \cup {Absent}
  /\ InitFolder = [p \in Path |-> InitFolder[p]]
  /\ Absent \notin Export \cup Bill \cup Unreadable /\ Export \cap Bill = {}
  /\ Unreadable \cap (Export \cup Bill) = {}
  /\ \A p \in MainPath : \A e \in Offers[p] : Door[e] = "main"
  /\ \A p \in DoorPath : \A e \in Offers[p] : Door[e] = "openai-wire"
  /\ Generation \in [Export -> Nat]
  /\ IsFiniteSet(Export) /\ IsFiniteSet(Bill) /\ IsFiniteSet(Unreadable) /\ IsFiniteSet(Path)
  /\ IsFiniteSet(Day) /\ IsFiniteSet(InitLedger)
  /\ \A e \in Export : IsFiniteSet(DOMAIN Calls[e])
  /\ \A e \in Export : \A n \in DOMAIN Calls[e] :
       Calls[e][n].day \in Day /\ Calls[e][n].team \in Int /\ Calls[e][n].micros \in Int
  /\ \A b \in Bill : IsFiniteSet(DOMAIN Lines[b])
  /\ \A b \in Bill : \A n \in DOMAIN Lines[b] :
       Lines[b][n].day \in Day /\ Lines[b][n].team \in Int /\ Lines[b][n].micros \in Int
  /\ "Usage" \in Category
  /\ \A r \in InitLedger : /\ r.day \in Day /\ r.category \in Category
                          /\ r.from = "generated" /\ r.source \in {"ai", "aws"}
                          /\ r.team \in Int /\ r.cents \in Int
  /\ InitRules \subseteq [source : {Anywhere, "ai", "aws"}, category : Category, method : Methods]

VARIABLES
  started,           \* counts what MaxStarts bounds
  folder,            \* Path -> content
  calls,             \* ai_calls: <<hash, row number, export>>
  rows,              \* cloud_focus_rows: <<hash, row number, bill, path>>
  attribution,       \* which agent a team's AI day is put down to
  ledger,            \* charges
  rules,             \* allocation_rules
  frozen,            \* chargeback
  tx,                \* the open import
  imp, closer,
  read, imported,    \* history: exports committed; the cloud's folder as last imported
  torn, lost, lapsed, \* history: what reads filed under another content's hash have
                     \* left: those hashes, and rows and days written over
  wipedLate          \* history: an import emptied tables another had emptied before

store == <<calls, rows, attribution, ledger, frozen>>
history == <<read, imported, torn, lost, lapsed, wipedLate>>
vars == <<started, folder, store, rules, tx, imp, closer, history>>

Starts == started < MaxStarts /\ started' = started + 1

CloudPath == Path \ (MainPath \cup DoorPath)
Readers == {"gateway", "cloud"}
\* What may be configured: the second door's folder is optional.
Configured(reader) ==
  IF reader = "gateway" THEN {{MainPath}, {MainPath, DoorPath}} ELSE {{CloudPath}}
Contents(reader) == IF reader = "gateway" THEN Export ELSE Bill

\* A file's hash stands for the bytes that were hashed.
Hash == Export \cup Bill \cup Unreadable
NotRead == [hash |-> Absent, content |-> Absent]

Idle == [at |-> "idle", reader |-> "gateway", files |-> {}, wipe |-> FALSE]
Ready == [at |-> "idle", rules |-> {}, direct |-> {}, pots |-> {}, late |-> FALSE]

Init ==
  /\ started = 0 /\ folder = InitFolder
  /\ calls = {} /\ rows = {} /\ attribution = {}
  /\ ledger = InitLedger /\ frozen = {}
  /\ rules = InitRules
  /\ tx = NoTx
  /\ imp = [i \in Importer |-> Idle]
  /\ closer = [c \in Closer |-> Ready]
  /\ read = {} /\ imported = [p \in CloudPath |-> NotRead] /\ wipedLate = FALSE
  /\ torn = {} /\ lapsed = [reader \in Readers |-> {}] /\ lost = {}

\* The gateway and the cloud write, rewrite, half-write and remove files.
FolderMoves(p, content) ==
  /\ Starts /\ folder[p] # content
  /\ folder' = [folder EXCEPT ![p] = content]
  /\ UNCHANGED <<store, rules, tx, imp, closer, history>>

-----------------------------------------------------------------------------
(***************************************************************************)
(* The rows of a file stand under its hash and their numbers, and a row of *)
(* the same hash and number is written over.                               *)
(***************************************************************************)
CallOf(r) == Calls[r[3]][r[2]]
LineOf(r) == Lines[r[3]][r[2]]

\* A row refused is left out, and the file carries on.
parseFocusRow(c) == c.sound /\ c.micros >= 0 /\ c.agent # NoAgent /\ (c.blocked => c.micros = 0)
parseCloudRow(l) == l.sound /\ l.category \in Category

RowsOf(h, e) == {<<h, n, e>> : n \in {m \in DOMAIN Calls[e] : parseFocusRow(Calls[e][m])}}
LinesOf(h, b, p) == {<<h, n, b, p>> : n \in {m \in DOMAIN Lines[b] : parseCloudRow(Lines[b][m])}}

WrittenOver(held, S) == {r \in held : \E s \in S : s[1] = r[1] /\ s[2] = r[2] /\ s # r}
Upserted(held, S) == (held \ WrittenOver(held, S)) \cup S

(***************************************************************************)
(* A call in two exports of one door counts once: the copy of the newer    *)
(* export stays, and of two equally new the one read later. The rows of a  *)
(* file are those under its hash, whichever content left them there, and   *)
(* its generation is that of the header just read.                         *)
(***************************************************************************)
Copies(r, s) == CallOf(r).key = CallOf(s).key /\ Door[r[3]] = Door[s[3]]

CopiesOf(r, held, h) == {s \in held : s[1] = h /\ CallOf(s).key = CallOf(r).key}

\* Slip: only older exports give way, so two equally new ones both count.
SupersededByNewer(held, h, e) ==
  {r \in held : /\ r[1] # h /\ Door[r[3]] = Door[e] /\ Generation[r[3]] < Generation[e]
                /\ CopiesOf(r, held, h) # {}}

superseded(held, h, e) ==
  LET elsewhere == {r \in held : r[1] # h /\ Door[r[3]] = Door[e]}
      others == {r \in elsewhere : Generation[r[3]] <= Generation[e] /\ CopiesOf(r, held, h) # {}}
      newer == {r \in elsewhere : Generation[r[3]] > Generation[e]}
  IN  others \cup UNION {CopiesOf(r, held, h) : r \in newer}

-----------------------------------------------------------------------------
\* The charges of a day, from the rows that stand now. The gateway's blocked
\* calls and those at its fallback price are no spend; a cloud group of no
\* money writes no row. Rounded once, after the sum.
Micros(S) == SumFunctionOnSet([r \in S |-> r.line.micros], S)

Spent(held, d) ==
  {[row |-> r, line |-> CallOf(r)] :
     r \in {x \in held : CallOf(x).day = d /\ ~CallOf(x).blocked /\ ~CallOf(x).fallback}}

Billed(standing, d) == {[row |-> r, line |-> LineOf(r)] : r \in {x \in standing : LineOf(x).day = d}}

UsageCharge(spent, d, t) ==
  [from |-> "gateway", day |-> d, source |-> "ai", team |-> t, category |-> "Usage",
   cents |-> CentsOf(Micros({r \in spent : r.line.team = t}))]

deriveCharges(held, d) ==
  {UsageCharge(Spent(held, d), d, t) : t \in {r.line.team : r \in Spent(held, d)}}

Group(billed, g) == {r \in billed : r.line.team = g[1] /\ r.line.category = g[2]}

CloudCharge(billed, d, g) ==
  [from |-> "cloud", day |-> d, source |-> "aws", team |-> g[1], category |-> g[2],
   cents |-> CentsOf(Micros(Group(billed, g)))]

deriveCloudCharges(standing, d) ==
  LET billed == Billed(standing, d)
  IN  {CloudCharge(billed, d, g) :
         g \in {x \in {<<r.line.team, r.line.category>> : r \in billed} : Micros(Group(billed, x)) # 0}}

Derived(reader, held, standing, d) ==
  IF reader = "gateway" THEN deriveCharges(held, d) ELSE deriveCloudCharges(standing, d)

\* A team's AI day is put down to the agent that spent most of it, the first
\* by name of several.
TopAgent(spent, t) ==
  LET theirs == {r \in spent : r.line.team = t}
      of(a) == Micros({r \in theirs : r.line.agent = a})
      agents == {r.line.agent : r \in theirs}
  IN  CHOOSE a \in agents : \A b \in agents : of(a) > of(b) \/ (of(a) = of(b) /\ a <= b)

TeamDays(held, days) == UNION {{<<d, r.line.team>> : r \in Spent(held, d)} : d \in days}

deriveAttribution(standing, held, days) ==
  {a \in standing : <<a.day, a.team>> \notin TeamDays(held, days)}
  \cup {[day |-> g[1], team |-> g[2], agent |-> TopAgent(Spent(held, g[1]), g[2])] :
          g \in TeamDays(held, days)}

-----------------------------------------------------------------------------
Seeded == \E r \in ledger : r.from = "generated"

\* The reader lists its folders, each of which must hold a file, and asks whether
\* the generated estate is still there, before any transaction; without a yes to
\* its replacement it refuses.
ImportListed(i, reader, folders, replace) ==
  LET files == {p \in UNION folders : folder[p] # Absent}
  IN  /\ imp[i].at = "idle" /\ Starts
      /\ \A f \in folders : f \cap files # {}
      /\ Seeded => replace
      /\ imp' = [imp EXCEPT ![i] = [at |-> "listed", reader |-> reader, files |-> files, wipe |-> Seeded]]
      /\ UNCHANGED <<folder, store, rules, tx, closer, history>>

ImportOpened(i) ==
  /\ imp[i].at = "listed" /\ tx = NoTx
  /\ imp' = [imp EXCEPT ![i].at = "open"]
  /\ tx' = [by |-> i, reader |-> imp[i].reader, wipe |-> imp[i].wipe, left |-> imp[i].files,
            calls |-> calls, rows |-> rows, touched |-> {}, lost |-> {}, lapsed |-> {},
            found |-> [p \in Path |-> NotRead]]
  /\ UNCHANGED <<started, folder, store, rules, closer, history>>

\* The next file of the open import.
NextFile(reader, p) ==
  /\ tx # NoTx /\ tx.reader = reader
  /\ p \in tx.left /\ \A q \in tx.left : p <= q
  /\ UNCHANGED <<started, folder, store, rules, imp, closer, history>>

\* The cloud's reader passes over bytes it has hashed before in this import,
\* whether it could then read them or not.
Seen(reader, content) == reader = "cloud" /\ \E q \in Path : tx.found[q].hash = content
Hashed(p) == tx.found[p].hash # Absent

FileHashed(reader, p) ==
  /\ NextFile(reader, p) /\ ~Hashed(p)
  /\ folder[p] # Absent /\ ~Seen(reader, folder[p])
  /\ tx' = [tx EXCEPT !.found[p] = [hash |-> folder[p], content |-> Absent]]

\* A file that is gone, or hashed and then not readable to its end, is refused
\* whole and named.
FileRefused(reader, p) ==
  /\ NextFile(reader, p)
  /\ folder[p] = Absent \/ (Hashed(p) /\ folder[p] \notin Contents(reader))
  /\ tx' = [tx EXCEPT !.left = @ \ {p}]

\* The days an export disturbs: its own rows' and those of the rows removed.
daysTouched(new, gone) == {CallOf(r).day : r \in new \cup gone}

\* What is read is what the file holds now, filed under the hash taken before.
ExportRead(p) ==
  LET h == tx.found[p].hash
      e == folder[p]
      new == RowsOf(h, e)
      held == Upserted(tx.calls, new)
      gone == superseded(held, h, e)
      over == WrittenOver(tx.calls, new)
  IN  /\ NextFile("gateway", p) /\ Hashed(p) /\ e \in Export
      /\ tx' = [tx EXCEPT !.left = @ \ {p}, !.found[p].content = e,
                          !.calls = held \ gone, !.touched = @ \cup daysTouched(new, gone),
                          !.lost = @ \cup over, !.lapsed = @ \cup {CallOf(r).day : r \in over}]

LineDays(lines) == {LineOf(r).day : r \in lines}

\* Slip: the days only the replaced version had are not derived again.
LineDaysOnly(new, gone) == LineDays(new)

staleDays(new, gone) == LineDays(new \cup gone)

\* Slip: the earlier version of a rewritten file keeps its rows.
NothingReplaced(standing, p, h) == {}

\* Whose rows a bill at a path replaces: those of any other hash under that path.
ReplacedBy(standing, p, h) == {r \in standing : r[4] = p /\ r[1] # h}

BillRead(p) ==
  LET h == tx.found[p].hash
      b == folder[p]
      new == LinesOf(h, b, p)
      standing == Upserted(tx.rows, new)
      gone == ReplacedBy(standing, p, h)
  IN  /\ NextFile("cloud", p) /\ Hashed(p) /\ b \in Bill
      /\ tx' = [tx EXCEPT !.left = @ \ {p}, !.found[p].content = b,
                          !.rows = standing \ gone, !.touched = @ \cup staleDays(new, gone),
                          !.lapsed = @ \cup LineDays(WrittenOver(tx.rows, new))]

\* The same bytes a second time are passed over.
BillSeen(p) ==
  /\ NextFile("cloud", p) /\ ~Hashed(p) /\ folder[p] # Absent /\ Seen("cloud", folder[p])
  /\ tx' = [tx EXCEPT !.left = @ \ {p}, !.found[p] = [hash |-> folder[p], content |-> folder[p]]]

\* What was read is not what was hashed.
Torn(x) == x.content \notin {Absent, x.hash}

\* The charges of the days touched are derived, the generated estate is removed
\* if it was there when the import was asked for, and everything is committed.
ImportCommitted ==
  LET kept == IF tx.wipe THEN {r \in ledger : r.from # "generated"} ELSE ledger
  IN  /\ tx # NoTx /\ tx.left = {}
      /\ calls' = tx.calls /\ rows' = tx.rows
      /\ ledger' = {r \in kept : r.from # tx.reader \/ r.day \notin tx.touched}
                   \cup UNION {Derived(tx.reader, tx.calls, tx.rows, d) : d \in tx.touched}
      /\ LET standing == IF tx.wipe THEN {} ELSE attribution
         IN  attribution' = IF tx.reader = "gateway"
                            THEN deriveAttribution(standing, tx.calls, tx.touched) ELSE standing
      /\ frozen' = IF tx.wipe THEN {} ELSE frozen
      /\ read' = read \cup (Export \cap {tx.found[p].content : p \in Path})
      /\ torn' = torn \cup
                   {tx.found[p].hash : p \in {q \in Path : Torn(tx.found[q])}}
      /\ lost' = lost \cup tx.lost
      /\ lapsed' = [lapsed EXCEPT ![tx.reader] = (@ \cup tx.lapsed) \ tx.touched]
      /\ imported' = IF tx.reader = "cloud" THEN [p \in CloudPath |-> tx.found[p]] ELSE imported
      /\ wipedLate' = (wipedLate \/ (tx.wipe /\ ~Seeded))
      /\ tx' = NoTx /\ imp' = [imp EXCEPT ![tx.by] = Idle]
      /\ UNCHANGED <<started, folder, rules, closer>>

\* The journal refuses the replacement's entry, the store is busy, the process
\* dies: the transaction leaves nothing.
ImportFailed ==
  /\ tx # NoTx
  /\ tx' = NoTx /\ imp' = [imp EXCEPT ![tx.by] = Idle]
  /\ UNCHANGED <<started, folder, store, rules, closer, history>>

-----------------------------------------------------------------------------
\* Slip: a closed month may be closed again.
CloseAnyway == TRUE

IsOpen == frozen = {}

CloseLooked(c) ==
  /\ closer[c].at = "idle" /\ Starts /\ IsOpen
  /\ closer' = [closer EXCEPT ![c] = [at |-> "looked", rules |-> rules, direct |-> {},
                                      pots |-> {}, late |-> FALSE]]
  /\ UNCHANGED <<folder, store, rules, tx, imp, history>>

CloseReadDirect(c) ==
  /\ closer[c].at = "looked"
  /\ closer' = [closer EXCEPT ![c] = [@ EXCEPT !.at = "direct", !.direct = directCosts(ledger)]]
  /\ UNCHANGED <<started, folder, store, rules, tx, imp, history>>

\* A month with nothing to charge is not closed.
CloseReadPots(c) ==
  /\ closer[c].at = "direct"
  /\ closer' = [closer EXCEPT ![c] = IF closer[c].direct = {} THEN Ready
                                     ELSE [@ EXCEPT !.at = "priced", !.pots = sharedCostPots(ledger)]]
  /\ UNCHANGED <<started, folder, store, rules, tx, imp, history>>

\* Every team's row is inserted or replaced, in one transaction.
CloseWritten(c) ==
  LET charged == TeamCosts(closer[c].rules, closer[c].direct, closer[c].pots)
  IN  /\ closer[c].at = "priced" /\ tx = NoTx
      /\ frozen' = charged \cup
           {f \in frozen : \A t \in charged : <<t.source, t.team>> # <<f.source, f.team>>}
      /\ closer' = [x \in Closer |-> IF x = c THEN Ready
                                     ELSE [closer[x] EXCEPT !.late = closer[x].at # "idle"]]
      /\ UNCHANGED <<started, folder, calls, rows, attribution, ledger, rules, tx,
                     imp, history>>

\* Taking a month back needs a reason, and a month that was closed.
Reopened ==
  /\ frozen # {} /\ tx = NoTx
  /\ frozen' = {}
  /\ UNCHANGED <<started, folder, calls, rows, attribution, ledger, rules, tx,
                 imp, closer, history>>

SetRule(r, method) ==
  /\ Starts /\ tx = NoTx /\ r.method # method
  /\ rules' = (rules \ {r}) \cup {[r EXCEPT !.method = method]}
  /\ UNCHANGED <<folder, store, tx, imp, closer, history>>

Next ==
  \/ \E p \in Path : \E content \in Offers[p] \cup {Absent} : FolderMoves(p, content)
  \/ \E i \in Importer, reader \in Readers, replace \in BOOLEAN :
       \E folders \in Configured(reader) : ImportListed(i, reader, folders, replace)
  \/ \E i \in Importer : ImportOpened(i)
  \/ \E reader \in Readers, p \in Path : FileHashed(reader, p) \/ FileRefused(reader, p)
  \/ \E p \in Path : ExportRead(p) \/ BillRead(p) \/ BillSeen(p)
  \/ ImportCommitted \/ ImportFailed
  \/ \E c \in Closer : CloseLooked(c) \/ CloseReadDirect(c) \/ CloseReadPots(c) \/ CloseWritten(c)
  \/ Reopened
  \/ \E r \in rules, method \in Methods : SetRule(r, method)

Spec == Init /\ [][Next]_vars

-----------------------------------------------------------------------------
AllRows == UNION {RowsOf(h, e) : h \in Hash, e \in Export}
AllLines == UNION {LinesOf(h, b, p) : h \in Hash, b \in Bill, p \in CloudPath}
Reading == {NotRead} \cup [hash : Hash, content : Hash \cup {Absent}]
Transaction ==
  [by : Importer, reader : Readers, wipe : BOOLEAN, left : SUBSET Path, calls : SUBSET AllRows,
   rows : SUBSET AllLines, touched : SUBSET Day, lost : SUBSET AllRows, lapsed : SUBSET Day,
   found : [Path -> Reading]]

\* Every variable stays within what its table or its handler can hold; a close
\* in flight carries what its reads answered, and nothing before they did.
TypeOK ==
  /\ folder = [p \in Path |-> folder[p]]
  /\ \A p \in Path : folder[p] \in Offers[p] \cup {Absent}
  /\ calls \subseteq AllRows
  /\ rows \subseteq AllLines
  /\ \A a \in attribution : a.day \in Day
  /\ \A r \in ledger : /\ r.day \in Day /\ r.category \in Category
                       /\ r.from \in Readers \cup {"generated"} /\ r.source \in {"ai", "aws"}
  /\ \A f \in frozen : f.source \in {"ai", "aws"} /\ f.team # NoTeam
  /\ rules \subseteq [source : {Anywhere, "ai", "aws"}, category : Category, method : Methods]
  /\ read \subseteq Export /\ imported \in [CloudPath -> Reading]
  /\ torn \subseteq Hash /\ lost \subseteq AllRows /\ lapsed \in [Readers -> SUBSET Day]
  /\ imp \in [Importer -> [at : {"idle", "listed", "open"}, reader : Readers,
                           files : SUBSET Path, wipe : BOOLEAN]]
  /\ tx # NoTx => tx \in Transaction /\ tx.left \subseteq imp[tx.by].files
                  /\ imp[tx.by].at = "open" /\ tx.reader = imp[tx.by].reader /\ tx.wipe = imp[tx.by].wipe
  /\ closer = [c \in Closer |-> closer[c]]
  /\ \A c \in Closer :
       /\ closer[c].at \in {"idle", "looked", "direct", "priced"} /\ closer[c].late \in BOOLEAN
       /\ \A d \in closer[c].direct : d.source \in {"ai", "aws"} /\ d.team # NoTeam
       /\ \A p \in closer[c].pots : p.source \in {"ai", "aws"} /\ p.category \in Category
       /\ closer[c].at \in {"idle", "looked"} => closer[c].direct = {}
       /\ closer[c].at # "priced" => closer[c].pots = {}

\* supersede: "The order the folder is read in therefore does not decide which
\* copy is kept" (tokenfusefocus.go:1432). However exports are rewritten, also
\* between their hash and their rows, read again or read in another order: two
\* hashes of one door never both count a call, and none is lost: each call of every
\* export committed stands in a copy at least as new, unless a row of it has been
\* written over by another content's under the same hash.
EachCallStandsOnce ==
  /\ \A r, s \in calls : r[1] # s[1] => ~Copies(r, s)
  /\ \A e \in read : \A r \in RowsOf(e, e) :
       \/ \E s \in lost : Copies(r, s)
       \/ \E s \in calls : Copies(r, s) /\ Generation[s[3]] >= Generation[e]

\* deriveCharges and deriveCloudCharges: only the days an import touched are
\* derived, yet every day's charges are what its rows add up to, the days of
\* rows another file displaced included; all but the days of rows written over
\* by another content's, until an import touches them again.
ChargesAreTheRows ==
  \A reader \in Readers : \A d \in Day \ lapsed[reader] :
    {r \in ledger : r.from = reader /\ r.day = d} = Derived(reader, calls, rows, d)

\* deriveAttribution: on those days, every team's AI day is put down to the agent
\* that spent most of it, unless an import emptied the table late.
AttributionIsTheRows ==
  wipedLate \/ \A g \in TeamDays(calls, Day \ lapsed["gateway"]) :
    {a.agent : a \in {x \in attribution : x.day = g[1] /\ x.team = g[2]}}
      = {TopAgent(Spent(calls, g[1]), g[2])}

\* What the imports derive is what their rows say, for money and for agents
\* (tokenfusefocus.go, cloudfocus.go).
LedgerIsTheRows == ChargesAreTheRows /\ AttributionIsTheRows

Standing(p) == {r \in rows : r[4] = p}

\* Another path of the same import held the same bytes before this one.
Twin(p) == \E q \in CloudPath : q < p /\ imported[q].hash = imported[p].hash

\* processCloudFile: after an import, what a file read to its end held stands
\* under its path and the hash taken of it, an earlier version having been
\* replaced: nothing under another hash stands there, and nothing but that
\* content unless some content was filed under that hash that is not the hash's.
\* Excepted is a file passed over because an earlier one had the same bytes.
RevisionReplacesUnlessTwin ==
  \A p \in CloudPath :
    LET h == imported[p].hash
        b == imported[p].content
    IN  b \in Bill /\ ~Twin(p) =>
          /\ LinesOf(h, b, p) \subseteq Standing(p)
          /\ \A r \in Standing(p) : r[1] = h
          /\ h \notin torn => Standing(p) = LinesOf(h, b, p)

\* "Those rows are removed so the period is not counted twice"
\* (cloudfocus.go:564): once a rewritten file has been imported, no row of what
\* it held before is left under its path; said of runs in which no file changed
\* between its hash and its rows.
RevisionReplaces ==
  torn = {} => \A p \in CloudPath :
    imported[p].content \in Bill => \A r \in Standing(p) : r[1] = imported[p].hash

Live == TeamCosts(rules, directCosts(ledger), sharedCostPots(ledger))

\* Allocate: "a chargeback that does not add up to the invoice is one finance
\* sends back" (allocation.go:377). Whatever was imported and however the rules
\* stand, the teams' loaded costs and the unallocated pots are the bill to the
\* cent; the second walk over the pots finds the same remainder; and a closed
\* month, its true-up and what teams it did not charge have cost since are the
\* live bill's placed part.
TheBooksAddUp ==
  LET left == Unallocated(rules, directCosts(ledger), sharedCostPots(ledger))
      newcomers == {t \in Live : \A f \in frozen : <<f.source, f.team>> # <<t.source, t.team>>}
  IN  /\ Loaded(Live) + left = Cents(ledger)
      /\ Cents(UnallocatedPots(rules, directCosts(ledger), sharedCostPots(ledger))) = left
      /\ frozen # {} =>
           Loaded(frozen) + Cents(TrueUpFor(frozen, Live)) + Loaded(newcomers) = Loaded(Live)

\* Close: "The amounts are written down as they are at this moment and never
\* recomputed" (chargeback.go:37). A frozen row changes or goes only when the
\* month is reopened, when the generated estate is replaced, or when a close
\* writes that had looked before another wrote: the one window the check leaves.
FrozenStays ==
  [][\/ frozen \subseteq frozen'
     \/ Reopened
     \/ ImportCommitted /\ tx.wipe
     \/ \E c \in Closer : closer[c].late /\ CloseWritten(c)]_vars
=============================================================================
