---------------------------- MODULE JournalProofs ----------------------------
(***************************************************************************)
(* Module Journal for every choice of its constants: the file is readable  *)
(* and agrees with what the outside world saw, or it is not readable at    *)
(* all; and the journal implements module Operations.                      *)
(***************************************************************************)
EXTENDS JournalLedger, TLAPS

Opened == phase \in {"open", "compact"}

(* What a ledger must say about the effects that happened and the answers  *)
(* that were given.                                                        *)
Agrees(l) ==
  \A k \in Keys :
    /\ effects[k] > 0 => l.request[k] # None
    /\ answers[k] # {} => answers[k] = {l.receipt[k]}
    /\ l.receipt[k] # None => effects[k] = 1
    /\ k \in l.acknowledged => l.receipt[k] # None

(* What a ledger must say about the instances that ever owned the journal. *)
OwnerOK(l) ==
  IF l.owner = None
    THEN \A e \in Epochs : owned[e] = {}
    ELSE /\ owned[l.owner.owner_epoch] \subseteq {l.owner.instance}
         /\ \A e \in Epochs : e > l.owner.owner_epoch => owned[e] = {}

(* What a ledger must hold of the memory of an open journal.               *)
Mirrors(l) ==
  /\ l.owner = journal.owner
  /\ \A k \in Keys :
       /\ journal.request[k] # None => l.request[k] = journal.request[k]
       /\ journal.receipt[k] # None => l.receipt[k] = journal.receipt[k]
       /\ k \in journal.acknowledged => k \in l.acknowledged

GoodFile(file) ==
  file.state = "whole" =>
    /\ Agrees(file.ledger)
    /\ OwnerOK(file.ledger)
    /\ Opened => Mirrors(file.ledger)

CallerOK ==
  \A k \in Keys :
    /\ phase # "open" => caller[k] = "idle"
    /\ caller[k] \in {"granted", "ran"} =>
         journal.request[k] # None /\ journal.receipt[k] = None
    /\ caller[k] = "granted" => effects[k] = 0
    /\ caller[k] = "ran" => effects[k] = 1
    /\ caller[k] = "delivered" => journal.receipt[k] # None

(* Between reading the file and owning it, memory is what was read but for *)
(* the owner to be and the handles being closed.                           *)
ValidatedOK ==
  phase = "validated" =>
    /\ stream.state = "whole"
    /\ journal.owner # None
    /\ journal.request = stream.ledger.request
    /\ journal.receipt = stream.ledger.receipt
    /\ journal.acknowledged = stream.ledger.acknowledged
    /\ owned[journal.owner.owner_epoch] = {}
    /\ \A e \in Epochs : e > journal.owner.owner_epoch => owned[e] = {}

OpenedOK ==
  Opened =>
    /\ journal.owner # None
    /\ owned[journal.owner.owner_epoch] = {journal.owner.instance}
    /\ \A e \in Epochs : e > journal.owner.owner_epoch => owned[e] = {}

OutsideOK ==
  \A k \in Keys :
    /\ effects[k] \in {0, 1}
    /\ answers[k] # {} => effects[k] = 1

IInv ==
  /\ TypeOK
  /\ OutsideOK
  /\ phase # "down" => Agrees(journal)
  /\ CallerOK
  /\ ValidatedOK
  /\ OpenedOK
  /\ GoodFile(stream)
  /\ GoodFile(synced)

-----------------------------------------------------------------------------
(* Files                                                                   *)

Records ==
  {Header(o) : o \in Owners}
    \cup {IntentRecord(k, q) : k \in Keys, q \in Requests}
    \cup {ReceiptRecord(k, r) : k \in Keys, r \in Receipts}
    \cup {AckRecord(k) : k \in Keys}
    \cup {HandleRecord(h, s) : h \in Handles, s \in HandleStates}
    \cup {CleanRecord}

(* What each record does to the ledger it is restored into.                *)

LEMMA RestoreHeader ==
  ASSUME NEW l \in Ledgers, NEW o \in Owners
  PROVE  /\ Restore(l, Header(o)) =
              [l EXCEPT !.owner = o, !.clean = FALSE]
         /\ Restore(l, Header(o)) \in Ledgers
<1> DEFINE record == Header(o)
<1>1. record.kind = "header" /\ record.owner = o
  BY DEF Header
<1>2. Restore(l, record) =
              [l EXCEPT !.owner = o, !.clean = FALSE]
  <2> HIDE DEF record
  <2> QED BY <1>1 DEF Restore
<1>3. QED
  BY <1>2 DEF Ledgers, HandleStates

LEMMA RestoreIntent ==
  ASSUME NEW l \in Ledgers, NEW k \in Keys, NEW q \in Requests
  PROVE  /\ Restore(l, IntentRecord(k, q)) =
              [l EXCEPT !.request = [@ EXCEPT ![k] = q],
                        !.receipt = [@ EXCEPT ![k] = None],
                        !.acknowledged = @ \ {k}]
         /\ Restore(l, IntentRecord(k, q)) \in Ledgers
<1> DEFINE record == IntentRecord(k, q)
<1>1. record.kind = "intent" /\ record.key = k /\ record.request = q
  BY DEF IntentRecord
<1>2. Restore(l, record) =
              [l EXCEPT !.request = [@ EXCEPT ![k] = q],
                        !.receipt = [@ EXCEPT ![k] = None],
                        !.acknowledged = @ \ {k}]
  <2> HIDE DEF record
  <2> QED BY <1>1 DEF Restore
<1>3. /\ [l.request EXCEPT ![k] = q] \in [Keys -> Requests \cup {None}]
      /\ [l.receipt EXCEPT ![k] = None] \in [Keys -> Receipts \cup {None}]
      /\ l.acknowledged \ {k} \in SUBSET Keys
  BY DEF Ledgers
<1>4. QED
  BY <1>2, <1>3 DEF Ledgers

LEMMA RestoreReceipt ==
  ASSUME NEW l \in Ledgers, NEW k \in Keys, NEW r \in Receipts
  PROVE  /\ Restore(l, ReceiptRecord(k, r)) =
              [l EXCEPT !.receipt = [@ EXCEPT ![k] = r]]
         /\ Restore(l, ReceiptRecord(k, r)) \in Ledgers
<1> DEFINE record == ReceiptRecord(k, r)
<1>1. record.kind = "receipt" /\ record.key = k /\ record.receipt = r
  BY DEF ReceiptRecord
<1>2. Restore(l, record) =
              [l EXCEPT !.receipt = [@ EXCEPT ![k] = r]]
  <2> HIDE DEF record
  <2> QED BY <1>1 DEF Restore
<1>3. QED
  BY <1>2 DEF Ledgers, HandleStates

LEMMA RestoreAck ==
  ASSUME NEW l \in Ledgers, NEW k \in Keys
  PROVE  /\ Restore(l, AckRecord(k)) =
              [l EXCEPT !.acknowledged = @ \cup {k}]
         /\ Restore(l, AckRecord(k)) \in Ledgers
<1> DEFINE record == AckRecord(k)
<1>1. record.kind = "ack" /\ record.key = k
  BY DEF AckRecord
<1>2. Restore(l, record) =
              [l EXCEPT !.acknowledged = @ \cup {k}]
  <2> HIDE DEF record
  <2> QED BY <1>1 DEF Restore
<1>3. QED
  BY <1>2 DEF Ledgers, HandleStates

LEMMA RestoreHandle ==
  ASSUME NEW l \in Ledgers, NEW h \in Handles, NEW s \in HandleStates
  PROVE  /\ Restore(l, HandleRecord(h, s)) =
              [l EXCEPT !.handles = [@ EXCEPT ![h] = s]]
         /\ Restore(l, HandleRecord(h, s)) \in Ledgers
<1> DEFINE record == HandleRecord(h, s)
<1>1. record.kind = "handle" /\ record.id = h /\ record.status = s
  BY DEF HandleRecord
<1>2. Restore(l, record) =
              [l EXCEPT !.handles = [@ EXCEPT ![h] = s]]
  <2> HIDE DEF record
  <2> QED BY <1>1 DEF Restore
<1>3. QED
  BY <1>2 DEF Ledgers, HandleStates

LEMMA RestoreClean ==
  ASSUME NEW l \in Ledgers
  PROVE  /\ Restore(l, CleanRecord) = [l EXCEPT !.clean = TRUE]
         /\ Restore(l, CleanRecord) \in Ledgers
<1>1. Restore(l, CleanRecord) = [l EXCEPT !.clean = TRUE]
  BY DEF Restore, CleanRecord
<1>2. QED
  BY <1>1 DEF Ledgers

LEMMA RestoreType ==
  ASSUME NEW l \in Ledgers, NEW record \in Records
  PROVE  Restore(l, record) \in Ledgers
<1>1. CASE \E o \in Owners : record = Header(o)
  BY <1>1, RestoreHeader
<1>2. CASE \E k \in Keys, q \in Requests : record = IntentRecord(k, q)
  BY <1>2, RestoreIntent
<1>3. CASE \E k \in Keys, r \in Receipts : record = ReceiptRecord(k, r)
  BY <1>3, RestoreReceipt
<1>4. CASE \E k \in Keys : record = AckRecord(k)
  BY <1>4, RestoreAck
<1>5. CASE \E h \in Handles, s \in HandleStates : record = HandleRecord(h, s)
  BY <1>5, RestoreHandle
<1>6. CASE record = CleanRecord
  BY <1>6, RestoreClean
<1>7. QED
  BY <1>1, <1>2, <1>3, <1>4, <1>5, <1>6 DEF Records

LEMMA FileType ==
  ASSUME NEW f \in Files, NEW record \in Records
  PROVE  /\ Line(f, record) \in Files
         /\ Torn(f) \in Files
<1>1. Restore(f.ledger, record) \in Ledgers
  BY RestoreType DEF Files
<1>2. QED
  BY <1>1 DEF Files, Line, Torn

(* A step that leaves the outside world and the owners alone, and memory   *)
(* alone or gone, leaves every good file good.                             *)
LEMMA GoodFileStable ==
  ASSUME NEW f, GoodFile(f),
         UNCHANGED <<effects, answers, owned>>,
         UNCHANGED <<phase, journal>> \/ phase' = "down"
  PROVE  GoodFile(f)'
BY DEF GoodFile, Agrees, OwnerOK, Mirrors, Opened

LEMMA TornGood ==
  ASSUME NEW f \in Files
  PROVE  GoodFile(Torn(f))
BY DEF GoodFile, Torn, Files

(* A record keeps files good when restoring it keeps every ledger in       *)
(* agreement with the outside, the owners and an open journal's memory.    *)
GoodLedger(l) == Agrees(l) /\ OwnerOK(l) /\ (Opened => Mirrors(l))

Keeps(record) ==
  \A l \in Ledgers : GoodLedger(l) => GoodLedger(Restore(l, record))

LEMMA LineGood ==
  ASSUME NEW f \in Files, GoodFile(f), NEW record, Keeps(record)
  PROVE  GoodFile(Line(f, record))
<1>1. CASE f.state = "whole"
  <2>1. f.ledger \in Ledgers /\ GoodLedger(f.ledger)
    BY <1>1 DEF Files, GoodFile, GoodLedger
  <2>2. GoodLedger(Restore(f.ledger, record))
    BY <2>1 DEF Keeps
  <2>3. Line(f, record).ledger = Restore(f.ledger, record)
    BY <1>1 DEF Line, Files
  <2>4. QED
    BY <2>2, <2>3 DEF GoodFile, GoodLedger
<1>2. CASE f.state # "whole"
  BY <1>2 DEF Line, Files, GoodFile
<1>3. QED
  BY <1>1, <1>2

LEMMA AppendFailedGood ==
  ASSUME stream \in Files, synced \in Files,
         GoodFile(stream), GoodFile(synced),
         NEW record \in Records, Keeps(record), AppendFailed(record),
         UNCHANGED <<effects, answers, owned>>,
         UNCHANGED <<phase, journal>> \/ phase' = "down"
  PROVE  /\ stream' \in Files /\ synced' \in Files
         /\ GoodFile(stream)' /\ GoodFile(synced)'
<1> DEFINE Options == {stream, synced, Torn(stream), Torn(synced),
                       Line(stream, record)}
<1>1. stream' \in Options /\ synced' \in Options
  BY DEF AppendFailed, durable
<1>2. \A f \in Options : f \in Files /\ GoodFile(f)
  BY FileType, TornGood, LineGood
<1>3. \A f \in Options : GoodFile(f)'
  <2> HIDE DEF Options
  <2>1. SUFFICES ASSUME NEW f \in Options PROVE GoodFile(f)'
    OBVIOUS
  <2>2. GoodFile(f)
    BY <1>2
  <2> QED
    BY <2>2, GoodFileStable
<1> HIDE DEF Options
<1>4. QED
  BY <1>1, <1>2, <1>3 DEF GoodFile, Agrees, OwnerOK, Mirrors, Opened

LEMMA AppendedGood ==
  ASSUME stream \in Files, GoodFile(stream),
         NEW record \in Records, Keeps(record), Appended(record),
         UNCHANGED <<effects, answers, owned>>,
         Opened' => Opened,
         Opened => \A l \in Ledgers :
                     Mirrors(l) => Mirrors(Restore(l, record))'
  PROVE  /\ stream' \in Files /\ synced' \in Files
         /\ GoodFile(stream)' /\ GoodFile(synced)'
<1>1. stream' = Line(stream, record) /\ synced' = Line(stream, record)
  BY DEF Appended
<1>2. Line(stream, record) \in Files
  BY FileType
<1>3. GoodFile(stream)'
  <2>1. CASE stream.state = "whole"
    <3> DEFINE l == Restore(stream.ledger, record)
    <3>1. stream' = [stream EXCEPT !.ledger = l]
      BY <1>1, <2>1 DEF Line
    <3>2. stream.ledger \in Ledgers /\ stream'.ledger = l
      BY <3>1 DEF Files
    <3>3. GoodLedger(stream.ledger)
      BY <2>1 DEF GoodFile, GoodLedger
    <3>4. GoodLedger(l)
      BY <3>2, <3>3 DEF Keeps
    <3>5. Agrees(stream.ledger)'
      BY <3>2, <3>4 DEF Agrees, GoodLedger
    <3>6. OwnerOK(stream.ledger)'
      BY <3>2, <3>4 DEF OwnerOK, GoodLedger
    <3>7. Opened' => Mirrors(stream.ledger)'
      BY <3>2, <3>3 DEF GoodLedger, Mirrors
    <3>8. QED
      BY <3>5, <3>6, <3>7 DEF GoodFile
  <2>2. CASE stream.state # "whole"
    BY <1>1, <2>2 DEF GoodFile, Line, Files
  <2>3. QED
    BY <2>1, <2>2
<1>4. QED
  BY <1>1, <1>2, <1>3 DEF GoodFile, Agrees, OwnerOK, Mirrors, Opened

-----------------------------------------------------------------------------
(* Why each record keeps files good when it is written.                    *)

LEMMA KeepsHandle ==
  ASSUME NEW h \in Handles, NEW s \in HandleStates
  PROVE  Keeps(HandleRecord(h, s))
<1>1. SUFFICES ASSUME NEW l \in Ledgers, GoodLedger(l)
               PROVE  GoodLedger(Restore(l, HandleRecord(h, s)))
  BY DEF Keeps
<1>2. Restore(l, HandleRecord(h, s)) =
        [l EXCEPT !.handles = [@ EXCEPT ![h] = s]]
  BY RestoreHandle
<1>3. QED
  BY <1>1, <1>2 DEF GoodLedger, Agrees, OwnerOK, Mirrors, Ledgers

LEMMA KeepsClean == Keeps(CleanRecord)
<1>1. SUFFICES ASSUME NEW l \in Ledgers, GoodLedger(l)
               PROVE  GoodLedger(Restore(l, CleanRecord))
  BY DEF Keeps
<1>2. Restore(l, CleanRecord) = [l EXCEPT !.clean = TRUE]
  BY RestoreClean
<1>3. QED
  BY <1>1, <1>2 DEF GoodLedger, Agrees, OwnerOK, Mirrors, Ledgers

(* The owner to be is newer than every owner there was.                    *)
LEMMA KeepsHeader ==
  ASSUME IInv, phase = "validated"
  PROVE  /\ journal.owner \in Owners
         /\ Keeps(Header(journal.owner))
<1>1. journal.owner \in Owners
  BY DEF IInv, TypeOK, ValidatedOK, Ledgers
<1>2. SUFFICES ASSUME NEW l \in Ledgers, GoodLedger(l)
               PROVE  GoodLedger(Restore(l, Header(journal.owner)))
  BY <1>1 DEF Keeps
<1>3. Restore(l, Header(journal.owner)) =
        [l EXCEPT !.owner = journal.owner, !.clean = FALSE]
  BY <1>1, RestoreHeader
<1>4. ~Opened
  BY DEF Opened
<1>5. QED
  BY <1>1, <1>2, <1>3, <1>4
     DEF GoodLedger, Agrees, OwnerOK, Ledgers, IInv, ValidatedOK

(* An operation the open journal does not hold never ran and was never     *)
(* answered, so there is nothing its intent could hide.                    *)
LEMMA KeepsIntent ==
  ASSUME IInv, phase = "open",
         NEW k \in Keys, NEW q \in Requests, journal.request[k] = None
  PROVE  /\ Keeps(IntentRecord(k, q))
         /\ effects[k] = 0 /\ answers[k] = {}
         /\ journal.receipt[k] = None /\ k \notin journal.acknowledged
<1>1. Agrees(journal)
  BY DEF IInv
<1>2. effects[k] = 0 /\ answers[k] = {}
  BY <1>1 DEF IInv, OutsideOK, Agrees
<1>3. journal.receipt[k] = None /\ k \notin journal.acknowledged
  BY <1>1, <1>2 DEF Agrees
<1>4. ASSUME NEW l \in Ledgers, GoodLedger(l)
      PROVE  GoodLedger(Restore(l, IntentRecord(k, q)))
  <2> DEFINE m == [l EXCEPT !.request = [@ EXCEPT ![k] = q],
                            !.receipt = [@ EXCEPT ![k] = None],
                            !.acknowledged = @ \ {k}]
  <2>1. Restore(l, IntentRecord(k, q)) = m
    BY RestoreIntent
  <2>2. /\ m.owner = l.owner
        /\ m.request = [l.request EXCEPT ![k] = q]
        /\ m.receipt = [l.receipt EXCEPT ![k] = None]
        /\ m.acknowledged = l.acknowledged \ {k}
    BY DEF Ledgers
  <2>3. q # None
    BY JournalAssumption
  <2> HIDE DEF m
  <2>4. Agrees(m)
    BY <1>2, <1>4, <2>2, <2>3 DEF GoodLedger, Agrees, Ledgers
  <2>5. OwnerOK(m)
    BY <1>4, <2>2 DEF GoodLedger, OwnerOK
  <2>6. Opened => Mirrors(m)
    BY <1>3, <1>4, <2>2 DEF GoodLedger, Mirrors, Ledgers
  <2>7. QED
    BY <2>1, <2>4, <2>5, <2>6 DEF GoodLedger
<1>5. QED
  BY <1>2, <1>3, <1>4 DEF Keeps

LEMMA KeepsReceipt ==
  ASSUME IInv, phase = "open", NEW k \in Keys, NEW r \in Receipts,
         caller[k] = "ran"
  PROVE  /\ Keeps(ReceiptRecord(k, r))
         /\ journal.receipt[k] = None
         /\ effects[k] = 1 /\ answers[k] = {}
<1>1. /\ effects[k] = 1
      /\ journal.receipt[k] = None
      /\ journal.request[k] # None
  BY DEF IInv, CallerOK
<1>2. answers[k] = {}
  <2>1. answers[k] # {} => None \in answers[k]
    BY <1>1 DEF IInv, Agrees
  <2>2. answers[k] \subseteq Receipts
    BY DEF IInv, TypeOK
  <2>3. QED
    BY <2>1, <2>2, JournalAssumption
<1>3. ASSUME NEW l \in Ledgers, GoodLedger(l)
      PROVE  GoodLedger(Restore(l, ReceiptRecord(k, r)))
  <2> DEFINE m == [l EXCEPT !.receipt = [@ EXCEPT ![k] = r]]
  <2>1. Restore(l, ReceiptRecord(k, r)) = m
    BY RestoreReceipt
  <2>2. /\ m.owner = l.owner
        /\ m.request = l.request
        /\ m.receipt = [l.receipt EXCEPT ![k] = r]
        /\ m.acknowledged = l.acknowledged
    BY DEF Ledgers
  <2>3. r # None
    BY JournalAssumption
  <2> HIDE DEF m
  <2>4. Agrees(m)
    BY <1>1, <1>2, <1>3, <2>2, <2>3 DEF GoodLedger, Agrees, Ledgers
  <2>5. OwnerOK(m)
    BY <1>3, <2>2 DEF GoodLedger, OwnerOK
  <2>6. Opened => Mirrors(m)
    BY <1>1, <1>3, <2>2 DEF GoodLedger, Mirrors, Ledgers
  <2>7. QED
    BY <2>1, <2>4, <2>5, <2>6 DEF GoodLedger
<1>4. QED
  BY <1>1, <1>2, <1>3 DEF Keeps

LEMMA KeepsAck ==
  ASSUME IInv, phase = "open", NEW k \in Keys, caller[k] = "delivered"
  PROVE  Keeps(AckRecord(k))
<1>1. journal.receipt[k] # None
  BY DEF IInv, CallerOK
<1>2. SUFFICES ASSUME NEW l \in Ledgers, GoodLedger(l)
               PROVE  GoodLedger(Restore(l, AckRecord(k)))
  BY DEF Keeps
<1>3. Restore(l, AckRecord(k)) = [l EXCEPT !.acknowledged = @ \cup {k}]
  BY RestoreAck
<1>4. l.receipt[k] # None
  BY <1>1, <1>2 DEF GoodLedger, Mirrors, Opened
<1>5. QED
  BY <1>2, <1>3, <1>4 DEF GoodLedger, Agrees, OwnerOK, Mirrors, Ledgers

-----------------------------------------------------------------------------
(* The inductive invariant, action by action.                              *)

LEMMA EmptyLedgerType == EmptyLedger \in Ledgers
BY DEF EmptyLedger, Ledgers, HandleStates

LEMMA InitIInv == Init => IInv
<1>1. SUFFICES ASSUME Init PROVE IInv
  OBVIOUS
<1>2. TypeOK
  BY <1>1, EmptyLedgerType DEF Init, TypeOK, Files
<1>3. GoodFile(stream) /\ GoodFile(synced)
  BY <1>1 DEF Init, GoodFile, Agrees, OwnerOK, Mirrors, Opened, EmptyLedger
<1>4. QED
  BY <1>1, <1>2, <1>3
     DEF Init, IInv, OutsideOK, CallerOK, ValidatedOK, OpenedOK, Opened

(* However the process ended, if the two files are good the rest is.       *)
LEMMA DropIInv ==
  ASSUME IInv, Drop, UNCHANGED history,
         stream' \in Files, synced' \in Files,
         GoodFile(stream)', GoodFile(synced)'
  PROVE  IInv'
<1>1. TypeOK'
  BY EmptyLedgerType DEF IInv, TypeOK, Drop, history
<1>2. QED
  BY <1>1 DEF IInv, Drop, history, OutsideOK, CallerOK, ValidatedOK,
              OpenedOK, Opened

LEMMA AppendFailedDrop ==
  ASSUME IInv, NEW record \in Records, Keeps(record),
         AppendFailed(record), Drop, UNCHANGED history
  PROVE  IInv'
<1>1. /\ stream' \in Files /\ synced' \in Files
      /\ GoodFile(stream)' /\ GoodFile(synced)'
  BY AppendFailedGood DEF IInv, TypeOK, Drop, history
<1>2. QED
  BY <1>1, DropIInv

(* A failed write to an open journal changes nothing but the files; jobs   *)
(* may have gained a process.                                              *)
LEMMA AppendFailedOpen ==
  ASSUME IInv, NEW record \in Records, Keeps(record),
         AppendFailed(record), jobs' \subseteq Handles,
         phase = "open",
         UNCHANGED <<phase, journal, caller, history>>
  PROVE  IInv'
<1>1. /\ stream' \in Files /\ synced' \in Files
      /\ GoodFile(stream)' /\ GoodFile(synced)'
  BY AppendFailedGood DEF IInv, TypeOK, history
<1>2. TypeOK'
  BY <1>1 DEF IInv, TypeOK, history
<1>3. QED
  BY <1>1, <1>2 DEF IInv, history, OutsideOK, Agrees, CallerOK, ValidatedOK,
                    OpenedOK, Opened

LEMMA OpenIInv ==
  ASSUME IInv, NEW o \in Owners, Open(o)
  PROVE  IInv'
<1>1. /\ stream.ledger \in Ledgers
      /\ stream.state = "whole"
      /\ journal' = [stream.ledger EXCEPT !.owner = o]
  BY DEF IInv, TypeOK, Files, Open
<1>2. /\ journal'.owner = o
      /\ journal'.request = stream.ledger.request
      /\ journal'.receipt = stream.ledger.receipt
      /\ journal'.acknowledged = stream.ledger.acknowledged
      /\ journal' \in Ledgers
  BY <1>1 DEF Ledgers
<1>3. o.owner_epoch \in Epochs /\ o.instance \in Instances /\ o # None
  <2>1. o.owner_epoch \in Epochs /\ o.instance \in Instances
    BY DEF Owners
  <2>2. o # None
    BY JournalAssumption
  <2>3. QED BY <2>1, <2>2
<1>4. TypeOK'
  BY <1>2, <1>3 DEF IInv, TypeOK, Open
<1>5. Agrees(journal)'
  BY <1>1, <1>2 DEF IInv, GoodFile, Agrees, Open
<1>6. ValidatedOK'
  <2>1. \A e \in Epochs : e >= o.owner_epoch => owned[e] = {}
    <3>1. CASE stream.ledger.owner = None
      BY <1>1, <3>1 DEF IInv, GoodFile, OwnerOK
    <3>2. CASE stream.ledger.owner # None
      <4>1. stream.ledger.owner.owner_epoch < o.owner_epoch
        BY <3>2 DEF Open, RestartAllowed
      <4>2. stream.ledger.owner.owner_epoch \in Epochs
        BY <1>1, <3>2 DEF Ledgers, Owners
      <4>3. \A e \in Epochs :
              e > stream.ledger.owner.owner_epoch => owned[e] = {}
        BY <1>1, <3>2 DEF IInv, GoodFile, OwnerOK
      <4>4. QED
        BY <1>3, <4>1, <4>2, <4>3, JournalAssumption DEF Epochs
    <3>3. QED
      BY <3>1, <3>2
  <2>2. QED
    BY <1>1, <1>2, <1>3, <2>1, JournalAssumption
       DEF ValidatedOK, Open, Epochs
<1>7. GoodFile(stream)' /\ GoodFile(synced)'
  BY DEF IInv, Open, GoodFile, Agrees, OwnerOK, Opened
<1>8. QED
  BY <1>4, <1>5, <1>6, <1>7
     DEF IInv, Open, OutsideOK, CallerOK, OpenedOK, Opened

LEMMA TeardownIInv ==
  ASSUME IInv, NEW h \in Handles, RecordExternalTeardown(h)
  PROVE  IInv'
<1> DEFINE record == HandleRecord(h, "ended")
<1>1. record \in Records /\ Keeps(record)
  BY KeepsHandle DEF Records, HandleStates
<1>2. CASE AppendFailed(record) /\ Drop
  BY <1>1, <1>2, AppendFailedDrop DEF RecordExternalTeardown
<1>3. CASE /\ Appended(record)
           /\ journal' = [journal EXCEPT !.handles[h] = "ended"]
           /\ UNCHANGED <<phase, caller, jobs>>
  <2>1. /\ journal' \in Ledgers
        /\ journal'.owner = journal.owner
        /\ journal'.request = journal.request
        /\ journal'.receipt = journal.receipt
        /\ journal'.acknowledged = journal.acknowledged
    BY <1>3 DEF IInv, TypeOK, Ledgers, HandleStates
  <2>2. phase = "validated" /\ UNCHANGED history
    BY DEF RecordExternalTeardown
  <2>3. /\ stream' \in Files /\ synced' \in Files
        /\ GoodFile(stream)' /\ GoodFile(synced)'
    <3> HIDE DEF record
    <3> QED
      BY <1>1, <1>3, <2>2, AppendedGood DEF IInv, TypeOK, Opened, history
  <2>4. TypeOK'
    BY <1>3, <2>1, <2>2, <2>3 DEF IInv, TypeOK, history
  <2>5. ValidatedOK'
    <3>1. stream.state = "whole" /\ stream.ledger \in Ledgers
      BY <2>2 DEF IInv, ValidatedOK, TypeOK, Files
    <3>2. stream' = [stream EXCEPT !.ledger = Restore(@, record)]
      BY <1>3, <3>1 DEF Appended, Line
    <3>3. Restore(stream.ledger, record) =
            [stream.ledger EXCEPT !.handles = [@ EXCEPT ![h] = "ended"]]
      BY <3>1, RestoreHandle DEF HandleStates
    <3>4. /\ stream'.state = "whole"
          /\ stream'.ledger.request = stream.ledger.request
          /\ stream'.ledger.receipt = stream.ledger.receipt
          /\ stream'.ledger.acknowledged = stream.ledger.acknowledged
      BY <3>1, <3>2, <3>3 DEF IInv, TypeOK, Files, Ledgers
    <3>5. QED
      BY <2>1, <2>2, <3>4 DEF IInv, ValidatedOK, history
  <2>6. QED
    BY <1>3, <2>1, <2>2, <2>3, <2>4, <2>5
       DEF IInv, OutsideOK, Agrees, CallerOK, OpenedOK, Opened, history
<1>4. QED
  BY <1>2, <1>3 DEF RecordExternalTeardown

LEMMA WriteHeaderIInv ==
  ASSUME IInv, WriteHeader
  PROVE  IInv'
<1> DEFINE record == Header(journal.owner)
<1>1. phase = "validated" /\ UNCHANGED <<spawned, effects, answers>>
  BY DEF WriteHeader
<1>2. record \in Records /\ Keeps(record) /\ journal.owner \in Owners
  BY <1>1, KeepsHeader DEF Records
<1>3. CASE AppendFailed(record) /\ Drop /\ UNCHANGED owned
  BY <1>1, <1>2, <1>3, AppendFailedDrop DEF history
<1>4. CASE /\ Appended(record)
           /\ journal' = [journal EXCEPT !.clean = FALSE]
           /\ phase' \in {"open", "compact"}
           /\ owned' = [owned EXCEPT ![journal.owner.owner_epoch] =
                                       @ \cup {journal.owner.instance}]
           /\ UNCHANGED <<caller, jobs>>
  <2>1. /\ journal' \in Ledgers
        /\ journal'.owner = journal.owner
        /\ journal'.request = journal.request
        /\ journal'.receipt = journal.receipt
        /\ journal'.acknowledged = journal.acknowledged
    BY <1>4 DEF IInv, TypeOK, Ledgers
  <2>2. stream.state = "whole" /\ stream.ledger \in Ledgers
    BY <1>1 DEF IInv, ValidatedOK, TypeOK, Files
  <2>3. stream' = [stream EXCEPT !.ledger =
                     [@ EXCEPT !.owner = journal.owner, !.clean = FALSE]]
    BY <1>2, <1>4, <2>2, RestoreHeader DEF Appended, Line
  <2>4. synced' = stream'
    BY <1>4 DEF Appended
  <2>5. /\ stream' \in Files
        /\ stream'.ledger.owner = journal.owner
        /\ stream'.ledger.request = journal.request
        /\ stream'.ledger.receipt = journal.receipt
        /\ stream'.ledger.acknowledged = journal.acknowledged
    <3>1. [stream.ledger EXCEPT !.owner = journal.owner, !.clean = FALSE]
            \in Ledgers
      BY <1>2, <2>2 DEF Ledgers
    <3>2. /\ stream' \in Files
          /\ stream'.ledger = [stream.ledger EXCEPT !.owner = journal.owner,
                                                    !.clean = FALSE]
      BY <2>2, <2>3, <3>1 DEF IInv, TypeOK, Files
    <3>3. QED
      BY <1>1, <2>2, <3>2 DEF IInv, ValidatedOK, Ledgers
  <2>6. /\ journal.owner.owner_epoch \in Epochs
        /\ journal.owner.instance \in Instances
    BY <1>2 DEF Owners
  <2>7. owned' \in [Epochs -> SUBSET Instances]
    BY <1>4, <2>6 DEF IInv, TypeOK
  <2>8. /\ journal'.owner # None
        /\ owned'[journal.owner.owner_epoch] = {journal.owner.instance}
        /\ \A e \in Epochs : e > journal.owner.owner_epoch => owned'[e] = {}
    BY <1>1, <1>4, <2>1, <2>6, JournalAssumption
       DEF IInv, TypeOK, ValidatedOK, Epochs
  <2>9. Agrees(journal)'
    BY <1>1, <2>1 DEF IInv, Agrees
  <2>10. GoodFile(stream)' /\ GoodFile(synced)'
    BY <2>1, <2>4, <2>5, <2>8, <2>9 DEF GoodFile, Agrees, OwnerOK, Mirrors
  <2>11. TypeOK'
    BY <1>1, <1>4, <2>1, <2>4, <2>5, <2>7 DEF IInv, TypeOK
  <2>12. CallerOK'
    BY <1>1, <1>4 DEF IInv, CallerOK
  <2>13. QED
    BY <1>1, <1>4, <2>1, <2>8, <2>9, <2>10, <2>11, <2>12
       DEF IInv, OutsideOK, ValidatedOK, OpenedOK, Opened
<1>5. QED
  BY <1>3, <1>4 DEF WriteHeader

LEMMA CompactIInv ==
  ASSUME IInv, Compact
  PROVE  IInv'
<1>1. phase = "compact" /\ Opened /\ UNCHANGED history
  BY DEF Compact, Opened
<1>2. Snapshot(journal) \in Files /\ GoodFile(Snapshot(journal))
  BY <1>1 DEF IInv, TypeOK, Snapshot, Files, GoodFile, OwnerOK, OpenedOK,
              Mirrors
<1>3. CASE /\ stream' = Snapshot(journal)
           /\ synced' = Snapshot(journal)
           /\ phase' = "open"
           /\ UNCHANGED <<journal, caller, jobs>>
  <2>1. GoodFile(stream)' /\ GoodFile(synced)'
    BY <1>1, <1>2, <1>3
       DEF GoodFile, Agrees, OwnerOK, Mirrors, Opened, history
  <2>2. TypeOK'
    BY <1>1, <1>2, <1>3 DEF IInv, TypeOK, history
  <2>3. QED
    BY <1>1, <1>3, <2>1, <2>2
       DEF IInv, OutsideOK, Agrees, CallerOK, ValidatedOK, OpenedOK, Opened,
           history
<1>4. CASE /\ stream' \in {stream, Snapshot(journal)}
           /\ synced' \in {synced, stream'}
           /\ Drop
  <2>1. /\ stream' \in Files /\ synced' \in Files
        /\ GoodFile(stream') /\ GoodFile(synced')
    BY <1>2, <1>4 DEF IInv, TypeOK
  <2>2. GoodFile(stream)' /\ GoodFile(synced)'
    BY <1>1, <1>4, <2>1
       DEF GoodFile, Agrees, OwnerOK, Mirrors, Opened, Drop, history
  <2>3. QED
    BY <1>1, <1>4, <2>1, <2>2, DropIInv
<1>5. QED
  BY <1>3, <1>4 DEF Compact

LEMMA IntentIInv ==
  ASSUME IInv, NEW k \in Keys, NEW q \in Requests, Intent(k, q)
  PROVE  IInv'
<1> DEFINE record == IntentRecord(k, q)
<1>1. /\ phase = "open" /\ journal.request[k] = None
      /\ UNCHANGED <<phase, jobs, history>>
  BY DEF Intent
<1>2. /\ record \in Records /\ Keeps(record)
      /\ effects[k] = 0 /\ answers[k] = {}
      /\ journal.receipt[k] = None /\ k \notin journal.acknowledged
  BY <1>1, KeepsIntent DEF Records
<1>3. CASE AppendFailed(record) /\ UNCHANGED <<journal, caller>>
  <2>1. jobs' \subseteq Handles
    BY <1>1 DEF IInv, TypeOK
  <2>2. QED
    BY <1>1, <1>2, <1>3, <2>1, AppendFailedOpen
<1>4. CASE /\ Appended(record)
           /\ journal' = Restore(journal, record)
           /\ caller' = [caller EXCEPT ![k] = "granted"]
  <2>1. journal \in Ledgers
    BY DEF IInv, TypeOK
  <2>2. journal' \in Ledgers
    BY <1>4, <2>1, RestoreIntent
  <2>3. /\ journal'.owner = journal.owner
        /\ journal'.request = [journal.request EXCEPT ![k] = q]
        /\ journal'.receipt = [journal.receipt EXCEPT ![k] = None]
        /\ journal'.acknowledged = journal.acknowledged \ {k}
    <3>1. journal' = [journal EXCEPT !.request = [@ EXCEPT ![k] = q],
                                     !.receipt = [@ EXCEPT ![k] = None],
                                     !.acknowledged = @ \ {k}]
      BY <1>4, <2>1, RestoreIntent
    <3>2. QED
      BY <2>1, <3>1 DEF Ledgers
  <2>4. ASSUME NEW l \in Ledgers, Mirrors(l)
        PROVE  Mirrors(Restore(l, record))'
    <3>1. Restore(l, record) =
            [l EXCEPT !.request = [@ EXCEPT ![k] = q],
                      !.receipt = [@ EXCEPT ![k] = None],
                      !.acknowledged = @ \ {k}]
      BY RestoreIntent
    <3>2. /\ Restore(l, record).owner = l.owner
          /\ Restore(l, record).request = [l.request EXCEPT ![k] = q]
          /\ Restore(l, record).receipt = [l.receipt EXCEPT ![k] = None]
          /\ Restore(l, record).acknowledged = l.acknowledged \ {k}
      BY <3>1 DEF Ledgers
    <3> HIDE DEF record
    <3>3. QED
      BY <2>1, <2>3, <2>4, <3>2 DEF Mirrors, Ledgers
  <2>5. /\ stream' \in Files /\ synced' \in Files
        /\ GoodFile(stream)' /\ GoodFile(synced)'
    <3> HIDE DEF record
    <3> QED
      BY <1>1, <1>2, <1>4, <2>4, AppendedGood
         DEF IInv, TypeOK, Opened, history
  <2>6. TypeOK'
    BY <1>1, <1>4, <2>2, <2>5 DEF IInv, TypeOK, history
  <2>7. q # None
    BY JournalAssumption
  <2>8. Agrees(journal)'
    BY <1>1, <1>2, <2>1, <2>3, <2>7 DEF IInv, Agrees, Ledgers, history
  <2>9. CallerOK'
    BY <1>1, <1>2, <1>4, <2>1, <2>3, <2>7
       DEF IInv, TypeOK, CallerOK, Ledgers, history
  <2>10. QED
    BY <1>1, <2>3, <2>5, <2>6, <2>8, <2>9
       DEF IInv, OutsideOK, ValidatedOK, OpenedOK, Opened, history
<1>5. QED
  BY <1>3, <1>4 DEF Intent

LEMMA ReceiptIInv ==
  ASSUME IInv, NEW k \in Keys, NEW r \in Receipts, Receipt(k, r)
  PROVE  IInv'
<1> DEFINE record == ReceiptRecord(k, r)
<1>1. /\ phase = "open" /\ caller[k] = "ran"
      /\ UNCHANGED <<phase, jobs, history>>
  BY DEF Receipt
<1>2. /\ record \in Records /\ Keeps(record)
      /\ effects[k] = 1 /\ answers[k] = {}
      /\ journal.receipt[k] = None /\ journal.request[k] # None
  BY <1>1, KeepsReceipt DEF Records, IInv, CallerOK
<1>3. CASE AppendFailed(record) /\ UNCHANGED <<journal, caller>>
  <2>1. jobs' \subseteq Handles
    BY <1>1 DEF IInv, TypeOK
  <2>2. QED
    BY <1>1, <1>2, <1>3, <2>1, AppendFailedOpen
<1>4. CASE /\ Appended(record)
           /\ journal' = [journal EXCEPT !.receipt[k] = r]
           /\ caller' = [caller EXCEPT ![k] = "idle"]
  <2>1. journal \in Ledgers
    BY DEF IInv, TypeOK
  <2>2. /\ journal' \in Ledgers
        /\ journal'.owner = journal.owner
        /\ journal'.request = journal.request
        /\ journal'.receipt = [journal.receipt EXCEPT ![k] = r]
        /\ journal'.acknowledged = journal.acknowledged
    BY <1>4, <2>1 DEF Ledgers
  <2>3. ASSUME NEW l \in Ledgers, Mirrors(l)
        PROVE  Mirrors(Restore(l, record))'
    <3>1. Restore(l, record) = [l EXCEPT !.receipt = [@ EXCEPT ![k] = r]]
      BY RestoreReceipt
    <3>2. /\ Restore(l, record).owner = l.owner
          /\ Restore(l, record).request = l.request
          /\ Restore(l, record).receipt = [l.receipt EXCEPT ![k] = r]
          /\ Restore(l, record).acknowledged = l.acknowledged
      BY <3>1 DEF Ledgers
    <3> HIDE DEF record
    <3>3. QED
      BY <2>1, <2>2, <2>3, <3>2 DEF Mirrors, Ledgers
  <2>4. /\ stream' \in Files /\ synced' \in Files
        /\ GoodFile(stream)' /\ GoodFile(synced)'
    <3> HIDE DEF record
    <3> QED
      BY <1>1, <1>2, <1>4, <2>3, AppendedGood
         DEF IInv, TypeOK, Opened, history
  <2>5. TypeOK'
    BY <1>1, <1>4, <2>2, <2>4 DEF IInv, TypeOK, history
  <2>6. r # None
    BY JournalAssumption
  <2>7. Agrees(journal)'
    BY <1>1, <1>2, <2>1, <2>2, <2>6 DEF IInv, Agrees, Ledgers, history
  <2>8. CallerOK'
    BY <1>1, <1>4, <2>1, <2>2, <2>6
       DEF IInv, TypeOK, CallerOK, Ledgers, history
  <2>9. QED
    BY <1>1, <2>2, <2>4, <2>5, <2>7, <2>8
       DEF IInv, OutsideOK, ValidatedOK, OpenedOK, Opened, history
<1>5. QED
  BY <1>3, <1>4 DEF Receipt

LEMMA AckIInv ==
  ASSUME IInv, NEW k \in Keys, Ack(k)
  PROVE  IInv'
<1> DEFINE record == AckRecord(k)
<1>1. /\ phase = "open" /\ caller[k] = "delivered"
      /\ caller' = [caller EXCEPT ![k] = "idle"]
      /\ UNCHANGED <<phase, jobs, history>>
  BY DEF Ack
<1>2. /\ record \in Records /\ Keeps(record)
      /\ journal.receipt[k] # None
  BY <1>1, KeepsAck DEF Records, IInv, CallerOK
<1>3. journal \in Ledgers
  BY DEF IInv, TypeOK
<1>4. ASSUME journal' \in Ledgers, stream' \in Files, synced' \in Files,
             GoodFile(stream)', GoodFile(synced)',
             journal'.owner = journal.owner,
             journal'.request = journal.request,
             journal'.receipt = journal.receipt,
             journal'.acknowledged \in
               {journal.acknowledged, journal.acknowledged \cup {k}}
      PROVE  IInv'
  <2>1. TypeOK'
    BY <1>1, <1>4 DEF IInv, TypeOK, history
  <2>2. Agrees(journal)'
    BY <1>1, <1>2, <1>4 DEF IInv, Agrees, history
  <2>3. CallerOK'
    BY <1>1, <1>4 DEF IInv, TypeOK, CallerOK, history
  <2>4. QED
    BY <1>1, <1>4, <2>1, <2>2, <2>3
       DEF IInv, OutsideOK, ValidatedOK, OpenedOK, Opened, history
<1>5. CASE UNCHANGED <<journal, stream, synced>>
  <2>1. GoodFile(stream)' /\ GoodFile(synced)'
    BY <1>1, <1>5 DEF IInv, GoodFile, Agrees, OwnerOK, Mirrors, Opened, history
  <2>2. stream' \in Files /\ synced' \in Files
    BY <1>5 DEF IInv, TypeOK
  <2>3. QED
    BY <1>3, <1>4, <1>5, <2>1, <2>2
<1>6. CASE AppendFailed(record) /\ UNCHANGED journal
  <2>1. /\ stream' \in Files /\ synced' \in Files
        /\ GoodFile(stream)' /\ GoodFile(synced)'
    <3> HIDE DEF record
    <3> QED
      BY <1>1, <1>2, <1>6, AppendFailedGood DEF IInv, TypeOK, history
  <2>2. QED
    BY <1>3, <1>4, <1>6, <2>1
<1>7. CASE /\ Appended(record)
           /\ journal' = [journal EXCEPT !.acknowledged = @ \cup {k}]
  <2>1. /\ journal' \in Ledgers
        /\ journal'.owner = journal.owner
        /\ journal'.request = journal.request
        /\ journal'.receipt = journal.receipt
        /\ journal'.acknowledged = journal.acknowledged \cup {k}
    BY <1>3, <1>7 DEF Ledgers
  <2>2. ASSUME NEW l \in Ledgers, Mirrors(l)
        PROVE  Mirrors(Restore(l, record))'
    <3>1. Restore(l, record) = [l EXCEPT !.acknowledged = @ \cup {k}]
      BY RestoreAck
    <3>2. /\ Restore(l, record).owner = l.owner
          /\ Restore(l, record).request = l.request
          /\ Restore(l, record).receipt = l.receipt
          /\ Restore(l, record).acknowledged = l.acknowledged \cup {k}
      BY <3>1 DEF Ledgers
    <3> HIDE DEF record
    <3>3. QED
      BY <2>1, <2>2, <3>2 DEF Mirrors
  <2>3. /\ stream' \in Files /\ synced' \in Files
        /\ GoodFile(stream)' /\ GoodFile(synced)'
    <3> HIDE DEF record
    <3> QED
      BY <1>1, <1>2, <1>7, <2>2, AppendedGood
         DEF IInv, TypeOK, Opened, history
  <2>4. QED
    BY <1>4, <2>1, <2>3
<1>8. QED
  BY <1>5, <1>6, <1>7 DEF Ack, Append

(* A handle record of an open journal, whether or not it could be written. *)
LEMMA HandleIInv ==
  ASSUME IInv, phase = "open", NEW h \in Handles, NEW s \in HandleStates,
         jobs' \subseteq Handles,
         Append(HandleRecord(h, s), [journal EXCEPT !.handles[h] = s]),
         UNCHANGED <<phase, caller, history>>
  PROVE  IInv'
<1> DEFINE record == HandleRecord(h, s)
<1>1. record \in Records /\ Keeps(record)
  BY KeepsHandle DEF Records
<1>2. CASE AppendFailed(record) /\ UNCHANGED journal
  BY <1>1, <1>2, AppendFailedOpen
<1>3. CASE /\ Appended(record)
           /\ journal' = [journal EXCEPT !.handles[h] = s]
  <2>1. /\ journal' \in Ledgers
        /\ journal'.owner = journal.owner
        /\ journal'.request = journal.request
        /\ journal'.receipt = journal.receipt
        /\ journal'.acknowledged = journal.acknowledged
    BY <1>3 DEF IInv, TypeOK, Ledgers
  <2>2. ASSUME NEW l \in Ledgers, Mirrors(l)
        PROVE  Mirrors(Restore(l, record))'
    <3>1. Restore(l, record) = [l EXCEPT !.handles = [@ EXCEPT ![h] = s]]
      BY RestoreHandle
    <3>2. /\ Restore(l, record).owner = l.owner
          /\ Restore(l, record).request = l.request
          /\ Restore(l, record).receipt = l.receipt
          /\ Restore(l, record).acknowledged = l.acknowledged
      BY <3>1 DEF Ledgers
    <3> HIDE DEF record
    <3>3. QED
      BY <2>1, <2>2, <3>2 DEF Mirrors
  <2>3. /\ stream' \in Files /\ synced' \in Files
        /\ GoodFile(stream)' /\ GoodFile(synced)'
    <3> HIDE DEF record
    <3> QED
      BY <1>1, <1>3, <2>2, AppendedGood DEF IInv, TypeOK, Opened, history
  <2>4. TypeOK'
    BY <2>1, <2>3 DEF IInv, TypeOK, history
  <2>5. QED
    BY <2>1, <2>3, <2>4
       DEF IInv, OutsideOK, Agrees, CallerOK, ValidatedOK, OpenedOK, Opened,
           history
<1>4. QED
  BY <1>2, <1>3 DEF Append

(* The effect happens only under an intent that every file and memory hold.*)
LEMMA RunEffectIInv ==
  ASSUME IInv, NEW k \in Keys, RunEffect(k)
  PROVE  IInv'
<1>1. /\ phase = "open" /\ caller[k] = "granted"
      /\ caller' = [caller EXCEPT ![k] = "ran"]
      /\ effects' = [effects EXCEPT ![k] = @ + 1]
      /\ UNCHANGED <<phase, journal, stream, synced, jobs,
                     spawned, owned, answers>>
  BY DEF RunEffect
<1>2. /\ effects[k] = 0
      /\ journal.request[k] # None
      /\ journal.receipt[k] = None
  BY <1>1 DEF IInv, CallerOK
<1>3. effects' = [effects EXCEPT ![k] = 1] /\ effects \in [Keys -> Nat]
  BY <1>1, <1>2 DEF IInv, TypeOK
<1>4. TypeOK'
  BY <1>1, <1>3 DEF IInv, TypeOK
<1>5. ASSUME NEW f \in {stream, synced}
      PROVE  GoodFile(f)'
  <2>1. GoodFile(f)
    BY <1>5 DEF IInv
  <2>2. SUFFICES ASSUME f.state = "whole"
                 PROVE  Agrees(f.ledger)' /\ OwnerOK(f.ledger)'
                        /\ (Opened' => Mirrors(f.ledger)')
    BY DEF GoodFile
  <2>3. Agrees(f.ledger) /\ OwnerOK(f.ledger) /\ Mirrors(f.ledger)
    BY <1>1, <2>1, <2>2 DEF GoodFile, Opened
  <2>4. f.ledger.request[k] # None
    BY <1>2, <2>3 DEF Mirrors
  <2>5. Agrees(f.ledger)'
    BY <1>1, <1>3, <2>3, <2>4 DEF Agrees
  <2>6. QED
    BY <1>1, <2>3, <2>5 DEF OwnerOK, Mirrors
<1>6. GoodFile(stream)' /\ GoodFile(synced)'
  BY <1>1, <1>5 DEF GoodFile, Agrees, OwnerOK, Mirrors, Opened
<1>7. Agrees(journal)'
  BY <1>1, <1>2, <1>3 DEF IInv, Agrees
<1>8. CallerOK'
  BY <1>1, <1>2, <1>3 DEF IInv, TypeOK, CallerOK
<1>9. OutsideOK'
  BY <1>1, <1>3 DEF IInv, OutsideOK
<1>10. QED
  BY <1>1, <1>4, <1>6, <1>7, <1>8, <1>9
     DEF IInv, ValidatedOK, OpenedOK, Opened

(* An answer is the receipt every readable file holds.                     *)
LEMMA DeliverIInv ==
  ASSUME IInv, NEW k \in Keys, Deliver(k)
  PROVE  /\ answers' = [answers EXCEPT ![k] = {journal.receipt[k]}]
         /\ effects[k] = 1 /\ journal.receipt[k] \in Receipts
         /\ IInv'
<1>1. /\ phase = "open" /\ journal.receipt[k] # None
      /\ answers' = [answers EXCEPT ![k] = @ \cup {journal.receipt[k]}]
      /\ caller' = [caller EXCEPT ![k] = "delivered"]
      /\ UNCHANGED <<phase, journal, stream, synced, jobs,
                     spawned, owned, effects>>
  BY DEF Deliver
<1>2. /\ Agrees(journal)
      /\ effects[k] = 1
      /\ journal.receipt[k] \in Receipts
  BY <1>1 DEF IInv, Agrees, TypeOK, Ledgers
<1>3. /\ answers \in [Keys -> SUBSET Receipts]
      /\ answers[k] \cup {journal.receipt[k]} = {journal.receipt[k]}
  <2>1. answers[k] # {} => answers[k] = {journal.receipt[k]}
    BY <1>2 DEF Agrees
  <2>2. QED
    BY <2>1 DEF IInv, TypeOK
<1>4. answers' = [answers EXCEPT ![k] = {journal.receipt[k]}]
  BY <1>1, <1>3
<1>5. TypeOK'
  BY <1>1, <1>2, <1>3, <1>4 DEF IInv, TypeOK
<1>6. ASSUME NEW f \in {stream, synced}
      PROVE  GoodFile(f)'
  <2>1. GoodFile(f)
    BY <1>6 DEF IInv
  <2>2. SUFFICES ASSUME f.state = "whole"
                 PROVE  Agrees(f.ledger)' /\ OwnerOK(f.ledger)'
                        /\ (Opened' => Mirrors(f.ledger)')
    BY DEF GoodFile
  <2>3. Agrees(f.ledger) /\ OwnerOK(f.ledger) /\ Mirrors(f.ledger)
    BY <1>1, <2>1, <2>2 DEF GoodFile, Opened
  <2>4. f.ledger.receipt[k] = journal.receipt[k]
    BY <1>1, <2>3 DEF Mirrors
  <2>5. Agrees(f.ledger)'
    BY <1>1, <1>3, <1>4, <2>3, <2>4 DEF Agrees
  <2>6. QED
    BY <1>1, <2>3, <2>5 DEF OwnerOK, Mirrors
<1>7. GoodFile(stream)' /\ GoodFile(synced)'
  BY <1>1, <1>6 DEF GoodFile, Agrees, OwnerOK, Mirrors, Opened
<1>8. Agrees(journal)'
  BY <1>1, <1>2, <1>3, <1>4 DEF Agrees
<1>9. CallerOK'
  BY <1>1 DEF IInv, TypeOK, CallerOK
<1>10. OutsideOK'
  BY <1>1, <1>2, <1>3, <1>4 DEF IInv, OutsideOK
<1>11. QED
  BY <1>1, <1>2, <1>4, <1>5, <1>7, <1>8, <1>9, <1>10
     DEF IInv, ValidatedOK, OpenedOK, Opened

LEMMA EndIInv ==
  ASSUME IInv, MarkClean \/ Exit \/ PowerLoss
  PROVE  IInv'
<1>1. CASE MarkClean
  <2>1. phase = "open" /\ Drop /\ UNCHANGED history
    BY <1>1 DEF MarkClean
  <2>2. CleanRecord \in Records /\ Keeps(CleanRecord)
    BY KeepsClean DEF Records
  <2>3. CASE AppendFailed(CleanRecord)
    BY <2>1, <2>2, <2>3, AppendFailedDrop
  <2>4. CASE Appended(CleanRecord)
    <3>1. /\ stream' = Line(stream, CleanRecord)
          /\ synced' = Line(stream, CleanRecord)
          /\ Line(stream, CleanRecord) \in Files
          /\ GoodFile(Line(stream, CleanRecord))
      BY <2>2, <2>4, FileType, LineGood DEF Appended, IInv, TypeOK
    <3>2. GoodFile(stream)' /\ GoodFile(synced)'
      BY <2>1, <3>1
         DEF GoodFile, Agrees, OwnerOK, Mirrors, Opened, Drop, history
    <3>3. QED
      BY <2>1, <3>1, <3>2, DropIInv
  <2>5. QED
    BY <1>1, <2>3, <2>4 DEF MarkClean
<1>2. CASE Exit \/ PowerLoss
  <2>1. /\ Drop /\ UNCHANGED history
        /\ stream' \in {stream, synced} /\ synced' = synced
    BY <1>2 DEF Exit, PowerLoss
  <2>2. /\ stream' \in Files /\ synced' \in Files
        /\ GoodFile(stream') /\ GoodFile(synced')
    BY <2>1 DEF IInv, TypeOK
  <2>3. GoodFile(stream)' /\ GoodFile(synced)'
    BY <2>1, <2>2 DEF GoodFile, Agrees, OwnerOK, Mirrors, Opened, Drop, history
  <2>4. QED
    BY <2>1, <2>2, <2>3, DropIInv
<1>3. QED
  BY <1>1, <1>2

-----------------------------------------------------------------------------
(* Every step keeps the invariant.                                         *)
LEMMA NextIInv == IInv /\ [Next]_vars => IInv'
<1>1. SUFFICES ASSUME IInv, [Next]_vars PROVE IInv'
  OBVIOUS
<1>2. CASE \E o \in Owners : Open(o)
  BY <1>1, <1>2, OpenIInv
<1>3. CASE \E h \in Handles : RecordExternalTeardown(h)
  BY <1>1, <1>3, TeardownIInv
<1>4. CASE WriteHeader
  BY <1>1, <1>4, WriteHeaderIInv
<1>5. CASE Compact
  BY <1>1, <1>5, CompactIInv
<1>6. CASE \E k \in Keys, q \in Requests : Intent(k, q)
  BY <1>1, <1>6, IntentIInv
<1>7. CASE \E k \in Keys : RunEffect(k)
  BY <1>1, <1>7, RunEffectIInv
<1>8. CASE \E k \in Keys : Deliver(k)
  BY <1>1, <1>8, DeliverIInv
<1>9. CASE \E k \in Keys : Ack(k)
  BY <1>1, <1>9, AckIInv
<1>10. CASE \E k \in Keys, r \in Receipts : Receipt(k, r)
  BY <1>1, <1>10, ReceiptIInv
<1>11. CASE \E h \in Handles : StartProcess(h) \/ EndProcess(h)
  <2>1. PICK h \in Handles : StartProcess(h) \/ EndProcess(h)
    BY <1>11
  <2>2. PICK s \in {"running", "ended"} :
          Append(HandleRecord(h, s), [journal EXCEPT !.handles[h] = s])
    BY <2>1 DEF StartProcess, EndProcess
  <2>3. /\ phase = "open" /\ jobs' \subseteq Handles
        /\ UNCHANGED <<phase, caller, history>>
    BY <1>1, <2>1 DEF StartProcess, EndProcess, IInv, TypeOK
  <2>4. s \in HandleStates
    BY DEF HandleStates
  <2>5. QED
    BY <1>1, <2>2, <2>3, <2>4, HandleIInv
<1>12. CASE MarkClean \/ Exit \/ PowerLoss
  BY <1>1, <1>12, EndIInv
<1>13. CASE UNCHANGED vars
  <2>1. GoodFile(stream)' /\ GoodFile(synced)'
    BY <1>1, <1>13
       DEF vars, IInv, GoodFile, Agrees, OwnerOK, Mirrors, Opened
  <2>2. QED
    BY <1>1, <1>13, <2>1
       DEF vars, IInv, TypeOK, OutsideOK, Agrees, CallerOK, ValidatedOK,
           OpenedOK, Opened
<1>14. QED
  BY <1>1, <1>2, <1>3, <1>4, <1>5, <1>6, <1>7, <1>8, <1>9, <1>10, <1>11,
     <1>12, <1>13 DEF Next

(* The inductive invariant holds in every state of every behavior.         *)
THEOREM JournalInvariant == Spec => []IInv
BY InitIInv, NextIInv, PTL DEF Spec

(* Every variable keeps its type.                                          *)
THEOREM JournalTypes == Spec => []TypeOK
<1>1. IInv => TypeOK
  BY DEF IInv
<1>2. QED
  BY <1>1, JournalInvariant, PTL

(* Write-ahead safety, for any number of operations, failures and          *)
(* restarts: a journal that can still be read holds the intent of every    *)
(* effect and the one answer of every operation the service was answered   *)
(* about.                                                                  *)
THEOREM JournalCrashSafe == Spec => []CrashSafe
<1>1. IInv => CrashSafe
  <2>1. SUFFICES ASSUME IInv, NEW f \in {stream, synced}, f.state = "whole",
                        NEW k \in Keys
                 PROVE  /\ effects[k] > 0 => f.ledger.request[k] # None
                        /\ answers[k] # {} =>
                             f.ledger.receipt[k] \in answers[k]
    BY DEF CrashSafe
  <2>2. Agrees(f.ledger)
    BY <2>1 DEF IInv, GoodFile
  <2>3. QED
    BY <2>2 DEF Agrees
<1>2. QED
  BY <1>1, JournalInvariant, PTL

(* Memory is never ahead of the disk.                                      *)
THEOREM JournalMemoryIsDurable == Spec => []MemoryIsDurable
<1>1. IInv => MemoryIsDurable
  BY DEF IInv, GoodFile, Mirrors, Opened, MemoryIsDurable
<1>2. QED
  BY <1>1, JournalInvariant, PTL

(* No two instances ever own the journal at one epoch, and ownership only  *)
(* moves to later epochs.                                                  *)
THEOREM JournalLatestOwner == Spec => []LatestOwner
<1>1. IInv => LatestOwner
  BY DEF IInv, OpenedOK, Opened, LatestOwner
<1>2. QED
  BY <1>1, JournalInvariant, PTL

(* A step of the journal is a step of module Operations or changes nothing *)
(* the outside world sees.                                                 *)
LEMMA NextOps == IInv /\ [Next]_vars => [Ops!OpNext]_<<effects, answers>>
<1>1. SUFFICES ASSUME IInv, [Next]_vars,
                      ~UNCHANGED <<effects, answers>>
               PROVE  Ops!OpNext
  OBVIOUS
<1>2. PICK k \in Keys : RunEffect(k) \/ Deliver(k)
  BY <1>1 DEF Next, vars, Open, RecordExternalTeardown, WriteHeader, Compact,
              Intent, Receipt, Ack, StartProcess, EndProcess, MarkClean, Exit,
              PowerLoss, history
<1>3. CASE RunEffect(k)
  <2>1. effects[k] = 0
    BY <1>1, <1>3 DEF RunEffect, IInv, CallerOK
  <2>2. effects' = [effects EXCEPT ![k] = 1] /\ UNCHANGED answers
    BY <1>1, <1>3, <2>1 DEF RunEffect, IInv, TypeOK
  <2>3. Ops!Execute(k)
    BY <2>1, <2>2 DEF Ops!Execute
  <2>4. QED
    BY <2>3 DEF Ops!OpNext
<1>4. CASE Deliver(k)
  <2>1. /\ answers' = [answers EXCEPT ![k] = {journal.receipt[k]}]
        /\ effects[k] = 1 /\ journal.receipt[k] \in Receipts
        /\ UNCHANGED effects
    BY <1>1, <1>4, DeliverIInv DEF Deliver
  <2>2. answers[k] \subseteq {journal.receipt[k]}
    BY <1>1, <1>4 DEF IInv, Agrees, Deliver
  <2>3. Ops!Answer(k, journal.receipt[k])
    BY <2>1, <2>2 DEF Ops!Answer
  <2>4. QED
    BY <2>1, <2>3 DEF Ops!OpNext
<1>5. QED
  BY <1>2, <1>3, <1>4

(* The journal keeps the promise of module Operations: one effect and one  *)
(* answer for each operation, across crashes and restarts.                 *)
THEOREM JournalImplements == Spec => Implements
<1>1. Init => Ops!OpInit
  BY DEF Init, Ops!OpInit
<1>2. QED
  BY <1>1, NextOps, JournalInvariant, PTL
     DEF Spec, Implements, Ops!OpSpec, Ops!opVars

-----------------------------------------------------------------------------
(* The clean mark.                                                         *)

Unclean(file) == file.state = "whole" => ~file.ledger.clean

Quiet(file) ==
  file.state = "whole" /\ file.ledger.clean =>
    /\ \A k \in Keys : effects[k] > 0 => file.ledger.receipt[k] # None
    /\ Running(file.ledger) = {}

(* A process that the file holds as running is known to an open journal as *)
(* running, or it is owned and its record was written by a failed append.  *)
HandlesOK ==
  stream.state = "whole" =>
    \A h \in Running(stream.ledger) :
      \/ journal.handles[h] = "running"
      \/ h \in jobs /\ journal.handles[h] # "ended"

(* No file of an open journal bears the mark, so that only MarkClean, which*)
(* has looked at every process and every effect, can leave one that does.  *)
QInv ==
  /\ Quiet(stream) /\ Quiet(synced)
  /\ Opened => Unclean(stream) /\ Unclean(synced) /\ ~journal.clean
  /\ phase = "validated" => journal.handles = stream.ledger.handles
  /\ Opened => HandlesOK

LEMMA InitQInv == Init => QInv
BY DEF Init, QInv, Quiet, Opened, EmptyLedger

(* The mark and the handles under each record.                             *)
LEMMA RestoreMark ==
  ASSUME NEW l \in Ledgers, NEW record \in Records
  PROVE  /\ record.kind = "header" => ~Restore(l, record).clean
         /\ record.kind # "clean" /\ ~l.clean => ~Restore(l, record).clean
         /\ record.kind # "handle" => Restore(l, record).handles = l.handles
<1>1. ASSUME NEW o \in Owners, record = Header(o)
      PROVE  /\ record.kind = "header" /\ ~Restore(l, record).clean
             /\ Restore(l, record).handles = l.handles
  <2>1. record.kind = "header"
    BY <1>1 DEF Header
  <2> DEFINE e == [l EXCEPT !.owner = o]
  <2>0. e \in Ledgers /\ e.handles = l.handles
    BY DEF Ledgers
  <2>a. Restore(l, record) = [e EXCEPT !.clean = FALSE]
    BY <1>1, RestoreHeader
  <2> HIDE DEF e
  <2>2. Restore(l, record).handles = l.handles
    BY <2>0, <2>a DEF Ledgers
  <2>3. Restore(l, record).clean = FALSE
    BY <2>0, <2>a DEF Ledgers
  <2> QED BY <2>1, <2>2, <2>3
<1>2. ASSUME NEW k \in Keys, NEW q \in Requests, record = IntentRecord(k, q)
      PROVE  /\ record.kind = "intent" /\ (~l.clean => ~Restore(l, record).clean)
             /\ Restore(l, record).handles = l.handles
  <2>1. record.kind = "intent"
    BY <1>2 DEF IntentRecord
  <2> DEFINE d == [l EXCEPT !.request = [@ EXCEPT ![k] = q]]
             e == [d EXCEPT !.receipt = [l.receipt EXCEPT ![k] = None]]
  <2>0. d \in Ledgers /\ d.handles = l.handles /\ d.clean = l.clean
    BY DEF Ledgers
  <2>a. e \in Ledgers /\ e.handles = l.handles /\ e.clean = l.clean
    <3> HIDE DEF d
    <3> QED BY <2>0 DEF Ledgers
  <2>b. Restore(l, record) = [e EXCEPT !.acknowledged = l.acknowledged \ {k}]
    BY <1>2, RestoreIntent, Zenon
  <2> HIDE DEF d, e
  <2>2. Restore(l, record).handles = l.handles
    BY <2>a, <2>b DEF Ledgers
  <2>3. Restore(l, record).clean = l.clean
    BY <2>a, <2>b DEF Ledgers
  <2> QED BY <2>1, <2>2, <2>3
<1>3. ASSUME NEW k \in Keys, NEW r \in Receipts, record = ReceiptRecord(k, r)
      PROVE  /\ record.kind = "receipt" /\ (~l.clean => ~Restore(l, record).clean)
             /\ Restore(l, record).handles = l.handles
  <2>1. record.kind = "receipt"
    BY <1>3 DEF ReceiptRecord
  <2>2. Restore(l, record).handles = l.handles
    BY <1>3, RestoreReceipt DEF Ledgers
  <2>3. Restore(l, record).clean = l.clean
    BY <1>3, RestoreReceipt DEF Ledgers
  <2> QED BY <2>1, <2>2, <2>3
<1>4. ASSUME NEW k \in Keys, record = AckRecord(k)
      PROVE  /\ record.kind = "ack" /\ (~l.clean => ~Restore(l, record).clean)
             /\ Restore(l, record).handles = l.handles
  <2>1. record.kind = "ack"
    BY <1>4 DEF AckRecord
  <2>2. Restore(l, record).handles = l.handles
    BY <1>4, RestoreAck DEF Ledgers
  <2>3. Restore(l, record).clean = l.clean
    BY <1>4, RestoreAck DEF Ledgers
  <2> QED BY <2>1, <2>2, <2>3
<1>5. ASSUME NEW h \in Handles, NEW s \in HandleStates, record = HandleRecord(h, s)
      PROVE  record.kind = "handle" /\ (~l.clean => ~Restore(l, record).clean)
  <2>1. record.kind = "handle"
    BY <1>5 DEF HandleRecord
  <2>3. Restore(l, record).clean = l.clean
    BY <1>5, RestoreHandle DEF Ledgers
  <2> QED BY <2>1, <2>3
<1>6. ASSUME record = CleanRecord
      PROVE  record.kind = "clean" /\ Restore(l, record).handles = l.handles
  <2>1. record.kind = "clean"
    BY <1>6 DEF CleanRecord
  <2>2. Restore(l, record).handles = l.handles
    BY <1>6, RestoreClean DEF Ledgers
  <2> QED BY <2>1, <2>2
<1> QED
  BY <1>1, <1>2, <1>3, <1>4, <1>5, <1>6 DEF Records

(* The same of a file that gets one more line.                             *)
LEMMA LineMark ==
  ASSUME NEW f \in Files, NEW record \in Records
  PROVE  /\ record.kind = "header" => Unclean(Line(f, record))
         /\ record.kind # "clean" /\ Unclean(f) => Unclean(Line(f, record))
         /\ Line(f, record).state = "whole" =>
              /\ f.state = "whole" /\ f.ledger \in Ledgers
              /\ Line(f, record).ledger = Restore(f.ledger, record)
<1>1. CASE f.state = "whole"
  <2>1. f.ledger \in Ledgers /\ Line(f, record).ledger = Restore(f.ledger, record)
    BY <1>1 DEF Line, Files
  <2> QED BY <1>1, <2>1, RestoreMark DEF Unclean
<1>2. CASE f.state # "whole"
  <2>1. Line(f, record).state # "whole"
    BY <1>2 DEF Line, Files
  <2> QED BY <2>1 DEF Unclean
<1> QED BY <1>1, <1>2

(* A failed append leaves an unclean or a quiet file so.                   *)
LEMMA AppendFailedQuiet ==
  ASSUME stream \in Files, synced \in Files, NEW record \in Records,
         AppendFailed(record), UNCHANGED effects,
         Quiet(stream), Quiet(synced), Quiet(Line(stream, record))
  PROVE  /\ Quiet(stream)' /\ Quiet(synced)'
         /\ Unclean(stream) /\ Unclean(synced) /\ record.kind # "clean" =>
              Unclean(stream') /\ Unclean(synced')
<1> DEFINE Options == {stream, synced, Torn(stream), Torn(synced),
                       Line(stream, record)}
<1>1. stream' \in Options /\ synced' \in Options
  BY DEF AppendFailed, durable
<1>2. Torn(stream).state # "whole" /\ Torn(synced).state # "whole"
  BY DEF Torn, Files
<1>3. ASSUME NEW f \in Options PROVE Quiet(f)
  BY <1>2 DEF Quiet
<1>4. ASSUME NEW f \in Options, Unclean(stream), Unclean(synced), record.kind # "clean"
      PROVE Unclean(f)
  BY <1>2, <1>4, LineMark DEF Unclean
<1> HIDE DEF Options
<1> QED BY <1>1, <1>3, <1>4 DEF Quiet

(* The file as it was, or none of memory.                                  *)
LEMMA DropQInv ==
  ASSUME Drop, Quiet(stream)', Quiet(synced)'
  PROVE  QInv'
BY DEF QInv, Drop, Opened

(* An append to an open journal, of any record but the mark.               *)
LEMMA OpenAppend ==
  ASSUME IInv, QInv, phase = "open", phase' = "open",
         NEW record \in Records, record.kind # "clean",
         NEW value, ~value.clean,
         Append(record, value), UNCHANGED effects
  PROVE  /\ Quiet(stream)' /\ Quiet(synced)'
         /\ Unclean(stream') /\ Unclean(synced') /\ ~journal'.clean
         /\ stream'.state = "whole" =>
              /\ stream.state = "whole" /\ stream.ledger \in Ledgers
              /\ \/ stream'.ledger = Restore(stream.ledger, record)
                 \/ stream'.ledger = stream.ledger /\ journal' = journal
<1>1. /\ stream \in Files /\ synced \in Files
      /\ Unclean(stream) /\ Unclean(synced) /\ ~journal.clean
      /\ Quiet(stream) /\ Quiet(synced)
  BY DEF IInv, TypeOK, QInv, Opened
<1>2. Unclean(Line(stream, record)) /\ Quiet(Line(stream, record))
  BY <1>1, LineMark DEF Quiet, Unclean
<1>3. CASE Appended(record) /\ journal' = value
  BY <1>1, <1>2, <1>3, LineMark DEF Appended, Quiet, Unclean
<1>4. CASE AppendFailed(record) /\ UNCHANGED journal
  <2>1. /\ Quiet(stream)' /\ Quiet(synced)'
        /\ Unclean(stream') /\ Unclean(synced')
    BY <1>1, <1>2, <1>4, AppendFailedQuiet
  <2>2. Torn(stream).state # "whole"
    BY <1>1 DEF Torn, Files
  <2>3. stream' \in {stream, Torn(stream), Line(stream, record)}
    BY <1>4 DEF AppendFailed, durable
  <2> QED BY <1>1, <1>4, <2>1, <2>2, <2>3, LineMark DEF Files
<1> QED BY <1>3, <1>4 DEF Append

LEMMA OpenAppendQInv ==
  ASSUME IInv, QInv, phase = "open", phase' = "open",
         NEW record \in Records, record.kind \notin {"clean", "handle"},
         NEW value, ~value.clean, value.handles = journal.handles,
         Append(record, value), UNCHANGED <<effects, jobs>>
  PROVE  QInv'
<1>1. journal'.handles = journal.handles
  BY DEF Append
<1>2. stream'.state = "whole" =>
        stream.state = "whole" /\ stream'.ledger.handles = stream.ledger.handles
  BY OpenAppend, RestoreMark
<1>3. HandlesOK'
  BY <1>1, <1>2 DEF QInv, Opened, HandlesOK, Running
<1> QED BY <1>3, OpenAppend DEF QInv, Opened, Unclean

(* The record of a process that starts or ends.                            *)
LEMMA HandleQInv ==
  ASSUME IInv, QInv, phase = "open", phase' = "open",
         NEW h \in Handles, NEW s \in {"running", "ended"},
         Append(HandleRecord(h, s), [journal EXCEPT !.handles[h] = s]),
         s = "running" => h \in jobs' /\ journal.handles[h] = "none",
         jobs \subseteq jobs', UNCHANGED effects
  PROVE  QInv'
<1> DEFINE record == HandleRecord(h, s)
           value == [journal EXCEPT !.handles[h] = s]
<1>1. record \in Records /\ record.kind = "handle"
  BY DEF Records, HandleStates, HandleRecord
<1>2. journal \in Ledgers /\ ~journal.clean
  BY DEF IInv, TypeOK, QInv, Opened
<1>3. ~value.clean /\ value.handles = [journal.handles EXCEPT ![h] = s]
  BY <1>2 DEF Ledgers
<1>4. /\ Quiet(stream)' /\ Quiet(synced)'
      /\ Unclean(stream') /\ Unclean(synced') /\ ~journal'.clean
      /\ stream'.state = "whole" =>
           /\ stream.state = "whole" /\ stream.ledger \in Ledgers
           /\ \/ stream'.ledger = Restore(stream.ledger, record)
              \/ stream'.ledger = stream.ledger /\ journal' = journal
  <2> HIDE DEF record, value
  <2>1. Append(record, value)
    BY DEF record, value
  <2> QED BY <1>1, <1>3, <2>1, OpenAppend
<1>5. HandlesOK'
  <2> SUFFICES ASSUME stream'.state = "whole", NEW g \in Handles,
                      stream'.ledger.handles[g] = "running"
               PROVE  \/ journal'.handles[g] = "running"
                      \/ g \in jobs' /\ journal'.handles[g] # "ended"
    BY DEF HandlesOK, Running
  <2>1. journal' = value \/ journal' = journal
    BY DEF Append
  <2>2. /\ journal.handles \in [Handles -> HandleStates]
        /\ stream.ledger.handles \in [Handles -> HandleStates]
    BY <1>2, <1>4 DEF Ledgers
  <2>3. stream.ledger.handles[g] = "running" =>
          journal.handles[g] = "running" \/ (g \in jobs /\ journal.handles[g] # "ended")
    BY <1>4 DEF QInv, Opened, HandlesOK, Running
  <2>4. CASE stream'.ledger = stream.ledger /\ journal' = journal
    BY <2>3, <2>4
  <2>5. CASE stream'.ledger = Restore(stream.ledger, record)
    <3>1. stream'.ledger.handles = [stream.ledger.handles EXCEPT ![h] = s]
      <4>1. s \in HandleStates
        BY DEF HandleStates
      <4>2. stream'.ledger = [stream.ledger EXCEPT !.handles = [@ EXCEPT ![h] = s]]
        BY <1>4, <2>5, <4>1, RestoreHandle
      <4> QED BY <1>4, <4>2 DEF Ledgers
    <3>2. /\ stream'.ledger.handles[g] = IF g = h THEN s ELSE stream.ledger.handles[g]
          /\ value.handles[g] = IF g = h THEN s ELSE journal.handles[g]
      BY <1>3, <2>2, <3>1
    <3> HIDE DEF value
    <3>3. CASE g = h
      BY <2>1, <3>2, <3>3
    <3>4. CASE g # h
      BY <2>1, <2>3, <3>2, <3>4
    <3> QED BY <3>3, <3>4
  <2> QED BY <1>4, <2>4, <2>5
<1> QED BY <1>4, <1>5 DEF QInv, Opened, Unclean

LEMMA OpenQInv ==
  ASSUME QInv, NEW o \in Owners, Open(o)
  PROVE  QInv'
<1>1. /\ phase' = "validated" /\ journal' = [stream.ledger EXCEPT !.owner = o]
      /\ UNCHANGED <<stream, synced, effects>>
  BY DEF Open
<1>2. Quiet(stream)' /\ Quiet(synced)'
  BY <1>1 DEF QInv, Quiet
<1> QED BY <1>1, <1>2 DEF QInv, Opened

LEMMA TeardownQInv ==
  ASSUME IInv, QInv, NEW h \in Handles, RecordExternalTeardown(h)
  PROVE  QInv'
<1> DEFINE record == HandleRecord(h, "ended")
<1>1. record \in Records /\ record.kind = "handle"
  BY DEF Records, HandleStates, HandleRecord
<1>2. /\ phase = "validated" /\ stream \in Files /\ synced \in Files
      /\ stream.state = "whole" /\ stream.ledger \in Ledgers
      /\ journal.handles = stream.ledger.handles
      /\ journal \in Ledgers
      /\ UNCHANGED effects
  BY DEF RecordExternalTeardown, IInv, TypeOK, ValidatedOK, QInv, Files, history
<1>3. Unclean(stream)
  BY <1>2 DEF RecordExternalTeardown, QInv, Quiet, Unclean, Running
<1>4. Unclean(Line(stream, record)) /\ Quiet(Line(stream, record))
  <2>1. record.kind # "clean"
    BY <1>1
  <2> HIDE DEF record
  <2>2. Unclean(Line(stream, record))
    BY <1>1, <1>2, <1>3, <2>1, LineMark
  <2> QED BY <2>2 DEF Quiet, Unclean
<1>5. CASE /\ Appended(record) /\ journal' = [journal EXCEPT !.handles[h] = "ended"]
           /\ UNCHANGED phase
  <2>1. Restore(stream.ledger, record)
          = [stream.ledger EXCEPT !.handles = [@ EXCEPT ![h] = "ended"]]
    BY <1>2, RestoreHandle DEF HandleStates
  <2> HIDE DEF record
  <2>2. /\ stream' = Line(stream, record) /\ synced' = Line(stream, record)
        /\ stream'.ledger = Restore(stream.ledger, record)
    BY <1>2, <1>5 DEF Appended, Line, Files
  <2>3. journal'.handles = stream'.ledger.handles
    BY <1>2, <1>5, <2>1, <2>2 DEF Ledgers
  <2>4. Quiet(stream)' /\ Quiet(synced)'
    BY <1>2, <1>4, <2>2 DEF Quiet
  <2> QED BY <1>2, <1>5, <2>3, <2>4 DEF QInv, Opened
<1>6. CASE AppendFailed(record) /\ Drop
  <2> HIDE DEF record
  <2>1. Quiet(stream)' /\ Quiet(synced)'
    BY <1>1, <1>2, <1>4, <1>6, AppendFailedQuiet DEF QInv
  <2> QED BY <1>6, <2>1, DropQInv
<1> QED BY <1>5, <1>6 DEF RecordExternalTeardown

LEMMA WriteHeaderQInv ==
  ASSUME IInv, QInv, WriteHeader
  PROVE  QInv'
<1> DEFINE record == Header(journal.owner)
<1>1. /\ phase = "validated" /\ stream \in Files /\ synced \in Files
      /\ stream.state = "whole" /\ stream.ledger \in Ledgers
      /\ journal.handles = stream.ledger.handles
      /\ journal \in Ledgers /\ journal.owner \in Owners
      /\ UNCHANGED effects
  BY DEF WriteHeader, IInv, TypeOK, ValidatedOK, QInv, Files, Ledgers
<1>2. record \in Records /\ record.kind = "header"
  BY <1>1 DEF Records, Header
<1>3. Unclean(Line(stream, record)) /\ Quiet(Line(stream, record))
  <2> HIDE DEF record
  <2>1. Unclean(Line(stream, record))
    BY <1>1, <1>2, LineMark
  <2> QED BY <2>1 DEF Quiet, Unclean
<1>4. CASE /\ Appended(record) /\ journal' = [journal EXCEPT !.clean = FALSE]
           /\ phase' \in {"open", "compact"}
  <2> HIDE DEF record
  <2>1. stream' = Line(stream, record) /\ synced' = Line(stream, record)
    BY <1>4 DEF Appended
  <2>2. stream'.ledger.handles = stream.ledger.handles
    BY <1>1, <1>2, <2>1, RestoreMark DEF Line, Files
  <2>3. ~journal'.clean /\ journal'.handles = journal.handles
    BY <1>1, <1>4 DEF Ledgers
  <2>4. Quiet(stream)' /\ Quiet(synced)'
    BY <1>1, <1>3, <2>1 DEF Quiet
  <2>5. HandlesOK'
    BY <1>1, <2>2, <2>3 DEF HandlesOK, Running
  <2> QED BY <1>3, <1>4, <2>1, <2>3, <2>4, <2>5 DEF QInv, Opened, Unclean
<1>5. CASE AppendFailed(record) /\ Drop
  <2> HIDE DEF record
  <2>1. Quiet(stream)' /\ Quiet(synced)'
    BY <1>1, <1>2, <1>3, <1>5, AppendFailedQuiet DEF QInv
  <2> QED BY <1>5, <2>1, DropQInv
<1> QED BY <1>4, <1>5 DEF WriteHeader

LEMMA CompactQInv ==
  ASSUME IInv, QInv, Compact
  PROVE  QInv'
<1>1. /\ Snapshot(journal).state = "whole" /\ Snapshot(journal).ledger = journal
      /\ ~journal.clean /\ UNCHANGED effects
  BY DEF Snapshot, Compact, QInv, Opened, history
<1>2. Unclean(Snapshot(journal)) /\ Quiet(Snapshot(journal))
  BY <1>1 DEF Unclean, Quiet
<1>3. Quiet(stream)' /\ Quiet(synced)'
  <2>1. stream' \in {stream, Snapshot(journal)}
        /\ synced' \in {synced, stream, Snapshot(journal)}
    BY DEF Compact
  <2> QED BY <1>1, <1>2, <2>1 DEF QInv, Quiet
<1>4. CASE /\ stream' = Snapshot(journal) /\ synced' = Snapshot(journal)
           /\ phase' = "open" /\ UNCHANGED <<journal, jobs>>
  <2>1. HandlesOK'
    BY <1>1, <1>4 DEF HandlesOK, Running
  <2> QED BY <1>1, <1>2, <1>3, <1>4, <2>1 DEF QInv, Opened, Unclean
<1> QED BY <1>3, <1>4, DropQInv DEF Compact

LEMMA MarkCleanQInv ==
  ASSUME IInv, QInv, MarkClean
  PROVE  QInv'
<1>1. /\ phase = "open" /\ Drop /\ UNCHANGED effects
      /\ stream \in Files /\ synced \in Files /\ CleanRecord \in Records
      /\ Quiet(stream) /\ Quiet(synced)
  BY DEF MarkClean, history, IInv, TypeOK, Records, QInv
<1>2. Quiet(Line(stream, CleanRecord))
  <2> SUFFICES ASSUME Line(stream, CleanRecord).state = "whole"
               PROVE  LET l == Line(stream, CleanRecord).ledger
                      IN  /\ \A k \in Keys : effects[k] > 0 => l.receipt[k] # None
                          /\ Running(l) = {}
    BY DEF Quiet
  <2>1. /\ stream.state = "whole" /\ stream.ledger \in Ledgers
        /\ Line(stream, CleanRecord).ledger = [stream.ledger EXCEPT !.clean = TRUE]
    BY <1>1, LineMark, RestoreClean
  <2>2. /\ Line(stream, CleanRecord).ledger.receipt = stream.ledger.receipt
        /\ Line(stream, CleanRecord).ledger.handles = stream.ledger.handles
    BY <2>1 DEF Ledgers
  <2>3. Mirrors(stream.ledger) /\ Agrees(journal) /\ HandlesOK
    BY <1>1, <2>1 DEF IInv, GoodFile, QInv, Opened
  <2>4. ASSUME NEW k \in Keys, effects[k] > 0
        PROVE  stream.ledger.receipt[k] # None
    BY <2>3, <2>4 DEF MarkClean, HasUncertainEffects, Mirrors, Agrees
  <2>5. Running(stream.ledger) = {}
    BY <2>1, <2>3 DEF MarkClean, HandlesOK, Running
  <2> QED BY <2>2, <2>4, <2>5 DEF Running
<1>3. Quiet(stream)' /\ Quiet(synced)'
  <2>1. CASE Appended(CleanRecord)
    BY <1>1, <1>2, <2>1 DEF Appended, Quiet
  <2>2. CASE AppendFailed(CleanRecord)
    BY <1>1, <1>2, <2>2, AppendFailedQuiet
  <2> QED BY <2>1, <2>2 DEF MarkClean
<1> QED BY <1>1, <1>3, DropQInv

LEMMA NextQInv == IInv /\ QInv /\ [Next]_vars => QInv'
<1> SUFFICES ASSUME IInv, QInv, [Next]_vars PROVE QInv'
  OBVIOUS
<1>0. journal \in Ledgers
  BY DEF IInv, TypeOK
<1>1. ASSUME NEW o \in Owners, Open(o) PROVE QInv'
  BY <1>1, OpenQInv
<1>2. ASSUME NEW h \in Handles, RecordExternalTeardown(h) PROVE QInv'
  BY <1>2, TeardownQInv
<1>3. CASE WriteHeader
  BY <1>3, WriteHeaderQInv
<1>4. CASE Compact
  BY <1>4, CompactQInv
<1>5. ASSUME NEW k \in Keys, NEW q \in Requests, Intent(k, q) PROVE QInv'
  <2> DEFINE record == IntentRecord(k, q)
             value == Restore(journal, record)
  <2>1. record \in Records /\ record.kind = "intent"
    BY DEF Records, IntentRecord
  <2>2. ~journal.clean
    BY <1>5 DEF Intent, QInv, Opened
  <2>3. ~value.clean /\ value.handles = journal.handles
    BY <1>0, <2>1, <2>2, RestoreMark
  <2>4. /\ Append(record, value) /\ phase = "open" /\ phase' = "open"
        /\ UNCHANGED <<effects, jobs>>
    BY <1>5 DEF Intent, Append, history
  <2> HIDE DEF record, value
  <2> QED BY <2>1, <2>3, <2>4, OpenAppendQInv
<1>6. ASSUME NEW k \in Keys, NEW r \in Receipts, Receipt(k, r) PROVE QInv'
  <2> DEFINE record == ReceiptRecord(k, r)
             value == [journal EXCEPT !.receipt[k] = r]
  <2>1. record \in Records /\ record.kind = "receipt"
    BY DEF Records, ReceiptRecord
  <2>2. ~journal.clean
    BY <1>6 DEF Receipt, QInv, Opened
  <2>3. ~value.clean /\ value.handles = journal.handles
    BY <1>0, <2>2 DEF Ledgers
  <2>4. /\ Append(record, value) /\ phase = "open" /\ phase' = "open"
        /\ UNCHANGED <<effects, jobs>>
    BY <1>6 DEF Receipt, Append, history
  <2> HIDE DEF record, value
  <2> QED BY <2>1, <2>3, <2>4, OpenAppendQInv
<1>7. ASSUME NEW k \in Keys, Ack(k) PROVE QInv'
  <2> DEFINE record == AckRecord(k)
             value == [journal EXCEPT !.acknowledged = @ \cup {k}]
  <2>1. record \in Records /\ record.kind = "ack"
    BY DEF Records, AckRecord
  <2>2. ~journal.clean
    BY <1>7 DEF Ack, QInv, Opened
  <2>3. ~value.clean /\ value.handles = journal.handles
    BY <1>0, <2>2 DEF Ledgers
  <2>4. phase = "open" /\ phase' = "open" /\ UNCHANGED <<effects, jobs>>
    BY <1>7 DEF Ack, history
  <2>5. CASE Append(record, value)
    <3> HIDE DEF record, value
    <3> QED BY <2>1, <2>3, <2>4, <2>5, OpenAppendQInv
  <2>6. CASE UNCHANGED <<journal, stream, synced>>
    BY <2>4, <2>6 DEF QInv, Quiet, Opened, Unclean, HandlesOK, Running
  <2> QED BY <1>7, <2>5, <2>6 DEF Ack
<1>8. ASSUME NEW h \in Handles, StartProcess(h) PROVE QInv'
  BY <1>8, HandleQInv DEF StartProcess, history
<1>9. ASSUME NEW h \in Handles, EndProcess(h) PROVE QInv'
  BY <1>9, HandleQInv DEF EndProcess, history
<1>10. ASSUME NEW k \in Keys, RunEffect(k) \/ Deliver(k) PROVE QInv'
  <2>1. phase = "open" /\ UNCHANGED <<phase, journal, stream, synced, jobs>>
    BY <1>10 DEF RunEffect, Deliver
  <2> QED BY <2>1 DEF QInv, Quiet, Opened, Unclean, HandlesOK, Running
<1>11. CASE MarkClean
  BY <1>11, MarkCleanQInv
<1>12. CASE Exit \/ PowerLoss
  <2>1. Drop /\ UNCHANGED effects /\ stream' \in {stream, synced} /\ synced' = synced
    BY <1>12 DEF Exit, PowerLoss, history
  <2>2. Quiet(stream)' /\ Quiet(synced)'
    BY <2>1 DEF QInv, Quiet
  <2> QED BY <2>1, <2>2, DropQInv
<1>13. CASE UNCHANGED vars
  BY <1>13 DEF vars, QInv, Quiet, Opened, Unclean, HandlesOK, Running
<1> QED
  BY <1>1, <1>2, <1>3, <1>4, <1>5, <1>6, <1>7, <1>8, <1>9, <1>10, <1>11,
     <1>12, <1>13 DEF Next

(* A clean mark on disk is never stale: whatever failed or crashed since,  *)
(* a file that bears the mark and can be read holds the receipt of every   *)
(* effect and no running process.                                          *)
THEOREM JournalCleanMeansQuiet == Spec => []CleanMeansQuiet
<1>1. IInv /\ QInv /\ [Next]_vars => QInv'
  BY NextQInv
<1>2. QInv => CleanMeansQuiet
  BY DEF QInv, Quiet, CleanMeansQuiet
<1> QED
  BY <1>1, <1>2, InitQInv, JournalInvariant, PTL DEF Spec

-----------------------------------------------------------------------------
(* Module Ledger: what the next process reads back of what the last knew.  *)

ReadsBack(l) ==
  \A k \in Keys :
    /\ l.owner = None => l.request[k] = None
    /\ k \in known.intents => l.request[k] # None
    /\ known.receipt[k] # None => l.receipt[k] = known.receipt[k]
    /\ k \in known.acked => k \in l.acknowledged
    /\ k \notin known.intents => l.receipt[k] = None

KFile(file) == file.state = "whole" => ReadsBack(file.ledger)

(* No file lost anything that is known, and none holds a receipt of an     *)
(* operation that is not; what was read for taking over is certain.        *)
KInv ==
  /\ known.intents \subseteq Keys /\ known.acked \subseteq Keys
  /\ Opened => known = View(journal)
  /\ KFile(stream) /\ KFile(synced)
  /\ phase = "validated" => ~HasUncertainEffects(journal)

LEMMA InitKInv == HInit => KInv
<1> SUFFICES ASSUME HInit PROVE KInv
  OBVIOUS
<1>1. /\ EmptyLedger.request = [k \in Keys |-> None]
      /\ EmptyLedger.receipt = [k \in Keys |-> None]
      /\ EmptyLedger.acknowledged = {}
  BY DEF EmptyLedger
<1>2. /\ known.intents = {} /\ known.acked = {}
      /\ known.receipt = [k \in Keys |-> None]
  BY <1>1 DEF HInit, View
<1>3. ReadsBack(EmptyLedger)
  BY <1>1, <1>2 DEF ReadsBack
<1>4. KFile(stream) /\ KFile(synced)
  BY <1>3 DEF HInit, Init, KFile
<1> QED
  BY <1>2, <1>4 DEF HInit, Init, KInv, Opened

(* A record takes nothing that is known away from a good file.             *)
KeepsKnown(record) ==
  \A l \in Ledgers :
    GoodLedger(l) /\ ReadsBack(l) => ReadsBack(Restore(l, record))

LEMMA LineKnown ==
  ASSUME NEW f \in Files, GoodFile(f), KFile(f),
         NEW record, KeepsKnown(record)
  PROVE  KFile(Line(f, record))
<1>1. CASE f.state = "whole"
  <2>1. f.ledger \in Ledgers /\ GoodLedger(f.ledger) /\ ReadsBack(f.ledger)
    BY <1>1 DEF Files, GoodFile, GoodLedger, KFile
  <2>2. ReadsBack(Restore(f.ledger, record))
    BY <2>1 DEF KeepsKnown
  <2>3. Line(f, record).ledger = Restore(f.ledger, record)
    BY <1>1 DEF Line, Files
  <2>4. QED
    BY <2>2, <2>3 DEF KFile
<1>2. CASE f.state # "whole"
  BY <1>2 DEF Line, Files, KFile
<1>3. QED
  BY <1>1, <1>2

LEMMA AppendKnown ==
  ASSUME IInv, KInv, NEW record, KeepsKnown(record),
         Appended(record) \/ AppendFailed(record)
  PROVE  KFile(stream') /\ KFile(synced')
<1> DEFINE Options == {stream, synced, Torn(stream), Torn(synced),
                       Line(stream, record)}
<1>1. stream' \in Options /\ synced' \in Options
  BY DEF Appended, AppendFailed, durable
<1>2. KFile(Line(stream, record))
  BY LineKnown DEF IInv, TypeOK, KInv
<1>3. ASSUME NEW f \in {stream, synced} PROVE KFile(Torn(f))
  BY <1>3 DEF Torn, KFile, IInv, TypeOK, Files
<1>4. \A f \in Options : KFile(f)
  BY <1>2, <1>3 DEF KInv
<1> HIDE DEF Options
<1> QED
  BY <1>1, <1>4

LEMMA KnownHandle ==
  ASSUME NEW h \in Handles, NEW s \in HandleStates
  PROVE  KeepsKnown(HandleRecord(h, s))
<1>1. SUFFICES ASSUME NEW l \in Ledgers, ReadsBack(l)
               PROVE  ReadsBack(Restore(l, HandleRecord(h, s)))
  BY DEF KeepsKnown
<1>2. Restore(l, HandleRecord(h, s)) =
        [l EXCEPT !.handles = [@ EXCEPT ![h] = s]]
  BY RestoreHandle
<1>3. QED
  BY <1>1, <1>2 DEF ReadsBack, Ledgers

LEMMA KnownClean == KeepsKnown(CleanRecord)
<1>1. SUFFICES ASSUME NEW l \in Ledgers, ReadsBack(l)
               PROVE  ReadsBack(Restore(l, CleanRecord))
  BY DEF KeepsKnown
<1>2. Restore(l, CleanRecord) = [l EXCEPT !.clean = TRUE]
  BY RestoreClean
<1>3. QED
  BY <1>1, <1>2 DEF ReadsBack, Ledgers

LEMMA KnownHeader ==
  ASSUME NEW o \in Owners
  PROVE  KeepsKnown(Header(o))
<1>1. SUFFICES ASSUME NEW l \in Ledgers, ReadsBack(l)
               PROVE  ReadsBack(Restore(l, Header(o)))
  BY DEF KeepsKnown
<1> DEFINE e == [l EXCEPT !.owner = o]
<1>2. Restore(l, Header(o)) = [e EXCEPT !.clean = FALSE]
  BY RestoreHeader, Zenon
<1>3. /\ e \in Ledgers /\ e.owner = o
      /\ e.request = l.request /\ e.receipt = l.receipt
      /\ e.acknowledged = l.acknowledged
  BY DEF Ledgers
<1> HIDE DEF e
<1>4. /\ Restore(l, Header(o)).owner = o
      /\ Restore(l, Header(o)).request = l.request
      /\ Restore(l, Header(o)).receipt = l.receipt
      /\ Restore(l, Header(o)).acknowledged = l.acknowledged
  BY <1>2, <1>3 DEF Ledgers
<1>5. o # None
  BY JournalAssumption
<1> QED
  BY <1>1, <1>4, <1>5 DEF ReadsBack

-----------------------------------------------------------------------------
(* What a step does to what is known.                                      *)
KStep ==
  /\ KFile(stream') /\ KFile(synced')
  /\ phase' = "validated" => ~HasUncertainEffects(journal')
  /\ Opened' => /\ known.intents \subseteq known'.intents
                /\ known' = known \/ L!LedgerNext

LEMMA KStepInv ==
  ASSUME IInv', KInv, Know, KStep
  PROVE  KInv'
<1>1. CASE ~Opened'
  <2>1. known' = known
    BY <1>1 DEF Know, Opened
  <2>2. KFile(stream)' /\ KFile(synced)'
    BY <2>1 DEF KStep, KFile, ReadsBack
  <2> QED
    BY <1>1, <2>1, <2>2 DEF KInv, KStep, HasUncertainEffects
<1>2. CASE Opened'
  <2>1. known' = View(journal') /\ journal' \in Ledgers
    BY <1>2 DEF Know, Opened, IInv, TypeOK
  <2>2. /\ known'.intents = {k \in Keys : journal'.request[k] # None}
        /\ known'.receipt = journal'.receipt
        /\ known'.acked = journal'.acknowledged
    BY <2>1 DEF View
  <2>3. journal'.owner # None
    BY <1>2 DEF IInv, OpenedOK
  <2>4. KFile(stream)'
    <3>1. SUFFICES ASSUME stream'.state = "whole" PROVE ReadsBack(stream.ledger)'
      BY DEF KFile
    <3>2. Mirrors(stream.ledger)'
      BY <1>2, <3>1 DEF IInv, GoodFile
    <3>3. \A k \in Keys : k \notin known.intents => stream'.ledger.receipt[k] = None
      BY <3>1 DEF KStep, KFile, ReadsBack
    <3> QED
      BY <1>2, <2>2, <2>3, <3>2, <3>3 DEF ReadsBack, Mirrors, KStep
  <2>5. KFile(synced)'
    <3>1. SUFFICES ASSUME synced'.state = "whole" PROVE ReadsBack(synced.ledger)'
      BY DEF KFile
    <3>2. Mirrors(synced.ledger)'
      BY <1>2, <3>1 DEF IInv, GoodFile
    <3>3. \A k \in Keys : k \notin known.intents => synced'.ledger.receipt[k] = None
      BY <3>1 DEF KStep, KFile, ReadsBack
    <3> QED
      BY <1>2, <2>2, <2>3, <3>2, <3>3 DEF ReadsBack, Mirrors, KStep
  <2>6. known'.intents \subseteq Keys /\ known'.acked \subseteq Keys
    BY <2>1, <2>2 DEF Ledgers
  <2>7. phase' # "validated"
    BY <1>2 DEF Opened
  <2> QED
    BY <2>1, <2>4, <2>5, <2>6, <2>7 DEF KInv
<1> QED
  BY <1>1, <1>2

(* A step of an open journal that says nothing new of the operations.      *)
LEMMA SameKnown ==
  ASSUME KInv, Know, Opened, Opened',
         journal'.request = journal.request,
         journal'.receipt = journal.receipt,
         journal'.acknowledged = journal.acknowledged,
         KFile(stream'), KFile(synced')
  PROVE  KStep
<1>1. known' = known
  BY DEF KInv, Know, View, Opened
<1> QED
  BY <1>1 DEF KStep, Opened

(* A step after which the journal is not open.                             *)
LEMMA DropKnown ==
  ASSUME Drop, KFile(stream'), KFile(synced')
  PROVE  KStep
BY DEF Drop, KStep, Opened

LEMMA OpenKnown ==
  ASSUME IInv, KInv, NEW o \in Owners, Open(o)
  PROVE  KStep
<1>1. /\ stream.state = "whole" /\ phase' = "validated"
      /\ journal' = [stream.ledger EXCEPT !.owner = o]
      /\ UNCHANGED <<stream, synced>>
      /\ stream.ledger.owner # None => ~HasUncertainEffects(stream.ledger)
  BY DEF Open, RestartAllowed
<1>2. journal'.request = stream.ledger.request /\ journal'.receipt = stream.ledger.receipt
  BY <1>1 DEF IInv, TypeOK, Files, Ledgers
<1>3. ~HasUncertainEffects(stream.ledger)
  BY <1>1 DEF KInv, KFile, ReadsBack, HasUncertainEffects
<1>4. ~HasUncertainEffects(journal')
  BY <1>2, <1>3 DEF HasUncertainEffects
<1> QED
  BY <1>1, <1>4 DEF KStep, KInv, Opened

LEMMA TeardownKnown ==
  ASSUME IInv, KInv, NEW h \in Handles, RecordExternalTeardown(h)
  PROVE  KStep
<1> DEFINE record == HandleRecord(h, "ended")
<1>1. KeepsKnown(record)
  BY KnownHandle DEF HandleStates
<1>2. phase = "validated" /\ (Appended(record) \/ AppendFailed(record))
  BY DEF RecordExternalTeardown
<1> HIDE DEF record
<1>3. KFile(stream') /\ KFile(synced')
  BY <1>1, <1>2, AppendKnown
<1>4. CASE Drop
  BY <1>3, <1>4, DropKnown
<1>5. CASE /\ phase' = phase
           /\ journal' = [journal EXCEPT !.handles[h] = "ended"]
  <2>1. journal'.request = journal.request /\ journal'.receipt = journal.receipt
    BY <1>5 DEF IInv, TypeOK, Ledgers
  <2>2. ~HasUncertainEffects(journal')
    BY <1>2, <2>1 DEF KInv, HasUncertainEffects
  <2> QED
    BY <1>2, <1>3, <1>5, <2>2 DEF KStep, Opened
<1> QED
  BY <1>4, <1>5 DEF RecordExternalTeardown

(* Taking over: the new owner knows what the file holds.                   *)
LEMMA WriteHeaderKnown ==
  ASSUME IInv, KInv, IInv', Know, WriteHeader
  PROVE  KStep
<1> DEFINE record == Header(journal.owner)
<1>1. phase = "validated" /\ (Appended(record) \/ AppendFailed(record))
  BY DEF WriteHeader
<1>2. KeepsKnown(record)
  BY <1>1, KeepsHeader, KnownHeader
<1>3. KFile(stream') /\ KFile(synced')
  <2> HIDE DEF record
  <2> QED BY <1>1, <1>2, AppendKnown
<1>4. CASE Drop
  BY <1>3, <1>4, DropKnown
<1>5. CASE /\ phase' \in {"open", "compact"}
           /\ journal' = [journal EXCEPT !.clean = FALSE]
  <2>1. /\ journal'.request = journal.request
        /\ journal'.receipt = journal.receipt
        /\ journal'.acknowledged = journal.acknowledged
        /\ journal' \in Ledgers
    BY <1>5 DEF IInv, TypeOK, Ledgers
  <2>2. /\ known'.intents = {k \in Keys : journal.request[k] # None}
        /\ known'.receipt = journal.receipt
        /\ known'.acked = journal.acknowledged
    BY <1>5, <2>1 DEF Know, View
  <2>3. /\ journal.request = stream.ledger.request
        /\ journal.receipt = stream.ledger.receipt
        /\ journal.acknowledged = stream.ledger.acknowledged
        /\ ReadsBack(stream.ledger)
    BY <1>1 DEF IInv, ValidatedOK, KInv, KFile
  <2>4. \A k \in Keys :
          /\ k \in known.intents => journal.request[k] # None
          /\ known.receipt[k] # None => journal.receipt[k] = known.receipt[k]
          /\ k \in known.acked => k \in journal.acknowledged
          /\ k \notin known.intents => journal.receipt[k] = None
    BY <2>3 DEF ReadsBack
  <2>5. \A k \in Keys : journal.request[k] # None => journal.receipt[k] # None
    BY <1>1 DEF KInv, HasUncertainEffects
  <2>6. known'.intents = known.intents
    BY <2>2, <2>4, <2>5 DEF KInv
  <2>7. L!TakeOver
    <3>1. known'.receipt \in [Keys -> Receipts \cup {None}]
      BY <2>1, <2>2 DEF Ledgers
    <3>2. \A k \in Keys :
            /\ known.receipt[k] # None => known'.receipt[k] = known.receipt[k]
            /\ known'.receipt[k] # None => k \in known.intents
      BY <2>2, <2>4
    <3>3. known.acked \subseteq known'.acked
      BY <2>2, <2>4 DEF KInv
    <3>4. \A k \in known'.acked : known'.receipt[k] # None
      <4>1. Agrees(journal) /\ journal.acknowledged \subseteq Keys
        BY <1>1 DEF IInv, TypeOK, Ledgers
      <4> QED BY <2>2, <4>1 DEF Agrees
    <3> QED
      BY <2>6, <3>1, <3>2, <3>3, <3>4 DEF L!TakeOver
  <2>8. L!LedgerNext
    BY <2>7 DEF L!LedgerNext
  <2> QED
    BY <1>3, <1>5, <2>6, <2>8 DEF KStep
<1> QED
  BY <1>4, <1>5 DEF WriteHeader

LEMMA CompactKnown ==
  ASSUME IInv, KInv, Know, Compact
  PROVE  KStep
<1>1. phase = "compact" /\ Opened /\ journal.owner # None /\ journal \in Ledgers
  BY DEF Compact, Opened, IInv, OpenedOK, TypeOK
<1>2. known = View(journal)
  BY <1>1 DEF KInv
<1>3. /\ known.intents = {k \in Keys : journal.request[k] # None}
      /\ known.receipt = journal.receipt
      /\ known.acked = journal.acknowledged
  BY <1>2 DEF View
<1>4. \A k \in Keys : journal.request[k] = None => journal.receipt[k] = None
  BY <1>1 DEF IInv, Agrees, OutsideOK
<1>5. ReadsBack(journal)
  BY <1>1, <1>3, <1>4 DEF ReadsBack
<1>6. KFile(Snapshot(journal))
  BY <1>5 DEF Snapshot, KFile
<1>7. stream' \in {stream, Snapshot(journal)} /\ synced' \in {synced, stream'}
  BY DEF Compact
<1>8. KFile(stream') /\ KFile(synced')
  BY <1>6, <1>7 DEF KInv
<1>9. CASE Drop
  BY <1>8, <1>9, DropKnown
<1>10. CASE phase' = "open" /\ UNCHANGED journal
  BY <1>1, <1>8, <1>10, SameKnown DEF Opened
<1> QED
  BY <1>9, <1>10 DEF Compact

LEMMA IntentKnown ==
  ASSUME IInv, KInv, Know, NEW k \in Keys, NEW q \in Requests, Intent(k, q)
  PROVE  KStep
<1> DEFINE record == IntentRecord(k, q)
<1>1. /\ phase = "open" /\ journal.request[k] = None
      /\ phase' = "open" /\ Opened /\ Opened'
      /\ Appended(record) \/ AppendFailed(record)
      /\ journal.owner # None /\ journal \in Ledgers
  BY DEF Intent, Opened, IInv, OpenedOK, TypeOK
<1>2. journal.receipt[k] = None /\ k \notin journal.acknowledged
  BY <1>1, KeepsIntent
<1>3. /\ known.intents = {j \in Keys : journal.request[j] # None}
      /\ known.receipt = journal.receipt
      /\ known.acked = journal.acknowledged
  BY <1>1 DEF KInv, View
<1>4. KeepsKnown(record)
  <2>1. SUFFICES ASSUME NEW l \in Ledgers, GoodLedger(l), ReadsBack(l)
                 PROVE  ReadsBack(Restore(l, record))
    BY DEF KeepsKnown
  <2>2. Restore(l, record) = [l EXCEPT !.request = [@ EXCEPT ![k] = q],
                                       !.receipt = [@ EXCEPT ![k] = None],
                                       !.acknowledged = @ \ {k}]
    BY RestoreIntent
  <2>3. /\ Restore(l, record).owner = l.owner
        /\ Restore(l, record).request = [l.request EXCEPT ![k] = q]
        /\ Restore(l, record).receipt = [l.receipt EXCEPT ![k] = None]
        /\ Restore(l, record).acknowledged = l.acknowledged \ {k}
    BY <2>2 DEF Ledgers
  <2>4. l.owner # None /\ q # None
    BY <1>1, <2>1, JournalAssumption DEF GoodLedger, Mirrors
  <2> HIDE DEF record
  <2> QED
    BY <1>1, <1>2, <1>3, <2>1, <2>3, <2>4 DEF ReadsBack, Ledgers
<1>5. KFile(stream') /\ KFile(synced')
  <2> HIDE DEF record
  <2> QED BY <1>1, <1>4, AppendKnown
<1>6. CASE UNCHANGED journal
  BY <1>1, <1>5, <1>6, SameKnown
<1>7. CASE journal' = Restore(journal, record)
  <2>1. journal' = [journal EXCEPT !.request = [@ EXCEPT ![k] = q],
                                   !.receipt = [@ EXCEPT ![k] = None],
                                   !.acknowledged = @ \ {k}]
    BY <1>1, <1>7, RestoreIntent
  <2>2. /\ journal'.request = [journal.request EXCEPT ![k] = q]
        /\ journal'.receipt = [journal.receipt EXCEPT ![k] = None]
        /\ journal'.acknowledged = journal.acknowledged \ {k}
    BY <1>1, <2>1 DEF Ledgers
  <2>3. journal'.receipt = journal.receipt /\ journal'.acknowledged = journal.acknowledged
    BY <1>1, <1>2, <2>2 DEF Ledgers
  <2>4. q # None
    BY JournalAssumption
  <2>5. known' = View(journal')
    BY <1>1 DEF Know
  <2>6. /\ known'.intents = known.intents \cup {k}
        /\ known'.receipt = known.receipt
        /\ known'.acked = known.acked
    BY <1>1, <1>3, <2>2, <2>3, <2>4, <2>5 DEF View, Ledgers
  <2>7. L!TakeIntent(k)
    BY <1>1, <1>3, <2>6 DEF L!TakeIntent
  <2> QED
    BY <1>1, <1>5, <2>6, <2>7 DEF KStep, L!LedgerNext
<1> QED
  BY <1>6, <1>7 DEF Intent

LEMMA ReceiptKnown ==
  ASSUME IInv, KInv, Know, NEW k \in Keys, NEW r \in Receipts, Receipt(k, r)
  PROVE  KStep
<1> DEFINE record == ReceiptRecord(k, r)
<1>1. /\ phase = "open" /\ journal.request[k] # None
      /\ journal.receipt[k] = None
      /\ phase' = "open" /\ Opened /\ Opened'
      /\ Appended(record) \/ AppendFailed(record)
      /\ journal \in Ledgers
  BY DEF Receipt, Opened, IInv, TypeOK
<1>2. /\ known.intents = {j \in Keys : journal.request[j] # None}
      /\ known.receipt = journal.receipt
      /\ known.acked = journal.acknowledged
  BY <1>1 DEF KInv, View
<1>3. KeepsKnown(record)
  <2>1. SUFFICES ASSUME NEW l \in Ledgers, ReadsBack(l)
                 PROVE  ReadsBack(Restore(l, record))
    BY DEF KeepsKnown
  <2>2. Restore(l, record) = [l EXCEPT !.receipt = [@ EXCEPT ![k] = r]]
    BY RestoreReceipt
  <2>3. /\ Restore(l, record).owner = l.owner
        /\ Restore(l, record).request = l.request
        /\ Restore(l, record).receipt = [l.receipt EXCEPT ![k] = r]
        /\ Restore(l, record).acknowledged = l.acknowledged
    BY <2>2 DEF Ledgers
  <2> HIDE DEF record
  <2> QED
    BY <1>1, <1>2, <2>1, <2>3 DEF ReadsBack, Ledgers
<1>4. KFile(stream') /\ KFile(synced')
  <2> HIDE DEF record
  <2> QED BY <1>1, <1>3, AppendKnown
<1>5. CASE UNCHANGED journal
  BY <1>1, <1>4, <1>5, SameKnown
<1>6. CASE journal' = [journal EXCEPT !.receipt[k] = r]
  <2>1. /\ journal'.request = journal.request
        /\ journal'.receipt = [journal.receipt EXCEPT ![k] = r]
        /\ journal'.acknowledged = journal.acknowledged
    BY <1>1, <1>6 DEF Ledgers
  <2>2. known' = View(journal')
    BY <1>1 DEF Know
  <2>3. /\ known'.intents = known.intents
        /\ known'.receipt = [known.receipt EXCEPT ![k] = r]
        /\ known'.acked = known.acked
    BY <1>2, <2>1, <2>2 DEF View
  <2>4. L!TakeReceipt(k, r)
    BY <1>1, <1>2, <2>3 DEF L!TakeReceipt
  <2> QED
    BY <1>1, <1>4, <2>3, <2>4 DEF KStep, L!LedgerNext
<1> QED
  BY <1>5, <1>6 DEF Receipt

LEMMA AckKnown ==
  ASSUME IInv, KInv, Know, NEW k \in Keys, Ack(k)
  PROVE  KStep
<1> DEFINE record == AckRecord(k)
<1>1. /\ phase = "open" /\ journal.receipt[k] # None
      /\ phase' = "open" /\ Opened /\ Opened'
      /\ journal \in Ledgers
  BY DEF Ack, Opened, IInv, TypeOK, CallerOK
<1>2. /\ known.intents = {j \in Keys : journal.request[j] # None}
      /\ known.receipt = journal.receipt
      /\ known.acked = journal.acknowledged
  BY <1>1 DEF KInv, View
<1>3. KeepsKnown(record)
  <2>1. SUFFICES ASSUME NEW l \in Ledgers, ReadsBack(l)
                 PROVE  ReadsBack(Restore(l, record))
    BY DEF KeepsKnown
  <2>2. Restore(l, record) = [l EXCEPT !.acknowledged = @ \cup {k}]
    BY RestoreAck
  <2>3. /\ Restore(l, record).owner = l.owner
        /\ Restore(l, record).request = l.request
        /\ Restore(l, record).receipt = l.receipt
        /\ Restore(l, record).acknowledged = l.acknowledged \cup {k}
    BY <2>2 DEF Ledgers
  <2> HIDE DEF record
  <2> QED
    BY <2>1, <2>3 DEF ReadsBack
<1>4. CASE UNCHANGED <<journal, stream, synced>>
  <2>1. KFile(stream') /\ KFile(synced')
    BY <1>4 DEF KInv
  <2> QED
    BY <1>1, <1>4, <2>1, SameKnown
<1>5. CASE Appended(record) \/ AppendFailed(record)
  <2>0. KFile(stream') /\ KFile(synced')
    <3> HIDE DEF record
    <3> QED BY <1>3, <1>5, AppendKnown
  <2>1. CASE UNCHANGED journal
    BY <1>1, <2>0, <2>1, SameKnown
  <2>2. CASE journal' = [journal EXCEPT !.acknowledged = @ \cup {k}]
    <3>1. /\ journal'.request = journal.request
          /\ journal'.receipt = journal.receipt
          /\ journal'.acknowledged = journal.acknowledged \cup {k}
      BY <1>1, <2>2 DEF Ledgers
    <3>2. known' = View(journal')
      BY <1>1 DEF Know
    <3>3. /\ known'.intents = known.intents
          /\ known'.receipt = known.receipt
          /\ known'.acked = known.acked \cup {k}
      BY <1>2, <3>1, <3>2 DEF View
    <3>4. L!TakeAck(k)
      BY <1>1, <1>2, <3>3 DEF L!TakeAck
    <3> QED
      BY <1>1, <2>0, <3>3, <3>4 DEF KStep, L!LedgerNext
  <2> QED
    BY <1>4, <2>1, <2>2 DEF Ack, Append
<1> QED
  BY <1>4, <1>5 DEF Ack, Append

LEMMA HandleKnown ==
  ASSUME IInv, KInv, Know, phase = "open", phase' = "open",
         NEW h \in Handles, NEW s \in HandleStates,
         Append(HandleRecord(h, s), [journal EXCEPT !.handles[h] = s])
  PROVE  KStep
<1> DEFINE record == HandleRecord(h, s)
<1>1. Appended(record) \/ AppendFailed(record)
  BY DEF Append
<1>2. KFile(stream') /\ KFile(synced')
  <2>1. KeepsKnown(record)
    BY KnownHandle
  <2> HIDE DEF record
  <2> QED BY <1>1, <2>1, AppendKnown
<1>3. /\ journal'.request = journal.request
      /\ journal'.receipt = journal.receipt
      /\ journal'.acknowledged = journal.acknowledged
  BY DEF Append, IInv, TypeOK, Ledgers
<1> QED
  BY <1>2, <1>3, SameKnown DEF Opened

LEMMA EndKnown ==
  ASSUME IInv, KInv, MarkClean \/ Exit \/ PowerLoss
  PROVE  KStep
<1>1. Drop
  BY DEF MarkClean, Exit, PowerLoss
<1>2. CASE MarkClean
  <2>1. Appended(CleanRecord) \/ AppendFailed(CleanRecord)
    BY <1>2 DEF MarkClean
  <2>2. KFile(stream') /\ KFile(synced')
    BY <2>1, KnownClean, AppendKnown
  <2> QED
    BY <1>1, <2>2, DropKnown
<1>3. CASE Exit \/ PowerLoss
  <2>1. stream' \in {stream, synced} /\ synced' = synced
    BY <1>3 DEF Exit, PowerLoss
  <2>2. KFile(stream') /\ KFile(synced')
    BY <2>1 DEF KInv
  <2> QED
    BY <1>1, <2>2, DropKnown
<1> QED
  BY <1>2, <1>3

LEMMA NextKnown ==
  ASSUME IInv, IInv', KInv, HNext
  PROVE  KStep
<1>1. Next /\ Know
  BY DEF HNext
<1>2. ASSUME NEW o \in Owners, Open(o) PROVE KStep
  BY <1>2, OpenKnown
<1>3. ASSUME NEW h \in Handles, RecordExternalTeardown(h) PROVE KStep
  BY <1>3, TeardownKnown
<1>4. CASE WriteHeader
  BY <1>1, <1>4, WriteHeaderKnown
<1>5. CASE Compact
  BY <1>1, <1>5, CompactKnown
<1>6. ASSUME NEW k \in Keys, NEW q \in Requests, Intent(k, q) PROVE KStep
  BY <1>1, <1>6, IntentKnown
<1>7. ASSUME NEW k \in Keys, RunEffect(k) \/ Deliver(k) PROVE KStep
  <2>1. Opened /\ Opened' /\ UNCHANGED <<journal, stream, synced>>
    BY <1>7 DEF RunEffect, Deliver, Opened
  <2>2. KFile(stream') /\ KFile(synced')
    BY <2>1 DEF KInv
  <2> QED
    BY <1>1, <2>1, <2>2, SameKnown
<1>8. ASSUME NEW k \in Keys, Ack(k) PROVE KStep
  BY <1>1, <1>8, AckKnown
<1>9. ASSUME NEW k \in Keys, NEW r \in Receipts, Receipt(k, r) PROVE KStep
  BY <1>1, <1>9, ReceiptKnown
<1>10. ASSUME NEW h \in Handles, StartProcess(h) \/ EndProcess(h) PROVE KStep
  <2>1. PICK s \in {"running", "ended"} :
          Append(HandleRecord(h, s), [journal EXCEPT !.handles[h] = s])
    BY <1>10 DEF StartProcess, EndProcess
  <2>2. phase = "open" /\ phase' = "open"
    BY <1>10 DEF StartProcess, EndProcess
  <2>3. s \in HandleStates
    BY DEF HandleStates
  <2> QED
    BY <1>1, <2>1, <2>2, <2>3, HandleKnown
<1>11. CASE MarkClean \/ Exit \/ PowerLoss
  BY <1>11, EndKnown
<1> QED
  BY <1>1, <1>2, <1>3, <1>4, <1>5, <1>6, <1>7, <1>8, <1>9, <1>10, <1>11 DEF Next

(* Every step with the history variable keeps what files read back, and is *)
(* a step of module Ledger or none.                                        *)
LEMMA HNextKInv ==
  IInv /\ IInv' /\ KInv /\ [HNext]_<<vars, known>>
    => KInv' /\ [L!LedgerNext]_(L!ledgerVars)
<1> SUFFICES ASSUME IInv, IInv', KInv, [HNext]_<<vars, known>>
             PROVE  KInv' /\ [L!LedgerNext]_(L!ledgerVars)
  OBVIOUS
<1>1. CASE HNext
  <2>1. KStep /\ Know
    BY <1>1, NextKnown DEF HNext
  <2>2. KInv'
    BY <2>1, KStepInv
  <2>3. known' = known \/ L!LedgerNext
    BY <2>1 DEF KStep, Know, Opened
  <2> QED
    BY <2>2, <2>3 DEF L!ledgerVars
<1>2. CASE UNCHANGED <<vars, known>>
  <2>1. KInv'
    BY <1>2 DEF vars, KInv, KFile, ReadsBack, Opened, View, HasUncertainEffects
  <2> QED
    BY <1>2, <2>1 DEF L!ledgerVars
<1> QED
  BY <1>1, <1>2

(* A step with the history variable is a step of Journal, so that what     *)
(* holds of every behavior of Journal holds with the variable.             *)
LEMMA HistorySteps == [HNext]_<<vars, known>> => [Next]_vars
BY DEF HNext, vars

LEMMA HistorySpec == HSpec => Spec
<1>1. HInit => Init
  BY DEF HInit
<1> QED
  BY <1>1, HistorySteps, PTL DEF HSpec, Spec

(* For any number of operations, processes, failed appends, crashes and    *)
(* power losses: the journal is a ledger that changes one record at a time *)
(* and loses nothing that was known.                                       *)
THEOREM JournalKeepsLedger == HSpec => KeepsLedger
<1>1. HInit => L!LedgerInit
  <2> SUFFICES ASSUME HInit PROVE L!LedgerInit
    OBVIOUS
  <2>1. /\ EmptyLedger.request = [k \in Keys |-> None]
        /\ EmptyLedger.receipt = [k \in Keys |-> None]
        /\ EmptyLedger.acknowledged = {}
    BY DEF EmptyLedger
  <2>2. /\ known.intents = {} /\ known.acked = {}
        /\ known.receipt = [k \in Keys |-> None]
    BY <2>1 DEF HInit, View
  <2> QED
    BY <2>2 DEF L!LedgerInit
<1>2. HSpec => []IInv
  BY HistorySpec, JournalInvariant, PTL
<1> QED
  BY <1>1, <1>2, InitKInv, HNextKInv, PTL
     DEF HSpec, KeepsLedger, L!LedgerSpec
=============================================================================
