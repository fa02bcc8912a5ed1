------------------------- MODULE DesktopThreadProofs -------------------------
(* The window and its threads: what is in the queue of the main thread, when a  *)
(* thread may still send to it, and which rows a running classification is      *)
(* about. For every instance of DesktopSession.                                 *)
EXTENDS DesktopProofs

Outcomes == {"scanCompleted", "scanCancelled", "scanFailed"}
ScanKinds == Outcomes \cup {"scanFinished"}
ClsKinds == {"progressed", "classified", "clsFinished"}

Quiet == {"none", "finishing", "stopped"}

\* The outcome of a scan is queued once, while its worker waits to be asked to
\* quit. A thread the window let go of has stopped, or has nothing left to send.
ScanThread ==
    /\ \A i, j \in DOMAIN posted :
          posted[i].kind \in Outcomes /\ posted[j].kind \in Outcomes => i = j
    /\ \A i \in DOMAIN posted : posted[i].kind \in Outcomes => scan.run = "emitted"
    /\ \A i \in DOMAIN posted :
          posted[i].kind = "scanCompleted" => scan.listed /\ scan.todo = {}
    /\ ~early => /\ \A i \in DOMAIN posted :
                       posted[i].kind = "scanFinished" => scan.run \in {"finishing", "stopped"}
                 /\ scan.held \/ scan.run \in Quiet

\* The same of a classification, whose progress comes before its summary.
ClsThread ==
    /\ \A i, j \in DOMAIN posted :
          posted[i].kind = "classified" /\ posted[j].kind \in {"progressed", "classified"} => j <= i
    /\ \A i \in DOMAIN posted : posted[i].kind = "classified" => cls.run = "emitted"
    /\ \A i \in DOMAIN posted : posted[i].kind = "progressed" => cls.run \in {"working", "emitted"}
    /\ cls.todo # {} => cls.run = "working"
    /\ ~early => /\ \A i \in DOMAIN posted :
                       posted[i].kind = "clsFinished" => cls.run \in {"finishing", "stopped"}
                 /\ cls.held \/ cls.run \in Quiet

\* No scan starts, or is still to deliver, while a classification runs.
NoScan == ~early /\ InProgress(cls) => "scan" \notin enabled /\ scan.run \in Quiet

\* The row is ready, and of that file.
IsReady(row, file) ==
    row \in DOMAIN rows /\ rows[row].status = "READY" /\ rows[row].file = file

\* The documents still to be analysed, or whose progress is still to be handled,
\* are ready, each in a row of its own.
Pending ==
    ~early =>
        /\ \A item \in cls.todo : IsReady(item.row, item.file)
        /\ \A i \in DOMAIN posted : posted[i].kind = "progressed" =>
              /\ IsReady(posted[i].row, posted[i].preview.from)
              /\ \A item \in cls.todo : item.row # posted[i].row
              /\ \A j \in DOMAIN posted :
                    posted[j].kind = "progressed" /\ posted[j].row = posted[i].row => i = j
------------------------------------------------------------------------------
(* The queue.                                                                   *)

\* A step adds no signal of these kinds.
Leaves(kinds) ==
    \E k \in {0, 1} : \A i \in DOMAIN posted' :
        posted'[i].kind \in kinds =>
            /\ i + k \in DOMAIN posted /\ posted'[i] = posted[i + k]
            /\ i \in Nat

LEMMA QueueUntouched ==
    ASSUME QueueOK, NEW kinds, UNCHANGED posted \/ posted' = <<>> PROVE Leaves(kinds)
  <1>1. CASE UNCHANGED posted
    <2>1. \A i \in DOMAIN posted : i \in Nat /\ i + 0 = i
      BY DEF QueueOK
    <2> QED
      BY <1>1, <2>1 DEF Leaves
  <1>2. CASE posted' = <<>>
    BY <1>2 DEF Leaves
  <1> QED
    BY <1>1, <1>2

\* What a posted signal adds.
LEMMA Posted ==
    ASSUME QueueOK, NEW s \in Signals, Post(s)
    PROVE \A i \in DOMAIN posted' :
             /\ i \in Nat
             /\ \/ i \in DOMAIN posted /\ posted'[i] = posted[i]
                \/ i = Len(posted) + 1 /\ posted'[i] = s
  <1>1. posted \in Seq(Signals) /\ posted' = Append(posted, s)
    BY DEF QueueOK, Post
  <1> QED
    BY <1>1

LEMMA QueueAppended ==
    ASSUME QueueOK, NEW kinds, NEW s \in Signals, s.kind \notin kinds, Post(s) PROVE Leaves(kinds)
  <1>1. \A i \in DOMAIN posted' :
           posted'[i].kind \in kinds => i \in Nat /\ i \in DOMAIN posted /\ posted'[i] = posted[i]
    BY Posted
  <1>2. \A i \in Nat : i + 0 = i
    OBVIOUS
  <1> QED
    BY <1>1, <1>2 DEF Leaves

\* What is left when the first signal is taken.
LEMMA Shifted ==
    ASSUME QueueOK, posted # <<>>, posted' = Tail(posted)
    PROVE /\ 1 \in DOMAIN posted /\ Head(posted) = posted[1]
          /\ \A i \in DOMAIN posted' :
                /\ i \in Nat \ {0}
                /\ i + 1 \in DOMAIN posted /\ posted'[i] = posted[i + 1]
  <1>1. posted \in Seq(Signals)
    BY DEF QueueOK
  <1> QED
    BY <1>1

LEMMA QueueTaken ==
    ASSUME QueueOK, NEW kinds, NEW kind, Receive(kind) PROVE Leaves(kinds)
  <1>1. posted # <<>> /\ posted' = Tail(posted)
    BY DEF Receive
  <1> QED
    BY <1>1, Shifted DEF Leaves
------------------------------------------------------------------------------
(* Steps that leave a thread alone.                                             *)

LEMMA ScanThreadKept ==
    ASSUME ScanThread, Leaves(ScanKinds), UNCHANGED scan, early => early' PROVE ScanThread'
  <1>1. PICK k \in {0, 1} : \A i \in DOMAIN posted' :
           posted'[i].kind \in ScanKinds =>
               /\ i + k \in DOMAIN posted /\ posted'[i] = posted[i + k]
               /\ i \in Nat
    BY DEF Leaves
  <1>2. /\ \A i \in DOMAIN posted' : posted'[i].kind \in Outcomes => posted'[i].kind \in ScanKinds
        /\ "scanCompleted" \in Outcomes /\ "scanFinished" \in ScanKinds
    BY DEF ScanKinds, Outcomes
  <1>3. \A i, j \in DOMAIN posted' :
           posted'[i].kind \in Outcomes /\ posted'[j].kind \in Outcomes => i = j
    <2> SUFFICES ASSUME NEW i \in DOMAIN posted', NEW j \in DOMAIN posted',
                        posted'[i].kind \in Outcomes, posted'[j].kind \in Outcomes
                 PROVE i = j
      OBVIOUS
    <2>1. /\ i + k \in DOMAIN posted /\ j + k \in DOMAIN posted /\ i \in Nat /\ j \in Nat
          /\ posted'[i] = posted[i + k] /\ posted'[j] = posted[j + k]
      BY <1>1, <1>2
    <2>2. i + k = j + k
      BY <2>1 DEF ScanThread
    <2> QED
      BY <2>1, <2>2
  <1>4. \A i \in DOMAIN posted' : posted'[i].kind \in Outcomes => scan.run = "emitted"
    BY <1>1, <1>2 DEF ScanThread
  <1>5. \A i \in DOMAIN posted' :
           posted'[i].kind = "scanCompleted" => scan.listed /\ scan.todo = {}
    BY <1>1, <1>2 DEF ScanThread
  <1>6. ASSUME ~early'
        PROVE /\ \A i \in DOMAIN posted' :
                    posted'[i].kind = "scanFinished" => scan.run \in {"finishing", "stopped"}
              /\ scan.held \/ scan.run \in Quiet
    BY <1>1, <1>2, <1>6 DEF ScanThread
  <1> QED
    BY <1>3, <1>4, <1>5, <1>6 DEF ScanThread

LEMMA ClsThreadKept ==
    ASSUME ClsThread, Leaves(ClsKinds), UNCHANGED cls, early => early' PROVE ClsThread'
  <1>1. PICK k \in {0, 1} : \A i \in DOMAIN posted' :
           posted'[i].kind \in ClsKinds =>
               /\ i + k \in DOMAIN posted /\ posted'[i] = posted[i + k]
               /\ i \in Nat
    BY DEF Leaves
  <1>2. /\ "progressed" \in ClsKinds /\ "classified" \in ClsKinds /\ "clsFinished" \in ClsKinds
        /\ {"progressed", "classified"} \subseteq ClsKinds
    BY DEF ClsKinds
  <1>3. \A i, j \in DOMAIN posted' :
           posted'[i].kind = "classified" /\ posted'[j].kind \in {"progressed", "classified"} => j <= i
    <2> SUFFICES ASSUME NEW i \in DOMAIN posted', NEW j \in DOMAIN posted',
                        posted'[i].kind = "classified",
                        posted'[j].kind \in {"progressed", "classified"}
                 PROVE j <= i
      OBVIOUS
    <2>1. /\ i + k \in DOMAIN posted /\ j + k \in DOMAIN posted /\ i \in Nat /\ j \in Nat
          /\ posted'[i] = posted[i + k] /\ posted'[j] = posted[j + k]
      BY <1>1, <1>2
    <2>2. j + k <= i + k
      BY <2>1 DEF ClsThread
    <2> QED
      BY <2>1, <2>2
  <1>4. /\ \A i \in DOMAIN posted' : posted'[i].kind = "classified" => cls.run = "emitted"
        /\ \A i \in DOMAIN posted' :
              posted'[i].kind = "progressed" => cls.run \in {"working", "emitted"}
    BY <1>1, <1>2 DEF ClsThread
  <1>5. ASSUME ~early'
        PROVE /\ \A i \in DOMAIN posted' :
                    posted'[i].kind = "clsFinished" => cls.run \in {"finishing", "stopped"}
              /\ cls.held \/ cls.run \in Quiet
    BY <1>1, <1>2, <1>5 DEF ClsThread
  <1> QED
    BY <1>3, <1>4, <1>5 DEF ClsThread
------------------------------------------------------------------------------
(* The steps of the scan.                                                       *)

LEMMA ScanCommands ==
    ASSUME ScanOK, ScanThread, StartScan \/ CancelScan \/ Close PROVE ScanThread'
  <1>1. CASE StartScan
    <2>1. UNCHANGED posted /\ scan.run \notin {"working", "emitted"} /\ ~early
      BY <1>1 DEF StartScan, Input
    <2>2. CASE Active
      <3>1. UNCHANGED <<scan, early>>
        BY <1>1, <2>2 DEF StartScan
      <3> QED
        BY <2>1, <3>1 DEF ScanThread
    <2>3. CASE ~Active
      <3>1. /\ scan' = [IdleScan EXCEPT !.held = TRUE, !.run = "working"]
            /\ ~early' => \A i \in DOMAIN posted : posted[i].kind # "scanFinished"
        BY <1>1, <2>3, Zenon DEF StartScan
      <3>2. \A i \in DOMAIN posted : posted[i].kind \notin Outcomes
        BY <2>1 DEF ScanThread
      <3>3. scan'.held
        BY <3>1 DEF IdleScan
      <3> QED
        BY <2>1, <3>1, <3>2, <3>3 DEF ScanThread, Outcomes
    <2> QED
      BY <2>2, <2>3
  <1>2. CASE CancelScan
    <2>1. /\ UNCHANGED <<posted, early>> /\ scan' = [scan EXCEPT !.cancel = TRUE]
      BY <1>2 DEF CancelScan
    <2>2. /\ scan'.run = scan.run /\ scan'.held = scan.held
          /\ scan'.listed = scan.listed /\ scan'.todo = scan.todo
      BY <2>1 DEF ScanOK
    <2> QED
      BY <2>1, <2>2 DEF ScanThread
  <1>3. CASE Close
    <2>1. posted' = <<>> /\ scan' = IdleScan /\ scan'.run = "none"
      BY <1>3 DEF Close, IdleScan
    <2> QED
      BY <2>1 DEF ScanThread, Quiet
  <1> QED
    BY <1>1, <1>2, <1>3

LEMMA ScanSteps ==
    ASSUME QueueOK, ScanOK, ScanThread, ScanStep \/ QuitScan PROVE ScanThread'
  <1>1. UNCHANGED early
    BY DEF ScanStep, QuitScan, DiscoverFiles, InspectFile, StopScan, EndScan, ScanFails, OnlyTheScan
  <1>2. ASSUME scan.run = "working"
        PROVE /\ \A i \in DOMAIN posted : posted[i].kind \notin Outcomes
              /\ ~early => /\ \A i \in DOMAIN posted : posted[i].kind # "scanFinished"
                           /\ scan.held
    BY <1>2 DEF ScanThread, Quiet
  <1>3. CASE DiscoverFiles \/ InspectFile
    <2>1. scan.run = "working" /\ UNCHANGED posted
      BY <1>3 DEF DiscoverFiles, InspectFile, ScanRuns
    <2>2. scan'.run = scan.run /\ scan'.held = scan.held
      <3>1. CASE DiscoverFiles
        BY <3>1 DEF DiscoverFiles, ScanOK
      <3>2. CASE InspectFile
        <4>1. PICK p, r :
                 scan' = [scan EXCEPT !.todo = @ \ {p}, !.records = Append(@, r)]
          BY <3>2, Zenon DEF InspectFile
        <4> QED
          BY <4>1 DEF ScanOK
      <3> QED
        BY <1>3, <3>1, <3>2
    <2> QED
      BY <1>1, <1>2, <2>1, <2>2 DEF ScanThread, Outcomes
  <1>4. ASSUME NEW kind \in Outcomes, scan.run = "working", Emit(Signal(kind)),
               kind = "scanCompleted" => scan.listed /\ scan.todo = {}
        PROVE ScanThread'
    <2>1. Signal(kind) \in Signals /\ Signal(kind).kind = kind
      BY SignalTyped DEF SignalKinds, Outcomes
    <2>2. PICK s \in Signals : s = Signal(kind)
      BY <2>1
    <2>3. Post(s) /\ s.kind = kind /\ scan' = [scan EXCEPT !.run = "emitted"]
      BY <1>4, <2>1, <2>2 DEF Emit
    <2>4. \A i \in DOMAIN posted' :
             /\ i \in Nat
             /\ \/ i \in DOMAIN posted /\ posted'[i] = posted[i]
                \/ i = Len(posted) + 1 /\ posted'[i] = s
      BY <2>3, Posted
    <2>5. /\ scan'.run = "emitted" /\ scan'.held = scan.held
          /\ scan'.listed = scan.listed /\ scan'.todo = scan.todo
      BY <2>3 DEF ScanOK
    <2>6. \A i \in DOMAIN posted' :
             /\ posted'[i].kind \in Outcomes => i = Len(posted) + 1 /\ posted'[i].kind = kind
             /\ ~early => posted'[i].kind # "scanFinished"
      BY <1>2, <1>4, <2>3, <2>4 DEF Outcomes
    <2>7. \A i \in DOMAIN posted' :
             posted'[i].kind = "scanCompleted" => scan'.listed /\ scan'.todo = {}
      BY <1>4, <2>5, <2>6 DEF Outcomes
    <2> QED
      BY <1>1, <1>2, <1>4, <2>5, <2>6, <2>7 DEF ScanThread
  <1>5. CASE StopScan
    BY <1>4, <1>5 DEF StopScan, ScanRuns, Outcomes
  <1>6. CASE EndScan
    BY <1>4, <1>6 DEF EndScan, ScanRuns, Outcomes
  <1>7. CASE ScanFails
    BY <1>4, <1>7 DEF ScanFails, ScanRuns, Outcomes
  <1>8. CASE QuitScan
    <2>1. CASE /\ scan.run = "quitting" /\ scan' = [scan EXCEPT !.run = "finishing"]
               /\ Post(Signal("scanFinished"))
      <3>1. PICK s \in Signals : s.kind = "scanFinished" /\ Post(s)
        BY <2>1, SignalTyped DEF SignalKinds
      <3>2. \A i \in DOMAIN posted' :
               /\ i \in Nat
               /\ \/ i \in DOMAIN posted /\ posted'[i] = posted[i]
                  \/ i = Len(posted) + 1 /\ posted'[i] = s
        BY <3>1, Posted
      <3>3. scan'.run = "finishing"
        BY <2>1 DEF ScanOK
      <3>4. \A i \in DOMAIN posted' : posted'[i].kind \notin Outcomes
        BY <2>1, <3>1, <3>2 DEF ScanThread, Outcomes
      <3> QED
        BY <3>3, <3>4 DEF ScanThread, Quiet, Outcomes
    <2>2. CASE /\ scan.run = "finishing" /\ scan' = [scan EXCEPT !.run = "stopped"]
               /\ UNCHANGED posted
      <3>1. scan'.run = "stopped"
        BY <2>2 DEF ScanOK
      <3>2. \A i \in DOMAIN posted : posted[i].kind \notin Outcomes
        BY <2>2 DEF ScanThread
      <3> QED
        BY <2>2, <3>1, <3>2 DEF ScanThread, Quiet, Outcomes
    <2> QED
      BY <1>8, <2>1, <2>2 DEF QuitScan
  <1> QED
    BY <1>3, <1>5, <1>6, <1>7, <1>8 DEF ScanStep

LEMMA ScanSlots ==
    ASSUME QueueOK, ScanOK, ScanThread,
           HandleScanCompleted \/ HandleScanCancelled \/ HandleScanFailed \/ HandleScanFinished
    PROVE ScanThread'
  <1>1. posted # <<>> /\ posted' = Tail(posted) /\ UNCHANGED early
    BY DEF HandleScanCompleted, HandleScanCancelled, HandleScanFailed, HandleScanFinished, Receive
  <1>2. /\ 1 \in DOMAIN posted /\ Head(posted) = posted[1]
        /\ \A i \in DOMAIN posted' :
              /\ i \in Nat \ {0}
              /\ i + 1 \in DOMAIN posted /\ posted'[i] = posted[i + 1]
    BY <1>1, Shifted
  <1>3. CASE HandleScanCompleted \/ HandleScanCancelled \/ HandleScanFailed
    <2>1. posted[1].kind \in Outcomes /\ scan' = [scan EXCEPT !.run = "quitting"]
      BY <1>2, <1>3 DEF HandleScanCompleted, HandleScanCancelled, HandleScanFailed, Receive, Outcomes
    <2>2. scan.run = "emitted" /\ scan'.held = scan.held
      BY <1>2, <2>1 DEF ScanThread, ScanOK
    <2>3. \A i \in DOMAIN posted' : posted'[i].kind \notin Outcomes
      <3> SUFFICES ASSUME NEW i \in DOMAIN posted', posted'[i].kind \in Outcomes PROVE FALSE
        OBVIOUS
      <3>1. i + 1 = 1 /\ i \in Nat \ {0}
        BY <1>2, <2>1 DEF ScanThread
      <3> QED
        BY <3>1
    <2>4. ~early => \A i \in DOMAIN posted' : posted'[i].kind # "scanFinished"
      BY <1>2, <2>2 DEF ScanThread
    <2>5. ~early => scan'.held
      BY <2>2 DEF ScanThread, Quiet
    <2> QED
      BY <1>1, <2>3, <2>4, <2>5 DEF ScanThread, Outcomes
  <1>4. CASE HandleScanFinished
    <2>1. posted[1].kind = "scanFinished" /\ scan' = [scan EXCEPT !.held = FALSE]
      BY <1>2, <1>4 DEF HandleScanFinished, Receive
    <2>2. /\ scan'.run = scan.run /\ scan'.listed = scan.listed /\ scan'.todo = scan.todo
      BY <2>1 DEF ScanOK
    <2>3. /\ \A i, j \in DOMAIN posted' :
                posted'[i].kind \in Outcomes /\ posted'[j].kind \in Outcomes => i = j
      <3> SUFFICES ASSUME NEW i \in DOMAIN posted', NEW j \in DOMAIN posted',
                          posted'[i].kind \in Outcomes, posted'[j].kind \in Outcomes
                   PROVE i = j
        OBVIOUS
      <3>1. i + 1 = j + 1 /\ i \in Nat /\ j \in Nat
        BY <1>2 DEF ScanThread
      <3> QED
        BY <3>1
    <2>4. ~early => scan.run \in {"finishing", "stopped"}
      BY <1>2, <2>1 DEF ScanThread
    <2> QED
      BY <1>1, <1>2, <2>2, <2>3, <2>4 DEF ScanThread, Quiet
  <1> QED
    BY <1>3, <1>4
------------------------------------------------------------------------------
(* The steps of the classification.                                             *)

LEMMA ClsCommands ==
    ASSUME ClsOK, ClsThread, Analyze \/ Close PROVE ClsThread'
  <1>1. CASE Analyze
    <2>1. /\ UNCHANGED posted /\ cls.run \notin {"working", "emitted"}
          /\ cls' = [held |-> TRUE, run |-> "working", todo |-> ReadyItems]
      BY <1>1 DEF Analyze
    <2>2. ~early' => \A i \in DOMAIN posted : posted[i].kind # "clsFinished"
      BY <1>1, Zenon DEF Analyze
    <2>3. \A i \in DOMAIN posted : posted[i].kind \notin {"progressed", "classified"}
      BY <2>1 DEF ClsThread
    <2> QED
      BY <2>1, <2>2, <2>3 DEF ClsThread
  <1>2. CASE Close
    <2>1. posted' = <<>> /\ cls' = IdleCls /\ cls'.run = "none" /\ cls'.todo = {}
      BY <1>2 DEF Close, IdleCls
    <2> QED
      BY <2>1 DEF ClsThread, Quiet
  <1> QED
    BY <1>1, <1>2

LEMMA ClsSteps ==
    ASSUME WindowInv, AnalysisInv, ClsThread, ReportItem \/ EndItems \/ QuitCls PROVE ClsThread'
  <1>1. UNCHANGED early /\ QueueOK /\ ClsOK
    BY DEF ReportItem, EndItems, QuitCls, OnlyTheWorker, WindowInv
  <1>2. ASSUME cls.run = "working"
        PROVE /\ \A i \in DOMAIN posted : posted[i].kind # "classified"
              /\ ~early => /\ \A i \in DOMAIN posted : posted[i].kind # "clsFinished"
                           /\ cls.held
    BY <1>2 DEF ClsThread, Quiet
  <1>3. CASE ReportItem
    <2>1. PICK s \in Signals, item \in cls.todo :
             s.kind \in {"itemFailed", "progressed"} /\ Post(s)
               /\ cls' = [cls EXCEPT !.todo = @ \ {item}]
      BY <1>1, <1>3, ReportPosts
    <2>2. cls.run = "working" /\ cls'.run = cls.run /\ cls'.held = cls.held
      BY <1>1, <1>3, <2>1 DEF ReportItem, ClsRuns, ClsOK
    <2>3. \A i \in DOMAIN posted' :
             /\ i \in Nat
             /\ \/ i \in DOMAIN posted /\ posted'[i] = posted[i]
                \/ i = Len(posted) + 1 /\ posted'[i] = s
      BY <1>1, <2>1, Posted
    <2>4. \A i \in DOMAIN posted' : posted'[i].kind # "classified"
      BY <1>2, <2>1, <2>2, <2>3
    <2>5. ~early => \A i \in DOMAIN posted' : posted'[i].kind # "clsFinished"
      BY <1>2, <2>1, <2>2, <2>3
    <2> QED
      BY <1>1, <1>2, <2>2, <2>4, <2>5 DEF ClsThread
  <1>4. CASE EndItems
    <2>1. PICK s \in Signals : s.kind = "classified" /\ Post(s)
      BY <1>4, SignalTyped DEF EndItems, SignalKinds
    <2>2. /\ cls.run = "working" /\ cls'.run = "emitted" /\ cls'.held = cls.held
          /\ cls'.todo = {}
      BY <1>1, <1>4 DEF EndItems, ClsRuns, ClsOK
    <2>3. \A i \in DOMAIN posted' :
             /\ i \in Nat
             /\ \/ i \in DOMAIN posted /\ posted'[i] = posted[i]
                \/ i = Len(posted) + 1 /\ posted'[i] = s
      BY <1>1, <2>1, Posted
    <2>4. \A i \in DOMAIN posted' : i <= Len(posted) + 1
      <3>1. posted \in Seq(Signals) /\ posted' = Append(posted, s)
        BY <1>1, <2>1 DEF QueueOK, Post
      <3> QED
        BY <3>1
    <2>5. \A i \in DOMAIN posted' : posted'[i].kind = "classified" => i = Len(posted) + 1
      BY <1>2, <2>2, <2>3
    <2>6. ~early => \A i \in DOMAIN posted' : posted'[i].kind # "clsFinished"
      BY <1>2, <2>1, <2>2, <2>3
    <2> QED
      BY <1>1, <1>2, <2>2, <2>4, <2>5, <2>6 DEF ClsThread
  <1>5. CASE QuitCls
    <2>1. ASSUME cls.run \in {"quitting", "finishing"}
          PROVE /\ \A i \in DOMAIN posted : posted[i].kind \notin {"progressed", "classified"}
                /\ cls.todo = {}
      BY <2>1 DEF ClsThread
    <2>2. CASE /\ cls.run = "quitting" /\ cls' = [cls EXCEPT !.run = "finishing"]
               /\ Post(Signal("clsFinished"))
      <3>1. PICK s \in Signals : s.kind = "clsFinished" /\ Post(s)
        BY <2>2, SignalTyped DEF SignalKinds
      <3>2. \A i \in DOMAIN posted' :
               /\ i \in Nat
               /\ \/ i \in DOMAIN posted /\ posted'[i] = posted[i]
                  \/ i = Len(posted) + 1 /\ posted'[i] = s
        BY <1>1, <3>1, Posted
      <3>3. cls'.run = "finishing" /\ cls'.todo = cls.todo
        BY <1>1, <2>2 DEF ClsOK
      <3>4. \A i \in DOMAIN posted' : posted'[i].kind \notin {"progressed", "classified"}
        BY <2>1, <2>2, <3>1, <3>2
      <3> QED
        BY <2>1, <2>2, <3>3, <3>4 DEF ClsThread, Quiet
    <2>3. CASE /\ cls.run = "finishing" /\ cls' = [cls EXCEPT !.run = "stopped"]
               /\ UNCHANGED posted
      <3>1. cls'.run = "stopped" /\ cls'.todo = cls.todo
        BY <1>1, <2>3 DEF ClsOK
      <3> QED
        BY <2>1, <2>3, <3>1 DEF ClsThread, Quiet
    <2> QED
      BY <1>5, <2>2, <2>3 DEF QuitCls
  <1> QED
    BY <1>3, <1>4, <1>5

LEMMA ClsSlots ==
    ASSUME QueueOK, ClsOK, ClsThread, HandleClassified \/ HandleClsFinished
    PROVE ClsThread'
  <1>1. posted # <<>> /\ posted' = Tail(posted) /\ UNCHANGED early
    BY DEF HandleClassified, HandleClsFinished, Receive
  <1>2. /\ 1 \in DOMAIN posted /\ Head(posted) = posted[1]
        /\ \A i \in DOMAIN posted' :
              /\ i \in Nat \ {0}
              /\ i + 1 \in DOMAIN posted /\ posted'[i] = posted[i + 1]
    BY <1>1, Shifted
  <1>3. CASE HandleClassified
    <2>1. posted[1].kind = "classified" /\ cls' = [cls EXCEPT !.run = "quitting"]
      BY <1>2, <1>3 DEF HandleClassified, Receive
    <2>2. cls.run = "emitted" /\ cls'.held = cls.held /\ cls'.todo = {}
      BY <1>2, <2>1 DEF ClsThread, ClsOK
    <2>3. \A i \in DOMAIN posted' : posted'[i].kind \notin {"progressed", "classified"}
      <3> SUFFICES ASSUME NEW i \in DOMAIN posted', posted'[i].kind \in {"progressed", "classified"}
                   PROVE FALSE
        OBVIOUS
      <3>1. i + 1 <= 1 /\ i \in Nat \ {0}
        BY <1>2, <2>1 DEF ClsThread
      <3> QED
        BY <3>1
    <2>4. ~early => \A i \in DOMAIN posted' : posted'[i].kind # "clsFinished"
      BY <1>2, <2>2 DEF ClsThread
    <2>5. ~early => cls'.held
      BY <2>2 DEF ClsThread, Quiet
    <2> QED
      BY <1>1, <2>2, <2>3, <2>4, <2>5 DEF ClsThread
  <1>4. CASE HandleClsFinished
    <2>1. posted[1].kind = "clsFinished" /\ cls' = [cls EXCEPT !.held = FALSE]
      BY <1>2, <1>4 DEF HandleClsFinished, Receive
    <2>2. cls'.run = cls.run /\ cls'.todo = cls.todo
      BY <2>1 DEF ClsOK
    <2>3. \A i, j \in DOMAIN posted' :
             posted'[i].kind = "classified" /\ posted'[j].kind \in {"progressed", "classified"} => j <= i
      <3> SUFFICES ASSUME NEW i \in DOMAIN posted', NEW j \in DOMAIN posted',
                          posted'[i].kind = "classified",
                          posted'[j].kind \in {"progressed", "classified"}
                   PROVE j <= i
        OBVIOUS
      <3>1. j + 1 <= i + 1 /\ i \in Nat /\ j \in Nat
        BY <1>2 DEF ClsThread
      <3> QED
        BY <3>1
    <2>4. ~early => cls.run \in {"finishing", "stopped"}
      BY <1>2, <2>1 DEF ClsThread
    <2> QED
      BY <1>1, <1>2, <2>2, <2>3, <2>4 DEF ClsThread, Quiet
  <1> QED
    BY <1>3, <1>4
------------------------------------------------------------------------------
(* The rows a classification is about.                                          *)

LEMMA EarlyStays == ASSUME [Next]_vars PROVE early => early'
  <1>1. CASE StartScan \/ Analyze
    BY <1>1 DEF StartScan, Analyze, Input
  <1>2. CASE ~(StartScan \/ Analyze)
    BY <1>2 DEF Next, vars, uiVars, ChooseFolder, CancelScan, Close, ScanStep, DiscoverFiles,
       InspectFile, StopScan, EndScan, ScanFails, OnlyTheScan, WorkerStep, NextItem, ReportItem,
       EndItems, OnlyTheWorker, QuitScan, QuitCls, HandleSignal, HandleScanCompleted,
       HandleScanCancelled, HandleScanFailed, HandleScanFinished, HandleProgress,
       HandleItemFailed, HandleClassified, HandleClsFinished, Receive, OpenRow, OpenReview,
       CloseReview, ClickRow, ClickFires, ApproveAll, Decide, Approve, Reject, Blocked, Undecided,
       Owner, RunCommand
  <1> QED
    BY <1>1, <1>2

LEMMA BlockedButtons ==
    ASSUME NEW busy, NEW docs, NEW scanning, NEW classifying, busy \/ classifying
    PROVE "scan" \notin Buttons(busy, docs, scanning, classifying)
  BY DEF Buttons

\* Nothing is pending when no classification runs.
LEMMA NothingPending ==
    ASSUME ClsThread, ~early, ~InProgress(cls)
    PROVE /\ cls.todo = {}
          /\ \A i \in DOMAIN posted : posted[i].kind # "progressed"
  <1>1. cls.run \notin {"working", "emitted"}
    BY DEF ClsThread, InProgress, Quiet
  <1> QED
    BY <1>1 DEF ClsThread

\* The rows may change then.
LEMMA FreeRows ==
    ASSUME ClsThread, ~InProgress(cls), UNCHANGED cls, Leaves(ClsKinds), early => early'
    PROVE NoScan' /\ Pending'
  <1> SUFFICES ASSUME ~early' PROVE ~InProgress(cls)' /\ Pending'
    BY DEF NoScan, Pending
  <1>1. ~InProgress(cls)'
    BY DEF InProgress
  <1>2. cls.todo = {} /\ \A i \in DOMAIN posted : posted[i].kind # "progressed"
    BY NothingPending
  <1>3. \A i \in DOMAIN posted' : posted'[i].kind # "progressed"
    BY <1>2 DEF Leaves, ClsKinds
  <1>4. Pending'
    BY <1>2, <1>3 DEF Pending
  <1> QED
    BY <1>1, <1>4

\* The rows that are ready stay so.
LEMMA PendingKept ==
    ASSUME Pending, Leaves({"progressed"}), cls'.todo = cls.todo, early => early',
           \A row, file : IsReady(row, file) => IsReady(row, file)'
    PROVE Pending'
  <1>1. PICK k \in {0, 1} : \A i \in DOMAIN posted' :
           posted'[i].kind \in {"progressed"} =>
               /\ i + k \in DOMAIN posted /\ posted'[i] = posted[i + k]
               /\ i \in Nat
    BY DEF Leaves
  <1> SUFFICES ASSUME ~early' PROVE Pending'
    BY DEF Pending
  <1>2. \A item \in cls'.todo : IsReady(item.row, item.file)'
    BY DEF Pending
  <1>3. ASSUME NEW i \in DOMAIN posted', posted'[i].kind = "progressed"
        PROVE /\ IsReady(posted[i].row, posted[i].preview.from)'
              /\ \A item \in cls'.todo : item.row # posted'[i].row
              /\ \A j \in DOMAIN posted' :
                    posted'[j].kind = "progressed" /\ posted'[j].row = posted'[i].row => i = j
    <2>1. /\ i + k \in DOMAIN posted /\ posted'[i] = posted[i + k] /\ i \in Nat
      BY <1>1, <1>3
    <2>2. /\ IsReady(posted[i + k].row, posted[i + k].preview.from)
          /\ \A item \in cls.todo : item.row # posted[i + k].row
          /\ \A j \in DOMAIN posted :
                posted[j].kind = "progressed" /\ posted[j].row = posted[i + k].row => i + k = j
      BY <1>3, <2>1 DEF Pending
    <2>3. PICK row, file : row = posted[i + k].row /\ file = posted[i + k].preview.from
      OBVIOUS
    <2>4. IsReady(row, file)'
      BY <2>2, <2>3
    <2>5. IsReady(posted[i].row, posted[i].preview.from)'
      BY <2>1, <2>3, <2>4 DEF IsReady
    <2>6. ASSUME NEW j \in DOMAIN posted', posted'[j].kind = "progressed",
                 posted'[j].row = posted'[i].row
          PROVE i = j
      <3>1. j + k \in DOMAIN posted /\ posted'[j] = posted[j + k] /\ j \in Nat
        BY <1>1, <2>6
      <3>2. i + k = j + k
        BY <2>1, <2>2, <2>6, <3>1
      <3> QED
        BY <2>1, <3>1, <3>2
    <2> QED
      BY <2>1, <2>2, <2>5, <2>6
  <1> QED
    BY <1>2, <1>3 DEF Pending

LEMMA SameRowsPending ==
    ASSUME Pending, Leaves(ClsKinds), cls'.todo = cls.todo, early => early', UNCHANGED rows
    PROVE Pending'
  <1>1. \A row, file : IsReady(row, file) => IsReady(row, file)'
    BY DEF IsReady
  <1>2. Leaves({"progressed"})
    BY DEF Leaves, ClsKinds
  <1> QED
    BY <1>1, <1>2, PendingKept

\* A signal that is no progress.
LEMMA NoProgressPosted ==
    ASSUME QueueOK, Pending, NEW s \in Signals, s.kind # "progressed", Post(s),
           cls'.todo = cls.todo, early => early', UNCHANGED rows
    PROVE Pending'
  <1>1. Leaves({"progressed"})
    BY QueueAppended
  <1>2. \A row, file : IsReady(row, file) => IsReady(row, file)'
    BY DEF IsReady
  <1> QED
    BY <1>1, <1>2, PendingKept

LEMMA SameRowsLand ==
    ASSUME ProgressLandsOnItsRow, UNCHANGED rows, early => early' PROVE ProgressLandsOnItsRow'
  BY DEF ProgressLandsOnItsRow

LEMMA StillNoScan ==
    ASSUME NoScan, early => early', InProgress(cls)' => InProgress(cls),
           InProgress(cls) /\ "scan" \notin enabled => "scan" \notin enabled',
           scan.run \in Quiet => scan'.run \in Quiet
    PROVE NoScan'
  BY DEF NoScan

RowsInv == NoScan /\ Pending /\ ProgressLandsOnItsRow

\* Steps that change no row, leave the classification as it is and enable nothing.
LEMMA Elsewhere ==
    ASSUME RowsInv, QueueOK, Leaves(ClsKinds), UNCHANGED <<rows, cls>>, early => early',
           InProgress(cls) /\ "scan" \notin enabled => "scan" \notin enabled',
           scan.run \in Quiet => scan'.run \in Quiet
    PROVE RowsInv'
  <1>1. InProgress(cls)' => InProgress(cls)
    BY DEF InProgress
  <1> QED
    BY <1>1, StillNoScan, SameRowsPending, SameRowsLand DEF RowsInv

LEMMA RowsCommands ==
    ASSUME RowsInv, QueueOK, ScanOK, ScanThread, ClsThread, early => early',
           ChooseFolder \/ StartScan \/ CancelScan \/ Close \/ Analyze
    PROVE RowsInv'
  <1>1. ~early
    BY DEF ChooseFolder, StartScan, CancelScan, Close, Analyze, Input
  <1>2. CASE ChooseFolder \/ StartScan
    <2>1. UNCHANGED <<cls, posted>> /\ rows' = <<>>
      BY <1>2 DEF ChooseFolder, StartScan
    <2>2. ~InProgress(cls)
      BY <1>1, <1>2 DEF ChooseFolder, StartScan, RowsInv, NoScan
    <2>3. Leaves(ClsKinds)
      BY <2>1, QueueUntouched
    <2>4. NoScan' /\ Pending'
      BY <2>1, <2>2, <2>3, FreeRows
    <2> QED
      BY <2>1, <2>4 DEF RowsInv, ProgressLandsOnItsRow
  <1>3. CASE CancelScan
    <2>1. /\ UNCHANGED <<rows, cls, posted>> /\ enabled' \subseteq enabled
          /\ scan' = [scan EXCEPT !.cancel = TRUE]
      BY <1>3 DEF CancelScan
    <2>2. scan'.run = scan.run
      BY <2>1 DEF ScanOK
    <2>3. Leaves(ClsKinds)
      BY <2>1, QueueUntouched
    <2> QED
      BY <2>1, <2>2, <2>3, Elsewhere
  <1>4. CASE Close
    <2>1. posted' = <<>> /\ rows' = <<>> /\ cls' = IdleCls
      BY <1>4 DEF Close
    <2>2. cls'.todo = {} /\ ~InProgress(cls)'
      BY <2>1 DEF IdleCls, InProgress
    <2> QED
      BY <2>1, <2>2 DEF RowsInv, NoScan, Pending, ProgressLandsOnItsRow
  <1>5. CASE Analyze
    <2>1. /\ UNCHANGED <<rows, scan, posted>> /\ ~InProgress(cls) /\ ~InProgress(scan)
          /\ cls' = [held |-> TRUE, run |-> "working", todo |-> ReadyItems]
          /\ enabled' = Buttons(TRUE, rows, InProgress(scan), FALSE)
      BY <1>5 DEF Analyze
    <2>2. "scan" \notin enabled'
      BY <2>1, BlockedButtons
    <2>3. scan.run \in Quiet
      BY <1>1, <2>1 DEF ScanThread, InProgress, Quiet, ScanOK, ThreadStates
    <2>4. NoScan'
      BY <2>1, <2>2, <2>3 DEF NoScan
    <2>5. \A i \in DOMAIN posted : posted[i].kind # "progressed"
      BY <1>1, <2>1, NothingPending
    <2>6. \A item \in ReadyItems : IsReady(item.row, item.file)
      BY DEF ReadyItems, IsReady
    <2>7. Pending'
      BY <2>1, <2>5, <2>6 DEF Pending, IsReady
    <2>8. ProgressLandsOnItsRow'
      BY <2>1, SameRowsLand DEF RowsInv
    <2> QED
      BY <2>4, <2>7, <2>8 DEF RowsInv
  <1> QED
    BY <1>2, <1>3, <1>4, <1>5

LEMMA RowsThreads ==
    ASSUME RowsInv, WindowInv, AnalysisInv, ScanThread, ClsThread, early => early',
           ScanStep \/ QuitScan \/ ReportItem \/ EndItems \/ QuitCls
    PROVE RowsInv'
  <1>1. QueueOK /\ ScanOK /\ ClsOK
    BY DEF WindowInv
  <1>2. CASE ScanStep \/ QuitScan
    <2>1. UNCHANGED <<rows, cls, enabled>>
      BY <1>2 DEF ScanStep, QuitScan, DiscoverFiles, InspectFile, StopScan, EndScan, ScanFails,
                  OnlyTheScan
    <2>2. Leaves(ClsKinds)
      <3>1. ASSUME NEW kind \in ScanKinds, Post(Signal(kind)) PROVE Leaves(ClsKinds)
        <4>1. Signal(kind) \in Signals /\ Signal(kind).kind \notin ClsKinds
          BY SignalTyped DEF SignalKinds, ScanKinds, Outcomes, ClsKinds
        <4> QED
          BY <1>1, <3>1, <4>1, QueueAppended
      <3>2. CASE UNCHANGED posted
        BY <1>1, <3>2, QueueUntouched
      <3>3. CASE \/ Post(Signal("scanCompleted")) \/ Post(Signal("scanCancelled"))
                 \/ Post(Signal("scanFailed")) \/ Post(Signal("scanFinished"))
        BY <3>1, <3>3 DEF ScanKinds, Outcomes
      <3> QED
        BY <1>2, <3>2, <3>3 DEF ScanStep, QuitScan, DiscoverFiles, InspectFile, StopScan, EndScan,
                                ScanFails, Emit
    <2>3. scan.run \in Quiet => scan'.run \in Quiet
      <3>1. CASE ScanStep
        BY <3>1 DEF ScanStep, DiscoverFiles, InspectFile, StopScan, EndScan, ScanFails, ScanRuns,
                    Quiet
      <3>2. CASE QuitScan
        BY <1>1, <3>2 DEF QuitScan, ScanOK, Quiet
      <3> QED
        BY <1>2, <3>1, <3>2
    <2> QED
      BY <1>1, <2>1, <2>2, <2>3, Elsewhere
  <1>3. CASE EndItems \/ QuitCls
    <2>1. UNCHANGED <<rows, scan, enabled>>
      BY <1>3 DEF EndItems, QuitCls, OnlyTheWorker
    <2>2. cls'.todo = cls.todo
      BY <1>1, <1>3 DEF EndItems, QuitCls, ClsOK
    <2>3. InProgress(cls)' => InProgress(cls)
      BY <1>1, <1>3 DEF EndItems, QuitCls, ClsRuns, ClsOK, InProgress
    <2>4. Pending'
      <3>1. CASE EndItems
        <4>1. PICK s \in Signals : s.kind = "classified" /\ Post(s)
          BY <3>1, SignalTyped DEF EndItems, SignalKinds
        <4> QED
          BY <1>1, <2>1, <2>2, <4>1, NoProgressPosted DEF RowsInv
      <3>2. CASE QuitCls /\ UNCHANGED posted
        BY <1>1, <2>1, <2>2, <3>2, QueueUntouched, SameRowsPending DEF RowsInv
      <3>3. CASE QuitCls /\ Post(Signal("clsFinished"))
        <4>1. PICK s \in Signals : s.kind = "clsFinished" /\ Post(s)
          BY <3>3, SignalTyped DEF SignalKinds
        <4> QED
          BY <1>1, <2>1, <2>2, <4>1, NoProgressPosted DEF RowsInv
      <3> QED
        BY <1>3, <3>1, <3>2, <3>3 DEF QuitCls
    <2> QED
      BY <2>1, <2>3, <2>4, StillNoScan, SameRowsLand DEF RowsInv
  <1>4. CASE ReportItem
    <2>1. UNCHANGED <<rows, scan, enabled, early>>
      BY <1>4 DEF ReportItem, OnlyTheWorker
    <2>2. PICK s \in Signals, item \in cls.todo :
             /\ cls' = [cls EXCEPT !.todo = @ \ {item}]
             /\ Post(s)
             /\ \/ s.kind = "itemFailed"
                \/ s.kind = "progressed" /\ s.row = item.row /\ s.preview.from = item.file
      BY <1>4, ReportPosts
    <2>3. /\ cls'.todo = cls.todo \ {item} /\ cls'.run = cls.run /\ cls'.held = cls.held
      BY <1>1, <2>2 DEF ClsOK
    <2>4. InProgress(cls)' => InProgress(cls)
      BY <2>3 DEF InProgress
    <2>5. Pending'
      <3> SUFFICES ASSUME ~early PROVE Pending'
        BY <2>1 DEF Pending
      <3>1. \A i \in DOMAIN posted' :
               /\ i \in Nat
               /\ \/ i \in DOMAIN posted /\ posted'[i] = posted[i]
                  \/ i = Len(posted) + 1 /\ posted'[i] = s
        BY <1>1, <2>2, Posted
      <3>2. \A row, file : IsReady(row, file) => IsReady(row, file)'
        BY <2>1 DEF IsReady
      <3>3. /\ \A it \in cls.todo : IsReady(it.row, it.file)
            /\ \A it \in cls.todo : \A i \in DOMAIN posted :
                   posted[i].kind = "progressed" => it.row # posted[i].row
        BY DEF RowsInv, Pending
      <3>4. \A it \in cls.todo \ {item} : it.row # item.row
        <4> SUFFICES ASSUME NEW it \in cls.todo, it.row = item.row PROVE it = item
          OBVIOUS
        <4>1. it \in [row : Nat, file : Paths] /\ item \in [row : Nat, file : Paths]
          BY <1>1 DEF ClsOK
        <4>2. it.file = item.file
          BY <3>3 DEF IsReady
        <4> QED
          BY <4>1, <4>2
      <3>5. \A it \in cls'.todo : IsReady(it.row, it.file)'
        BY <2>3, <3>2, <3>3
      <3>6. ASSUME NEW i \in DOMAIN posted', posted'[i].kind = "progressed"
            PROVE /\ IsReady(posted[i].row, posted[i].preview.from)'
                  /\ \A it \in cls'.todo : it.row # posted'[i].row
                  /\ \A j \in DOMAIN posted' :
                        posted'[j].kind = "progressed" /\ posted'[j].row = posted'[i].row => i = j
        <4>1. PICK row, file : row = posted'[i].row /\ file = posted'[i].preview.from
          OBVIOUS
        <4>2. CASE i \in DOMAIN posted /\ posted'[i] = posted[i]
          <5>1. /\ IsReady(row, file)
                /\ \A it \in cls.todo : it.row # posted[i].row
                /\ \A j \in DOMAIN posted :
                      posted[j].kind = "progressed" /\ posted[j].row = posted[i].row => i = j
            BY <3>6, <4>1, <4>2 DEF RowsInv, Pending
          <5>2. \A j \in DOMAIN posted' :
                   posted'[j].kind = "progressed" /\ posted'[j].row = posted'[i].row => i = j
            BY <2>2, <3>1, <4>2, <5>1
          <5>3. IsReady(row, file)'
            BY <3>2, <5>1
          <5> QED
            BY <2>3, <4>1, <4>2, <5>1, <5>2, <5>3 DEF IsReady
        <4>3. CASE i = Len(posted) + 1 /\ posted'[i] = s
          <5>1. row = item.row /\ file = item.file
            BY <2>2, <3>6, <4>1, <4>3
          <5>2. IsReady(row, file)'
            BY <3>2, <3>3, <5>1
          <5>3. \A it \in cls'.todo : it.row # posted'[i].row
            BY <2>3, <3>4, <4>1, <5>1
          <5>4. \A j \in DOMAIN posted' :
                   posted'[j].kind = "progressed" /\ posted'[j].row = posted'[i].row => i = j
            BY <3>1, <3>3, <4>1, <4>3, <5>1
          <5> QED
            BY <4>1, <5>2, <5>3, <5>4 DEF IsReady
        <4> QED
          BY <3>1, <4>2, <4>3
      <3> QED
        BY <3>5, <3>6 DEF Pending
    <2> QED
      BY <2>1, <2>4, <2>5, StillNoScan, SameRowsLand DEF RowsInv
  <1> QED
    BY <1>2, <1>3, <1>4

\* The rows of a scan carry no preview.
LEMMA ScanRowsLand ==
    ASSUME NEW records, NEW moved
    PROVE \A i \in DOMAIN RowsOf(records, moved) : RowsOf(records, moved)[i].preview = Nothing
  BY DEF RowsOf

LEMMA RowsScanSlots ==
    ASSUME RowsInv, QueueOK, ScanOK, ScanThread, ClsThread, early => early',
           HandleScanCompleted \/ HandleScanCancelled \/ HandleScanFailed \/ HandleScanFinished
    PROVE RowsInv'
  <1>1. UNCHANGED <<cls, early>> /\ posted # <<>> /\ posted' = Tail(posted) /\ Leaves(ClsKinds)
    BY QueueTaken DEF HandleScanCompleted, HandleScanCancelled, HandleScanFailed,
       HandleScanFinished, Receive
  <1>2. 1 \in DOMAIN posted /\ Head(posted) = posted[1]
    BY <1>1, Shifted
  <1>3. CASE HandleScanCompleted \/ HandleScanCancelled
    <2>1. scan.run = "emitted"
      BY <1>2, <1>3 DEF HandleScanCompleted, HandleScanCancelled, Receive, ScanThread, Outcomes
    <2> SUFFICES ASSUME ~early PROVE RowsInv'
      BY <1>1 DEF RowsInv, NoScan, Pending, ProgressLandsOnItsRow
    <2>2. ~InProgress(cls)
      BY <2>1 DEF RowsInv, NoScan, Quiet
    <2>3. NoScan' /\ Pending'
      BY <1>1, <2>2, FreeRows
    <2>4. ProgressLandsOnItsRow'
      <3>1. CASE UNCHANGED rows
        BY <1>1, <3>1, SameRowsLand DEF RowsInv
      <3>2. CASE rows' = <<>>
        BY <3>2 DEF ProgressLandsOnItsRow
      <3>3. CASE \E moved : rows' = RowsOf(scan.records, moved)
        BY <3>3, ScanRowsLand DEF ProgressLandsOnItsRow
      <3>4. CASE HandleScanCompleted
        <4>1. PICK moved \in {history, {}} :
                 rows' = IF Active THEN RowsOf(scan.records, IF shell = "cockpit" THEN moved ELSE {})
                                   ELSE rows
          BY <3>4, Zenon DEF HandleScanCompleted
        <4>2. PICK m : m = IF shell = "cockpit" THEN moved ELSE {}
          OBVIOUS
        <4>3. rows' = RowsOf(scan.records, m) \/ UNCHANGED rows
          BY <4>1, <4>2, Zenon
        <4> QED
          BY <3>1, <3>3, <4>3
      <3>5. CASE HandleScanCancelled
        <4>1. rows' = <<>> \/ UNCHANGED rows
          BY <3>5, Zenon DEF HandleScanCancelled
        <4> QED
          BY <3>1, <3>2, <4>1
      <3> QED
        BY <1>3, <3>4, <3>5
    <2> QED
      BY <2>3, <2>4 DEF RowsInv
  <1>4. CASE HandleScanFailed
    <2>1. UNCHANGED <<rows, enabled>>
      BY <1>4 DEF HandleScanFailed
    <2>2. scan.run = "emitted"
      BY <1>2, <1>4 DEF HandleScanFailed, Receive, ScanThread, Outcomes
    <2> QED
      BY <1>1, <2>1, <2>2, Elsewhere DEF Quiet
  <1>5. CASE HandleScanFinished
    <2>1. /\ UNCHANGED rows /\ scan' = [scan EXCEPT !.held = FALSE]
          /\ enabled' = Buttons(FALSE, rows, FALSE, InProgress(cls))
      BY <1>5 DEF HandleScanFinished
    <2>2. scan'.run = scan.run
      BY <2>1 DEF ScanOK
    <2>3. InProgress(cls) => "scan" \notin enabled'
      BY <2>1, BlockedButtons
    <2> QED
      BY <1>1, <2>1, <2>2, <2>3, Elsewhere
  <1> QED
    BY <1>3, <1>4, <1>5

LEMMA RowsClsSlots ==
    ASSUME RowsInv, WindowInv, ClsThread, early => early',
           HandleProgress \/ HandleItemFailed \/ HandleClassified \/ HandleClsFinished
    PROVE RowsInv'
  <1>1. /\ UNCHANGED <<scan, early>> /\ posted # <<>> /\ posted' = Tail(posted)
        /\ Leaves(ClsKinds) /\ QueueOK /\ ClsOK
    BY QueueTaken DEF HandleProgress, HandleItemFailed, HandleClassified, HandleClsFinished, Receive,
       WindowInv
  <1>2. /\ 1 \in DOMAIN posted /\ Head(posted) = posted[1]
        /\ \A i \in DOMAIN posted' :
              /\ i \in Nat \ {0}
              /\ i + 1 \in DOMAIN posted /\ posted'[i] = posted[i + 1]
    BY <1>1, Shifted
  <1>3. CASE HandleProgress
    <2>1. UNCHANGED <<enabled, cls>> /\ posted[1].kind = "progressed"
      BY <1>2, <1>3 DEF HandleProgress, Receive
    <2>2. NoScan'
      BY <1>1, <2>1, StillNoScan DEF RowsInv, InProgress
    <2> SUFFICES ASSUME ~early PROVE Pending' /\ ProgressLandsOnItsRow'
      BY <1>1, <2>2 DEF RowsInv, Pending, ProgressLandsOnItsRow
    <2>3. PICK r, from : r = posted[1].row /\ from = posted[1].preview.from
      OBVIOUS
    <2>4. /\ r \in DOMAIN rows /\ rows[r].file = from /\ rows[r].status = "READY"
          /\ \A item \in cls.todo : item.row # r
          /\ \A j \in DOMAIN posted : posted[j].kind = "progressed" /\ posted[j].row = r => j = 1
      BY <1>2, <2>1, <2>3 DEF RowsInv, Pending, IsReady
    <2>5. posted[1].preview \in Previews
      BY <1>2, <2>1 DEF QueueOK, WindowInv
    <2>6. PICK preview \in Previews :
             /\ preview.from = from
             /\ rows' = [rows EXCEPT ![r].status = "REVIEW", ![r].preview = preview]
      <3> DEFINE preview == IF disk[Head(posted).preview.from] = Absent
                            THEN [Head(posted).preview EXCEPT !.to = Nothing]
                            ELSE Head(posted).preview
      <3>1. preview \in Previews /\ preview.from = from
        BY <1>2, <2>3, <2>5 DEF Previews
      <3>2. rows' = IF Head(posted).row \in DOMAIN rows
                    THEN [rows EXCEPT ![Head(posted).row].status = "REVIEW",
                                      ![Head(posted).row].preview = preview]
                    ELSE rows
        BY <1>3, Zenon DEF HandleProgress
      <3> HIDE DEF preview
      <3>3. rows' = [rows EXCEPT ![r].status = "REVIEW", ![r].preview = preview]
        BY <1>2, <2>3, <2>4, <3>2
      <3> QED
        BY <3>1, <3>3
    <2>7. RowsOK
      BY DEF WindowInv
    <2>8. /\ DOMAIN rows' = DOMAIN rows
          /\ \A i \in DOMAIN rows : i # r => rows'[i] = rows[i]
          /\ rows'[r].file = from /\ rows'[r].preview = preview
      <3>1. rows[r] \in Rows
        BY <2>4, <2>7 DEF RowsOK
      <3> DEFINE new == [rows[r] EXCEPT !.status = "REVIEW", !.preview = preview]
      <3>2. new.file = from /\ new.preview = preview
        BY <2>4, <3>1 DEF Rows
      <3>3. rows' = [rows EXCEPT ![r] = new]
        BY <2>4, <2>6
      <3> HIDE DEF new
      <3> QED
        BY <2>4, <3>2, <3>3
    <2>9. ProgressLandsOnItsRow'
      BY <1>1, <2>6, <2>8 DEF RowsInv, ProgressLandsOnItsRow
    <2>10. \A row, file : row # r /\ IsReady(row, file) => IsReady(row, file)'
      BY <2>8 DEF IsReady
    <2>11. \A item \in cls'.todo : IsReady(item.row, item.file)'
      BY <2>1, <2>4, <2>10 DEF RowsInv, Pending
    <2>12. ASSUME NEW i \in DOMAIN posted', posted'[i].kind = "progressed"
           PROVE /\ IsReady(posted[i].row, posted[i].preview.from)'
                 /\ \A item \in cls'.todo : item.row # posted'[i].row
                 /\ \A j \in DOMAIN posted' :
                       posted'[j].kind = "progressed" /\ posted'[j].row = posted'[i].row => i = j
      <3>1. /\ i + 1 \in DOMAIN posted /\ posted'[i] = posted[i + 1] /\ i \in Nat \ {0}
            /\ i + 1 # 1
        BY <1>2
      <3>2. posted[i + 1].row # r
        BY <2>4, <2>12, <3>1
      <3>3. PICK row, file : row = posted[i + 1].row /\ file = posted[i + 1].preview.from
        OBVIOUS
      <3>4. /\ IsReady(row, file)
            /\ \A item \in cls.todo : item.row # row
            /\ \A j \in DOMAIN posted :
                  posted[j].kind = "progressed" /\ posted[j].row = row => i + 1 = j
        BY <2>12, <3>1, <3>3 DEF RowsInv, Pending
      <3>5. IsReady(row, file)'
        BY <2>10, <3>2, <3>3, <3>4
      <3>6. ASSUME NEW j \in DOMAIN posted', posted'[j].kind = "progressed",
                   posted'[j].row = posted'[i].row
            PROVE i = j
        <4>1. j + 1 \in DOMAIN posted /\ posted'[j] = posted[j + 1] /\ j \in Nat
          BY <1>2
        <4>2. i + 1 = j + 1
          BY <3>1, <3>3, <3>4, <3>6, <4>1
        <4> QED
          BY <3>1, <4>1, <4>2
      <3> QED
        BY <2>1, <3>1, <3>3, <3>4, <3>5, <3>6 DEF IsReady
    <2> QED
      BY <2>9, <2>11, <2>12 DEF Pending
  <1>4. CASE HandleItemFailed
    <2>1. UNCHANGED <<rows, enabled, cls>>
      BY <1>4 DEF HandleItemFailed
    <2> QED
      BY <1>1, <2>1, Elsewhere
  <1>5. CASE HandleClassified \/ HandleClsFinished
    <2>1. UNCHANGED rows
      BY <1>5 DEF HandleClassified, HandleClsFinished
    <2>2. /\ InProgress(cls)' => (InProgress(cls) /\ UNCHANGED enabled)
          /\ cls'.todo = cls.todo
      <3>1. CASE HandleClassified
        <4>1. cls' = [cls EXCEPT !.run = "quitting"] /\ posted[1].kind = "classified" /\ UNCHANGED enabled
          BY <1>2, <3>1 DEF HandleClassified, Receive
        <4>2. cls.run = "emitted"
          BY <1>2, <4>1 DEF ClsThread
        <4> QED
          BY <1>1, <4>1, <4>2 DEF InProgress, ClsOK
      <3>2. CASE HandleClsFinished
        <4>1. cls' = [cls EXCEPT !.held = FALSE]
          BY <3>2 DEF HandleClsFinished
        <4> QED
          BY <1>1, <4>1 DEF InProgress, ClsOK
      <3> QED
        BY <1>5, <3>1, <3>2
    <2>3. NoScan'
      BY <1>1, <2>2 DEF RowsInv, NoScan
    <2>4. Pending' /\ ProgressLandsOnItsRow'
      BY <1>1, <2>1, <2>2, SameRowsPending, SameRowsLand DEF RowsInv
    <2> QED
      BY <2>3, <2>4 DEF RowsInv
  <1> QED
    BY <1>3, <1>4, <1>5

LEMMA RowsDecisions ==
    ASSUME RowsInv, WindowInv, early => early', Decide
    PROVE RowsInv'
  <1>1. PICK d \in deciding : Approve(d) \/ Reject(d) \/ Blocked(d)
    BY DEF Decide
  <1>2. /\ UNCHANGED <<cls, scan, posted>> /\ RowsOK /\ QueueOK
    BY <1>1 DEF Approve, Reject, Blocked, Undecided, WindowInv
  <1>3. Leaves(ClsKinds)
    BY <1>2, QueueUntouched
  <1>4. CASE Blocked(d)
    <2>1. UNCHANGED <<rows, enabled>>
      BY <1>4 DEF Blocked
    <2> QED
      BY <1>2, <1>3, <2>1, Elsewhere
  <1>5. CASE Approve(d) \/ Reject(d)
    <2>1. PICK r : r = d.row
      OBVIOUS
    <2>2. r \in DOMAIN rows /\ rows[r].status = "REVIEW" /\ rows[r] \in Rows
      <3>1. InReview(d)
        BY <1>5 DEF Approve, Reject
      <3>2. r \in DOMAIN rows /\ rows[r].status = "REVIEW"
        BY <2>1, <3>1 DEF InReview
      <3> QED
        BY <1>2, <3>2 DEF RowsOK
    <2>3. PICK new \in Rows :
             /\ rows' = [rows EXCEPT ![r] = new]
             /\ new.status = "MOVED" \/ (new.file = rows[r].file /\ new.preview = rows[r].preview)
      <3>1. CASE Approve(d)
        <4>1. PICK place : /\ place \in Paths
                           /\ rows' = [rows EXCEPT ![r].status = "MOVED", ![r].file = place]
          BY <1>2, <2>1, <2>2, <3>1 DEF Approve, CanMove, RowsOK, Previews
        <4> DEFINE new == [rows[r] EXCEPT !.status = "MOVED", !.file = place]
        <4>2. new \in Rows /\ new.status = "MOVED" /\ rows' = [rows EXCEPT ![r] = new]
          BY <2>2, <4>1 DEF Rows
        <4> QED
          BY <4>2
      <3>2. CASE Reject(d)
        <4>1. rows' = [rows EXCEPT ![r].status = "REJECTED"]
          BY <2>1, <3>2 DEF Reject
        <4> DEFINE new == [rows[r] EXCEPT !.status = "REJECTED"]
        <4>2. /\ new \in Rows /\ rows' = [rows EXCEPT ![r] = new]
              /\ new.file = rows[r].file /\ new.preview = rows[r].preview
          BY <2>2, <4>1 DEF Rows
        <4> QED
          BY <4>2
      <3> QED
        BY <1>5, <3>1, <3>2
    <2>4. /\ DOMAIN rows' = DOMAIN rows /\ rows'[r] = new
          /\ \A i \in DOMAIN rows : i # r => rows'[i] = rows[i]
      BY <2>2, <2>3
    <2>5. \A row, file : IsReady(row, file) => IsReady(row, file)'
      BY <2>2, <2>4 DEF IsReady
    <2>6. Leaves({"progressed"})
      BY <1>2, QueueUntouched
    <2>7. Pending'
      BY <1>2, <2>5, <2>6, PendingKept DEF RowsInv
    <2>8. InProgress(cls) => "scan" \notin enabled'
      <3>1. \E docs : enabled' = Buttons(FALSE, docs, InProgress(scan), InProgress(cls))
        BY <1>5 DEF Approve, Reject
      <3> QED
        BY <3>1, BlockedButtons
    <2>9. NoScan'
      BY <1>2, <2>8, StillNoScan DEF RowsInv, InProgress
    <2>10. ProgressLandsOnItsRow'
      BY <2>2, <2>3, <2>4 DEF RowsInv, ProgressLandsOnItsRow
    <2> QED
      BY <2>7, <2>9, <2>10 DEF RowsInv
  <1> QED
    BY <1>1, <1>4, <1>5

\* The other actions of the user, and the steps that leave the window alone.
LEMMA RowsTable ==
    ASSUME RowsInv, QueueOK, early => early',
           \/ OpenRow \/ OpenReview \/ CloseReview \/ ClickRow \/ ClickFires \/ ApproveAll
           \/ NextItem
           \/ UNCHANGED uiVars
    PROVE RowsInv'
  <1>1. UNCHANGED <<rows, cls, scan, posted>>
    BY DEF OpenRow, OpenReview, CloseReview, ClickRow, ClickFires, ApproveAll, NextItem,
       OnlyTheWorker, uiVars
  <1>2. InProgress(cls) /\ "scan" \notin enabled => "scan" \notin enabled'
    <2>1. CASE OpenRow
      <3>1. enabled' = Buttons(FALSE, rows, InProgress(scan), InProgress(cls))
        BY <2>1 DEF OpenRow
      <3> QED
        BY <3>1, BlockedButtons
    <2>2. CASE ~OpenRow
      BY <2>2 DEF OpenReview, CloseReview, ClickRow, ClickFires, ApproveAll, NextItem, OnlyTheWorker,
                  uiVars
    <2> QED
      BY <2>1, <2>2
  <1>3. Leaves(ClsKinds)
    BY <1>1, QueueUntouched
  <1> QED
    BY <1>1, <1>2, <1>3, Elsewhere
------------------------------------------------------------------------------
(* The session.                                                                 *)

AllInv == Inv /\ ScanThread /\ ClsThread /\ RowsInv

LEMMA InitThreads == Init => ScanThread /\ ClsThread /\ RowsInv
  <1> SUFFICES ASSUME Init PROVE ScanThread /\ ClsThread /\ RowsInv
    OBVIOUS
  <1>1. posted = <<>> /\ rows = <<>> /\ scan.run = "none" /\ cls.run = "none" /\ cls.todo = {}
    BY DEF Init, IdleScan, IdleCls
  <1> QED
    BY <1>1 DEF ScanThread, ClsThread, RowsInv, NoScan, Pending, ProgressLandsOnItsRow, Quiet,
                InProgress

LEMMA NextScanThread == ASSUME AllInv, [Next]_vars PROVE ScanThread'
  <1>1. QueueOK /\ ScanOK /\ ClsOK /\ ScanThread /\ (early => early')
    BY EarlyStays DEF AllInv, Inv, WindowInv
  <1>2. ASSUME Leaves(ScanKinds), UNCHANGED scan PROVE ScanThread'
    BY <1>1, <1>2, ScanThreadKept
  <1>3. CASE UNCHANGED <<scan, posted>>
    BY <1>1, <1>2, <1>3, QueueUntouched
  <1>4. CASE StartScan \/ CancelScan \/ Close
    BY <1>1, <1>4, ScanCommands
  <1>5. CASE ScanStep \/ QuitScan
    BY <1>1, <1>5, ScanSteps
  <1>6. CASE HandleScanCompleted \/ HandleScanCancelled \/ HandleScanFailed \/ HandleScanFinished
    BY <1>1, <1>6, ScanSlots
  <1>7. CASE HandleProgress \/ HandleItemFailed \/ HandleClassified \/ HandleClsFinished
    <2>1. UNCHANGED scan /\ \E kind : Receive(kind)
      BY <1>7 DEF HandleProgress, HandleItemFailed, HandleClassified, HandleClsFinished
    <2> QED
      BY <1>1, <1>2, <2>1, QueueTaken
  <1>8. CASE ReportItem \/ EndItems \/ QuitCls
    <2>1. UNCHANGED scan
      BY <1>8 DEF ReportItem, EndItems, QuitCls, OnlyTheWorker
    <2>2. ASSUME NEW s \in Signals, Post(s), s.kind \in ClsKinds \cup {"itemFailed"}
          PROVE Leaves(ScanKinds)
      BY <1>1, <2>2, QueueAppended DEF ScanKinds, Outcomes, ClsKinds
    <2>3. CASE ReportItem
      <3>1. PICK s \in Signals : Post(s) /\ s.kind \in {"itemFailed", "progressed"}
        BY <2>3, ReportPosts DEF AllInv, Inv, PdfInv, AnalysisInv, PdfTypeOK
      <3> QED
        BY <1>2, <2>1, <2>2, <3>1 DEF ClsKinds
    <2>4. CASE Post(Signal("classified")) \/ Post(Signal("clsFinished"))
      <3>1. PICK s \in Signals : Post(s) /\ s.kind \in {"classified", "clsFinished"}
        BY <2>4, SignalTyped DEF SignalKinds
      <3> QED
        BY <1>2, <2>1, <2>2, <3>1 DEF ClsKinds
    <2> QED
      BY <1>3, <1>8, <2>1, <2>3, <2>4 DEF EndItems, QuitCls
  <1>9. CASE \/ ChooseFolder \/ Analyze \/ OpenRow \/ OpenReview \/ CloseReview \/ ClickRow
             \/ ClickFires \/ ApproveAll \/ NextItem \/ UNCHANGED uiVars \/ Decide
    <2>1. UNCHANGED <<scan, posted>>
      BY <1>9 DEF ChooseFolder, Analyze, OpenRow, OpenReview, CloseReview, ClickRow, ClickFires,
         ApproveAll, NextItem, OnlyTheWorker, uiVars, Decide, Approve, Reject, Blocked, Undecided
    <2> QED
      BY <1>3, <2>1
  <1> QED
    BY <1>4, <1>5, <1>6, <1>7, <1>8, <1>9
    DEF Next, vars, HandleSignal, WorkerStep, Owner, RunCommand

LEMMA NextClsThread == ASSUME AllInv, [Next]_vars PROVE ClsThread'
  <1>1. QueueOK /\ ScanOK /\ ClsOK /\ ClsThread /\ WindowInv /\ AnalysisInv /\ (early => early')
    BY EarlyStays, PdfParts DEF AllInv, Inv, WindowInv
  <1>2. ASSUME Leaves(ClsKinds), UNCHANGED cls PROVE ClsThread'
    BY <1>1, <1>2, ClsThreadKept
  <1>3. CASE UNCHANGED <<cls, posted>>
    BY <1>1, <1>2, <1>3, QueueUntouched
  <1>4. CASE Analyze \/ Close
    BY <1>1, <1>4, ClsCommands
  <1>5. CASE ReportItem \/ EndItems \/ QuitCls
    BY <1>1, <1>5, ClsSteps
  <1>6. CASE HandleClassified \/ HandleClsFinished
    BY <1>1, <1>6, ClsSlots
  <1>7. CASE \/ HandleScanCompleted \/ HandleScanCancelled \/ HandleScanFailed
             \/ HandleScanFinished \/ HandleProgress \/ HandleItemFailed
    <2>1. UNCHANGED cls /\ \E kind : Receive(kind)
      BY <1>7 DEF HandleScanCompleted, HandleScanCancelled, HandleScanFailed, HandleScanFinished,
         HandleProgress, HandleItemFailed
    <2> QED
      BY <1>1, <1>2, <2>1, QueueTaken
  <1>8. CASE ScanStep \/ QuitScan
    <2>1. UNCHANGED cls
      BY <1>8 DEF ScanStep, QuitScan, DiscoverFiles, InspectFile, StopScan, EndScan, ScanFails,
                  OnlyTheScan
    <2>2. CASE UNCHANGED posted
      BY <1>3, <2>1, <2>2
    <2>3. ASSUME NEW kind \in ScanKinds, Post(Signal(kind)) PROVE ClsThread'
      <3>1. Signal(kind) \in Signals /\ Signal(kind).kind \notin ClsKinds
        BY SignalTyped DEF SignalKinds, ScanKinds, Outcomes, ClsKinds
      <3> QED
        BY <1>1, <1>2, <2>1, <2>3, <3>1, QueueAppended
    <2>4. CASE \/ Post(Signal("scanCompleted")) \/ Post(Signal("scanCancelled"))
               \/ Post(Signal("scanFailed")) \/ Post(Signal("scanFinished"))
      BY <2>3, <2>4 DEF ScanKinds, Outcomes
    <2> QED
      BY <1>8, <2>2, <2>4 DEF ScanStep, QuitScan, DiscoverFiles, InspectFile, StopScan, EndScan,
                              ScanFails, Emit
  <1>9. CASE \/ ChooseFolder \/ StartScan \/ CancelScan \/ OpenRow \/ OpenReview \/ CloseReview
             \/ ClickRow \/ ClickFires \/ ApproveAll \/ NextItem \/ UNCHANGED uiVars \/ Decide
    <2>1. UNCHANGED <<cls, posted>>
      BY <1>9 DEF ChooseFolder, StartScan, CancelScan, OpenRow, OpenReview, CloseReview, ClickRow,
         ClickFires, ApproveAll, NextItem, OnlyTheWorker, uiVars, Decide, Approve, Reject, Blocked,
         Undecided
    <2> QED
      BY <1>3, <2>1
  <1> QED
    BY <1>4, <1>5, <1>6, <1>7, <1>8, <1>9
    DEF Next, vars, HandleSignal, WorkerStep, Owner, RunCommand

LEMMA NextRows == ASSUME AllInv, [Next]_vars PROVE RowsInv'
  <1>1. /\ QueueOK /\ ScanOK /\ ClsOK /\ ScanThread /\ ClsThread /\ RowsInv
        /\ WindowInv /\ AnalysisInv /\ (early => early')
    BY EarlyStays, PdfParts DEF AllInv, Inv, WindowInv
  <1>2. CASE ChooseFolder \/ StartScan \/ CancelScan \/ Close \/ Analyze
    BY <1>1, <1>2, RowsCommands
  <1>3. CASE ScanStep \/ QuitScan \/ ReportItem \/ EndItems \/ QuitCls
    BY <1>1, <1>3, RowsThreads
  <1>4. CASE HandleScanCompleted \/ HandleScanCancelled \/ HandleScanFailed \/ HandleScanFinished
    BY <1>1, <1>4, RowsScanSlots
  <1>5. CASE HandleProgress \/ HandleItemFailed \/ HandleClassified \/ HandleClsFinished
    BY <1>1, <1>5, RowsClsSlots
  <1>6. CASE Decide
    BY <1>1, <1>6, RowsDecisions
  <1>7. CASE \/ OpenRow \/ OpenReview \/ CloseReview \/ ClickRow \/ ClickFires \/ ApproveAll
             \/ NextItem \/ UNCHANGED uiVars
    BY <1>1, <1>7, RowsTable
  <1> QED
    BY <1>2, <1>3, <1>4, <1>5, <1>6, <1>7
    DEF Next, vars, HandleSignal, WorkerStep, Owner, RunCommand

\* What is queued for the window, which thread may still send to it, and which
\* rows a running classification is about, in every reachable state.
THEOREM ThreadsInvariant == Spec => []AllInv
  <1>1. Init => AllInv
    BY InitInv, InitThreads DEF AllInv
  <1>2. AllInv /\ [Next]_vars => AllInv'
    <2> SUFFICES ASSUME AllInv, [Next]_vars PROVE AllInv'
      OBVIOUS
    <2>1. Inv'
      BY NextInv DEF AllInv
    <2> QED
      BY <2>1, NextScanThread, NextClsThread, NextRows DEF AllInv
  <1> QED
    BY <1>1, <1>2, PTL DEF Spec

\* ProgressLandsOnItsRow: the row numbers of a classification's signals stay
\* right through scans, decisions and queued signals.
THEOREM ProgressIsPlaced == Spec => []ProgressLandsOnItsRow
  <1>1. AllInv => ProgressLandsOnItsRow
    BY DEF AllInv, RowsInv
  <1> QED
    BY <1>1, ThreadsInvariant, PTL

\* ClosingWaits: a window that closes has no thread that could still send to it.
THEOREM ClosingIsSafe == Spec => ClosingWaits
  <1> DEFINE Waits == closed' # closed /\ ~early =>
                         {scan.run, cls.run} \cap {"working", "emitted", "quitting"} = {}
  <1>1. AllInv /\ [Next]_vars => [Waits]_vars
    <2> SUFFICES ASSUME AllInv, [Next]_vars, closed' # closed, ~early
                 PROVE {scan.run, cls.run} \cap {"working", "emitted", "quitting"} = {}
      OBVIOUS
    <2>1. Close
      BY DEF Next, vars, uiVars, ChooseFolder, StartScan, CancelScan, ScanStep, DiscoverFiles,
         InspectFile, StopScan, EndScan, ScanFails, OnlyTheScan, Analyze, WorkerStep, NextItem,
         ReportItem, EndItems, OnlyTheWorker, QuitScan, QuitCls, HandleSignal, HandleScanCompleted,
         HandleScanCancelled, HandleScanFailed, HandleScanFinished, HandleProgress,
         HandleItemFailed, HandleClassified, HandleClsFinished, Receive, OpenRow, OpenReview,
         CloseReview, ClickRow, ClickFires, ApproveAll, Decide, Approve, Reject, Blocked, Undecided,
         Owner, RunCommand
    <2>2. ~InProgress(scan) /\ ~InProgress(cls)
      BY <2>1 DEF Close
    <2>3. (scan.held \/ scan.run \in Quiet) /\ (cls.held \/ cls.run \in Quiet)
      BY DEF AllInv, ScanThread, ClsThread
    <2> QED
      BY <2>2, <2>3 DEF InProgress, Quiet
  <1> QED
    BY <1>1, ThreadsInvariant, PTL DEF Spec, ClosingWaits

\* PublishedScansAreWhole: rows appear only with the result of a whole scan.
THEOREM ScansAreWhole == Spec => PublishedScansAreWhole
  <1> DEFINE Whole == rows = <<>> /\ rows' # <<>> => scan.listed /\ scan.todo = {}
  <1>1. AllInv /\ [Next]_vars => [Whole]_vars
    <2> SUFFICES ASSUME AllInv, [Next]_vars, rows = <<>>, rows' # <<>>
                 PROVE scan.listed /\ scan.todo = {}
      OBVIOUS
    <2>1. HandleScanCompleted
      <3>1. DOMAIN rows = {}
        OBVIOUS
      <3>2. ~HandleProgress
        BY <3>1 DEF HandleProgress
      <3>3. ~HandleScanCancelled
        BY DEF HandleScanCancelled
      <3>4. ~Decide
        BY <3>1 DEF Decide, Approve, Reject, Blocked, InReview
      <3>5. ~ChooseFolder /\ ~StartScan /\ ~Close
        BY DEF ChooseFolder, StartScan, Close
      <3> QED
        BY <3>2, <3>3, <3>4, <3>5
        DEF Next, vars, uiVars, CancelScan, ScanStep, DiscoverFiles, InspectFile, StopScan,
            EndScan, ScanFails, OnlyTheScan, Analyze, WorkerStep, NextItem, ReportItem, EndItems,
            OnlyTheWorker, QuitScan, QuitCls, HandleSignal, HandleScanFailed, HandleScanFinished,
            HandleItemFailed, HandleClassified, HandleClsFinished, OpenRow, OpenReview,
            CloseReview, ClickRow, ClickFires, ApproveAll, Owner, RunCommand
    <2>2. QueueOK /\ ScanThread
      BY DEF AllInv, Inv, WindowInv
    <2>3. posted # <<>> /\ posted' = Tail(posted) /\ Head(posted).kind = "scanCompleted"
      BY <2>1 DEF HandleScanCompleted, Receive
    <2>4. 1 \in DOMAIN posted /\ posted[1].kind = "scanCompleted"
      BY <2>2, <2>3, Shifted
    <2> QED
      BY <2>2, <2>4 DEF ScanThread
  <1> QED
    BY <1>1, ThreadsInvariant, PTL DEF Spec, PublishedScansAreWhole
==============================================================================
