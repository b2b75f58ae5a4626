------------------------- MODULE TelemetryFilesProofs -------------------------
(***************************************************************************)
(* The file handles that the telemetry manager, the downlink encoder and   *)
(* the logger share, and the data on their way from the queue to the       *)
(* packets, for every length of the queues, number of handles, number of   *)
(* batches and number of failing operations.                               *)
(***************************************************************************)
EXTENDS TelemetryFiles, FiniteSetTheorems, SequenceTheorems, TLAPS

HandleStates == [of : Int, mode : {"none", "r", "rw", "w"}, pos : Nat]

OpenHandles == {h \in Handles : handle[h] # Closed}

\* The handle a task takes for its own, if it does: it need not be open, or may by now
\* be another's.
ManagerHas ==
  IF mgr \in {"closeNew", "receive", "write", "check", "close"} THEN {telemetryFileId} ELSE {}
EncoderHas == IF enc \in {"read", "close"} THEN {fd} ELSE {}
LoggerHas  == IF log \in {"write", "close"} THEN {logFd} ELSE {}

FileTypes ==
  /\ handle \in [Handles -> HandleStates]
  /\ telemetryBatchId \in Nat /\ encBatch \in Nat /\ encodeQueue \in Seq(Nat)
  /\ leaks \in Nat

\* The open handles are those that the tasks take for their own and some that were
\* forgotten, of which there are as many as leaks.
Covered ==
  \E L : /\ IsFiniteSet(L) /\ Cardinality(L) <= leaks
         /\ OpenHandles \subseteq L \cup ManagerHas \cup EncoderHas \cup LoggerHas

\* Batches go to the encoder after they are closed for good.
BatchOrder ==
  /\ \A k \in DOMAIN encodeQueue : encodeQueue[k] < telemetryBatchId
  /\ enc # "idle" => encBatch < telemetryBatchId

\* The only handle that is open for reading and writing is the manager's, and it is
\* open for the current batch.
OneWriter ==
  \A h \in Handles : handle[h].mode = "rw" =>
    /\ h = telemetryFileId
    /\ mgr \in {"receive", "write", "check", "close"}
    /\ handle[h].of = telemetryBatchId

FilesInv == FileTypes /\ Covered /\ BatchOrder /\ OneWriter

\* Nothing happens, unless on the way from the encoder to the ground.
Still ==
  UNCHANGED <<queue, added, downlinkReady, requests, telemetryBatchId, telemetryFileId, mgr,
              datum, encodeQueue, enc, fd, telemPacket, encBatch, log, logFd, logQueue, logs,
              file, handle, sent, faults, unreadable, stale, leaks>>

LEMMA Steps ==
  ASSUME [Next]_vars
  PROVE  Add \/ Request \/ LogEvent \/ Manager \/ Packing \/ Logger \/ Still
<1>1. CASE SendTransmit
  BY <1>1 DEF SendTransmit, Still, queueVars, mgrVars, logVars, fsVars, historyVars
<1>2. CASE StartDownlinking \/ TakeTransmit
  BY <1>2 DEF StartDownlinking, TakeTransmit, notLink, Still, queueVars, mgrVars, encVars,
              logVars, fsVars, historyVars
<1>3. CASE UNCHANGED vars
  BY <1>3 DEF vars, Still, queueVars, mgrVars, encVars, logVars, fsVars, historyVars
<1>4. QED
  BY <1>1, <1>2, <1>3 DEF Next, Encoder

-----------------------------------------------------------------------------
(* Opening and closing. *)

\* red_open opens at most the handle it gives.
LEMMA Opens ==
  ASSUME FileTypes, NEW f \in Int, NEW m \in {"r", "rw", "w"}, OpenSucceeds(f, m)
  PROVE  /\ handle' \in [Handles -> HandleStates]
         /\ OpenHandles' \subseteq OpenHandles \cup {NextHandle}
         /\ \A h \in Handles : handle'[h].mode = "rw" =>
              \/ h # NextHandle /\ handle'[h] = handle[h]
              \/ h = NextHandle /\ m = "rw" /\ handle'[h].of = f
<1> DEFINE n == NextHandle
<1>1. handle' = [handle EXCEPT ![n] = Open(f, m)] /\ handle \in [Handles -> HandleStates]
  BY DEF OpenSucceeds, FileTypes
<1>. HIDE DEF n
<1>2. Open(f, m) \in HandleStates /\ Open(f, m).mode = m /\ Open(f, m).of = f
  BY DEF Open, HandleStates
<1>3. handle' \in [Handles -> HandleStates]
  BY <1>1, <1>2
<1>4. \A h \in Handles : handle'[h] = IF h = n THEN Open(f, m) ELSE handle[h]
  BY <1>1
<1>5. OpenHandles' \subseteq OpenHandles \cup {n}
  BY <1>4 DEF OpenHandles
<1>6. \A h \in Handles : handle'[h].mode = "rw" =>
        (h # n /\ handle'[h] = handle[h]) \/ (h = n /\ m = "rw" /\ handle'[h].of = f)
  BY <1>2, <1>4
<1>. QED
  BY <1>3, <1>5, <1>6 DEF n

\* A handle that is closed is not open.
LEMMA Closes ==
  ASSUME FileTypes, NEW n, CloseHandle(n)
  PROVE  /\ handle' \in [Handles -> HandleStates]
         /\ OpenHandles' \subseteq OpenHandles \ {n}
         /\ \A h \in Handles : handle'[h].mode = "rw" => h # n /\ handle'[h] = handle[h]
<1>1. handle \in [Handles -> HandleStates]
  BY DEF FileTypes
<1>2. Closed \in HandleStates /\ Closed.mode = "none"
  BY DEF Closed, HandleStates
<1>3. handle' \in [Handles -> HandleStates]
  BY <1>1, <1>2 DEF CloseHandle
<1>4. \A h \in Handles : handle'[h] = IF h = n THEN Closed ELSE handle[h]
  BY <1>1 DEF CloseHandle
<1>5. OpenHandles' \subseteq OpenHandles \ {n}
  BY <1>4 DEF OpenHandles
<1>. QED
  BY <1>2, <1>3, <1>4, <1>5

\* The same handles forgotten, and whatever is open still covered.
LEMMA CoveredStep ==
  ASSUME Covered, leaks' = leaks,
         \A h \in OpenHandles' :
           \/ h \in (ManagerHas \cup EncoderHas \cup LoggerHas)'
           \/ h \in OpenHandles \ (ManagerHas \cup EncoderHas \cup LoggerHas)
  PROVE  Covered'
<1>. PICK L : /\ IsFiniteSet(L) /\ Cardinality(L) <= leaks
              /\ OpenHandles \subseteq L \cup ManagerHas \cup EncoderHas \cup LoggerHas
  BY DEF Covered
<1>1. OpenHandles' \subseteq L \cup ManagerHas' \cup EncoderHas' \cup LoggerHas'
  OBVIOUS
<1>. QED
  BY <1>1 DEF Covered

\* One more handle forgotten.
LEMMA LeakStep ==
  ASSUME Covered, FileTypes, NEW n, leaks' = leaks + 1, OpenHandles' = OpenHandles,
         ManagerHas \cup EncoderHas \cup LoggerHas
           \subseteq (ManagerHas \cup EncoderHas \cup LoggerHas)' \cup {n}
  PROVE  Covered'
<1>. PICK L : /\ IsFiniteSet(L) /\ Cardinality(L) <= leaks
              /\ OpenHandles \subseteq L \cup ManagerHas \cup EncoderHas \cup LoggerHas
  BY DEF Covered
<1>0. Cardinality(L) \in Nat
  BY FS_CardinalityType
<1>1. /\ IsFiniteSet(L \cup {n})
      /\ Cardinality(L \cup {n}) = IF n \in L THEN Cardinality(L) ELSE Cardinality(L) + 1
  BY FS_AddElement
<1>2. Cardinality(L \cup {n}) <= leaks'
  BY <1>0, <1>1 DEF FileTypes
<1>3. OpenHandles' \subseteq (L \cup {n}) \cup ManagerHas' \cup EncoderHas' \cup LoggerHas'
  OBVIOUS
<1>. QED
  BY <1>1, <1>2, <1>3 DEF Covered

-----------------------------------------------------------------------------
(* The steps. *)

\* At first nothing is open.
LEMMA InitFilesInv == Init => FilesInv
<1>. SUFFICES ASSUME Init
             PROVE  FilesInv
  OBVIOUS
<1>0. Closed \in HandleStates /\ Closed.mode # "rw"
  BY DEF Closed, HandleStates
<1>1. FileTypes
  BY <1>0 DEF Init, FileTypes
<1>2. Covered
  <2>1. OpenHandles = {}
    BY DEF Init, OpenHandles
  <2>. QED
    BY <2>1, FS_EmptySet DEF Covered, Init
<1>3. BatchOrder /\ OneWriter
  BY <1>0 DEF Init, BatchOrder, OneWriter
<1>. QED
  BY <1>1, <1>2, <1>3 DEF FilesInv

\* Other tasks touch neither handles nor batches.
LEMMA OutsideStep ==
  ASSUME FilesInv, Add \/ Request \/ LogEvent
  PROVE  FilesInv'
<1>1. /\ UNCHANGED <<handle, telemetryBatchId, telemetryFileId, encBatch, encodeQueue, leaks>>
      /\ UNCHANGED <<mgr, enc, fd, log, logFd>>
  BY DEF Add, Request, LogEvent, mgrVars, encVars, logVars, fsVars, historyVars, notLog
<1>. QED
  BY <1>1 DEF FilesInv, FileTypes, Covered, OpenHandles, ManagerHas, EncoderHas, LoggerHas,
              BatchOrder, OneWriter

\* What the manager's steps leave alone.
LEMMA ManagerFrame ==
  ASSUME UNCHANGED others
  PROVE  UNCHANGED <<encodeQueue, enc, fd, encBatch, log, logFd>>
BY DEF others, encVars, logVars

\* The manager opens the file of the next batch.
LEMMA ManagerOpens ==
  ASSUME FilesInv, CreateFile \/ OpenFile
  PROVE  FilesInv'
<1>0. /\ UNCHANGED <<encodeQueue, enc, fd, encBatch, log, logFd>>
      /\ telemetryBatchId' = telemetryBatchId /\ leaks' = leaks
      /\ mgr \in {"create", "open"}
  BY ManagerFrame DEF CreateFile, OpenFile
<1>1. FileTypes /\ telemetryBatchId \in Int /\ ManagerHas = {}
  BY <1>0 DEF FilesInv, FileTypes, ManagerHas
<1>2. \A h \in Handles : handle[h].mode # "rw"
  BY <1>0 DEF FilesInv, OneWriter
<1>3. BatchOrder'
  BY <1>0 DEF FilesInv, BatchOrder
<1>4. CASE OpenFails
  <2>1. handle' = handle
    BY <1>4 DEF OpenFails
  <2>2. FileTypes'
    BY <1>0, <2>1 DEF FilesInv, FileTypes
  <2>3. Covered'
    BY <1>0, <1>1, <2>1, CoveredStep DEF FilesInv, OpenHandles, EncoderHas, LoggerHas
  <2>4. OneWriter'
    BY <1>2, <2>1 DEF OneWriter
  <2>. QED
    BY <1>3, <2>2, <2>3, <2>4 DEF FilesInv
<1>5. ASSUME NEW m \in {"r", "rw"}, OpenSucceeds(telemetryBatchId, m),
             telemetryFileId' = NextHandle,
             m = "r" => mgr' = "closeNew", m = "rw" => mgr' = "receive"
      PROVE  FilesInv'
  <2>1. /\ handle' \in [Handles -> HandleStates]
        /\ OpenHandles' \subseteq OpenHandles \cup {NextHandle}
        /\ \A h \in Handles : handle'[h].mode = "rw" =>
             \/ h # NextHandle /\ handle'[h] = handle[h]
             \/ h = NextHandle /\ m = "rw" /\ handle'[h].of = telemetryBatchId
    BY <1>1, <1>5, Opens
  <2>2. FileTypes'
    BY <1>0, <2>1 DEF FilesInv, FileTypes
  <2>3. ManagerHas' = {NextHandle}
    BY <1>5 DEF ManagerHas
  <2>4. Covered'
    BY <1>0, <1>1, <2>1, <2>3, CoveredStep DEF FilesInv, EncoderHas, LoggerHas
  <2>5. OneWriter'
    BY <1>0, <1>2, <1>5, <2>1 DEF OneWriter
  <2>. QED
    BY <1>3, <2>2, <2>4, <2>5 DEF FilesInv
<1>6. CASE CreateFile
  BY <1>4, <1>5, <1>6 DEF CreateFile
<1>7. CASE OpenFile
  BY <1>4, <1>5, <1>7 DEF OpenFile
<1>. QED
  BY <1>6, <1>7

\* The manager closes what it takes for its own.
LEMMA ManagerCloses ==
  ASSUME FilesInv, CloseNewFile \/ CloseFile
  PROVE  FilesInv'
<1>0. /\ UNCHANGED <<encodeQueue, enc, fd, encBatch, log, logFd>>
      /\ telemetryBatchId' = telemetryBatchId /\ leaks' = leaks
      /\ telemetryFileId' = telemetryFileId
      /\ mgr \in {"closeNew", "close"} /\ mgr' \in {"open", "send"}
      /\ CloseHandle(telemetryFileId)
  BY ManagerFrame DEF CloseNewFile, CloseFile, historyVars
<1>1. /\ handle' \in [Handles -> HandleStates]
      /\ OpenHandles' \subseteq OpenHandles \ {telemetryFileId}
      /\ \A h \in Handles : handle'[h].mode = "rw" => h # telemetryFileId /\ handle'[h] = handle[h]
  BY <1>0, Closes DEF FilesInv
<1>2. FileTypes'
  BY <1>0, <1>1 DEF FilesInv, FileTypes
<1>3. ManagerHas = {telemetryFileId}
  BY <1>0 DEF ManagerHas
<1>4. Covered'
  BY <1>0, <1>1, <1>3, CoveredStep DEF FilesInv, EncoderHas, LoggerHas
<1>5. BatchOrder' /\ OneWriter'
  BY <1>0, <1>1 DEF FilesInv, BatchOrder, OneWriter
<1>. QED
  BY <1>2, <1>4, <1>5 DEF FilesInv

\* The manager takes data, writes them and looks at the requests.
LEMMA ManagerWrites ==
  ASSUME FilesInv, Receive \/ Write \/ Check
  PROVE  FilesInv'
<1>0. /\ UNCHANGED <<encodeQueue, enc, fd, encBatch, log, logFd>>
      /\ UNCHANGED <<telemetryBatchId, telemetryFileId, handle, leaks>>
      /\ mgr \in {"receive", "write", "check"}
      /\ mgr' \in {"receive", "write", "check", "close"}
  BY ManagerFrame DEF Receive, Write, Check, historyVars, fsVars
<1>1. ManagerHas' = ManagerHas
  BY <1>0 DEF ManagerHas
<1>2. FileTypes' /\ BatchOrder' /\ OneWriter'
  BY <1>0 DEF FilesInv, FileTypes, BatchOrder, OneWriter
<1>3. Covered'
  BY <1>0, <1>1, CoveredStep DEF FilesInv, OpenHandles, EncoderHas, LoggerHas
<1>. QED
  BY <1>2, <1>3 DEF FilesInv

\* A batch goes to the encoder and the next one begins.
LEMMA ManagerSends ==
  ASSUME FilesInv, Send
  PROVE  FilesInv'
<1>0. /\ UNCHANGED <<enc, fd, encBatch, log, logFd, telemetryFileId, handle, leaks>>
      /\ mgr = "send" /\ mgr' = "create"
      /\ encodeQueue' = Append(encodeQueue, telemetryBatchId)
      /\ telemetryBatchId' = telemetryBatchId + 1
  BY DEF Send, encVars, logVars, fsVars, historyVars
<1>1. FileTypes'
  BY <1>0 DEF FilesInv, FileTypes
<1>2. BatchOrder'
  BY <1>0 DEF FilesInv, FileTypes, BatchOrder
<1>3. OneWriter'
  BY <1>0 DEF FilesInv, OneWriter
<1>4. ManagerHas = {} /\ ManagerHas' = {}
  BY <1>0 DEF ManagerHas
<1>5. Covered'
  BY <1>0, <1>4, CoveredStep DEF FilesInv, OpenHandles, EncoderHas, LoggerHas
<1>. QED
  BY <1>1, <1>2, <1>3, <1>5 DEF FilesInv

\* What the encoder's steps leave alone.
LEMMA EncoderFrame ==
  ASSUME UNCHANGED notEnc
  PROVE  UNCHANGED <<mgr, telemetryFileId, telemetryBatchId, log, logFd>>
BY DEF notEnc, mgrVars, logVars

\* The encoder takes a batch and opens it.
LEMMA EncoderOpens ==
  ASSUME FilesInv, ReceiveBatch \/ OpenBatch
  PROVE  FilesInv'
<1>0. UNCHANGED <<mgr, telemetryFileId, telemetryBatchId, log, logFd, leaks>>
  BY EncoderFrame DEF ReceiveBatch, OpenBatch
<1>1. CASE ReceiveBatch
  <2>1. /\ handle' = handle /\ fd' = fd /\ encodeQueue # <<>>
        /\ encodeQueue' = Tail(encodeQueue) /\ encBatch' = Head(encodeQueue)
        /\ EncoderHas = {} /\ EncoderHas' = {}
    BY <1>1 DEF ReceiveBatch, EncoderHas
  <2>2. FileTypes'
    BY <1>0, <2>1 DEF FilesInv, FileTypes
  <2>3. BatchOrder'
    BY <1>0, <2>1 DEF FilesInv, FileTypes, BatchOrder
  <2>4. OneWriter'
    BY <1>0, <2>1 DEF FilesInv, OneWriter
  <2>5. Covered'
    BY <1>0, <2>1, CoveredStep DEF FilesInv, OpenHandles, ManagerHas, LoggerHas
  <2>. QED
    BY <2>2, <2>3, <2>4, <2>5 DEF FilesInv
<1>2. CASE OpenBatch
  <2>0. /\ encBatch' = encBatch /\ encodeQueue' = encodeQueue /\ enc = "open"
        /\ encBatch \in Int /\ FileTypes /\ EncoderHas = {}
    BY <1>2 DEF OpenBatch, FilesInv, FileTypes, EncoderHas
  <2>1. BatchOrder'
    BY <1>0, <2>0 DEF FilesInv, BatchOrder
  <2>2. CASE OpenSucceeds(encBatch, "r") /\ fd' = NextHandle /\ enc' = "read"
    <3>1. /\ handle' \in [Handles -> HandleStates]
          /\ OpenHandles' \subseteq OpenHandles \cup {NextHandle}
          /\ \A h \in Handles : handle'[h].mode = "rw" => handle'[h] = handle[h]
      BY <2>0, <2>2, Opens
    <3>2. FileTypes' /\ OneWriter'
      BY <1>0, <2>0, <3>1 DEF FilesInv, FileTypes, OneWriter
    <3>3. EncoderHas' = {NextHandle}
      BY <2>2 DEF EncoderHas
    <3>4. Covered'
      BY <1>0, <2>0, <3>1, <3>3, CoveredStep DEF FilesInv, ManagerHas, LoggerHas
    <3>. QED
      BY <2>1, <3>2, <3>4 DEF FilesInv
  <2>3. CASE OpenFails /\ enc' = "end"
    <3>1. handle' = handle /\ EncoderHas' = {}
      BY <2>3 DEF OpenFails, EncoderHas
    <3>2. FileTypes' /\ OneWriter'
      BY <1>0, <2>0, <3>1 DEF FilesInv, FileTypes, OneWriter
    <3>3. Covered'
      BY <1>0, <2>0, <3>1, CoveredStep DEF FilesInv, OpenHandles, ManagerHas, LoggerHas
    <3>. QED
      BY <2>1, <3>2, <3>3 DEF FilesInv
  <2>. QED
    BY <1>2, <2>2, <2>3 DEF OpenBatch
<1>. QED
  BY <1>1, <1>2

\* The encoder reads on in an open file.
LEMMA EncoderReads ==
  ASSUME FilesInv, ReadDatum
  PROVE  FilesInv'
<1>0. /\ UNCHANGED <<mgr, telemetryFileId, telemetryBatchId, log, logFd, leaks>>
      /\ UNCHANGED <<enc, fd, encBatch, encodeQueue>>
      /\ handle' = [handle EXCEPT ![fd].pos = @ + 1]
      /\ fd \in Handles /\ handle[fd] # Closed /\ handle \in [Handles -> HandleStates]
  BY EncoderFrame DEF ReadDatum, IsOpen, FilesInv, FileTypes
<1>1. \A h \in Handles : /\ handle'[h].mode = handle[h].mode /\ handle'[h].of = handle[h].of
                         /\ h # fd => handle'[h] = handle[h]
  BY <1>0 DEF HandleStates
<1>2. handle' \in [Handles -> HandleStates]
  BY <1>0 DEF HandleStates
<1>3. OpenHandles' \subseteq OpenHandles
  BY <1>0, <1>1 DEF OpenHandles
<1>4. FileTypes' /\ BatchOrder' /\ OneWriter'
  BY <1>0, <1>1, <1>2 DEF FilesInv, FileTypes, BatchOrder, OneWriter
<1>5. Covered'
  BY <1>0, <1>3, CoveredStep DEF FilesInv, ManagerHas, EncoderHas, LoggerHas
<1>. QED
  BY <1>4, <1>5 DEF FilesInv

\* The encoder closes what it takes for its own.
LEMMA EncoderCloses ==
  ASSUME FilesInv, ReadFails \/ CloseBatch
  PROVE  FilesInv'
<1>0. /\ UNCHANGED <<mgr, telemetryFileId, telemetryBatchId, log, logFd, leaks>>
      /\ UNCHANGED <<encBatch, encodeQueue>>
      /\ enc \in {"read", "close"} /\ enc' = "end" /\ CloseHandle(fd)
  BY EncoderFrame DEF ReadFails, CloseBatch
<1>1. /\ handle' \in [Handles -> HandleStates]
      /\ OpenHandles' \subseteq OpenHandles \ {fd}
      /\ \A h \in Handles : handle'[h].mode = "rw" => handle'[h] = handle[h]
  BY <1>0, Closes DEF FilesInv
<1>2. FileTypes' /\ BatchOrder' /\ OneWriter'
  BY <1>0, <1>1 DEF FilesInv, FileTypes, BatchOrder, OneWriter
<1>3. EncoderHas = {fd} /\ EncoderHas' = {}
  BY <1>0 DEF EncoderHas
<1>4. Covered'
  BY <1>0, <1>1, <1>3, CoveredStep DEF FilesInv, ManagerHas, LoggerHas
<1>. QED
  BY <1>2, <1>4 DEF FilesInv

\* The encoder comes to the end of a file, where it may forget it, and of a downlink.
LEMMA EncoderEnds ==
  ASSUME FilesInv, EndOfFile \/ EndDownlink
  PROVE  FilesInv'
<1>0. /\ UNCHANGED <<mgr, telemetryFileId, telemetryBatchId, log, logFd>>
      /\ UNCHANGED <<fd, encBatch, encodeQueue, handle>>
      /\ enc \in {"read", "end"} /\ enc' \in {"close", "end", "idle"}
      /\ \/ leaks' = leaks /\ EncoderHas' = EncoderHas
         \/ leaks' = leaks + 1 /\ EncoderHas = {fd}
  BY EncoderFrame DEF EndOfFile, EndDownlink, EncoderHas
<1>1. FileTypes' /\ BatchOrder' /\ OneWriter'
  BY <1>0 DEF FilesInv, FileTypes, BatchOrder, OneWriter
<1>2. OpenHandles' = OpenHandles /\ ManagerHas' = ManagerHas /\ LoggerHas' = LoggerHas
  BY <1>0 DEF OpenHandles, ManagerHas, LoggerHas
<1>3. Covered'
  <2>1. CASE leaks' = leaks /\ EncoderHas' = EncoderHas
    BY <1>2, <2>1, CoveredStep DEF FilesInv
  <2>2. CASE leaks' = leaks + 1 /\ EncoderHas = {fd}
    BY <1>2, <2>2, LeakStep DEF FilesInv
  <2>. QED
    BY <1>0, <2>1, <2>2
<1>. QED
  BY <1>1, <1>3 DEF FilesInv

\* The logger opens, writes, forgets or closes its file.
LEMMA LoggerStep ==
  ASSUME FilesInv, Logger
  PROVE  FilesInv'
<1>0. /\ UNCHANGED <<mgr, telemetryFileId, telemetryBatchId, enc, fd, encBatch, encodeQueue>>
      /\ ManagerHas' = ManagerHas /\ EncoderHas' = EncoderHas
  BY DEF Logger, OpenLog, WriteLog, CloseLog, notLog, mgrVars, encVars, ManagerHas, EncoderHas
<1>1. BatchOrder'
  BY <1>0 DEF FilesInv, BatchOrder
<1>2. CASE OpenLog
  <2>1. log = "idle" /\ leaks' = leaks /\ LoggerHas = {} /\ FileTypes
    BY <1>2 DEF OpenLog, LoggerHas, FilesInv
  <2>2. CASE OpenSucceeds(LogFile, "w") /\ logFd' = NextHandle /\ log' = "write"
    <3>0. LogFile \in Int
      BY DEF LogFile
    <3>1. /\ handle' \in [Handles -> HandleStates]
          /\ OpenHandles' \subseteq OpenHandles \cup {NextHandle}
          /\ \A h \in Handles : handle'[h].mode = "rw" => handle'[h] = handle[h]
      BY <2>1, <2>2, <3>0, Opens
    <3>2. FileTypes' /\ OneWriter'
      BY <1>0, <2>1, <3>1 DEF FilesInv, FileTypes, OneWriter
    <3>3. LoggerHas' = {NextHandle}
      BY <2>2 DEF LoggerHas
    <3>4. Covered'
      BY <1>0, <2>1, <3>1, <3>3, CoveredStep DEF FilesInv
    <3>. QED
      BY <1>1, <3>2, <3>4 DEF FilesInv
  <2>3. CASE OpenFails /\ UNCHANGED <<logFd, log>>
    <3>1. handle' = handle /\ LoggerHas' = {} /\ OpenHandles' = OpenHandles
      BY <2>1, <2>3 DEF OpenFails, LoggerHas, OpenHandles
    <3>2. FileTypes' /\ OneWriter'
      BY <1>0, <2>1, <3>1 DEF FilesInv, FileTypes, OneWriter
    <3>3. Covered'
      BY <1>0, <2>1, <3>1, CoveredStep DEF FilesInv
    <3>. QED
      BY <1>1, <3>2, <3>3 DEF FilesInv
  <2>. QED
    BY <1>2, <2>2, <2>3 DEF OpenLog
<1>3. CASE WriteLog
  <2>1. /\ UNCHANGED <<handle, logFd>> /\ OpenHandles' = OpenHandles
        /\ \/ leaks' = leaks /\ LoggerHas' = LoggerHas
           \/ leaks' = leaks + 1 /\ LoggerHas = {logFd}
    BY <1>3 DEF WriteLog, LoggerHas, OpenHandles
  <2>2. FileTypes' /\ OneWriter'
    BY <1>0, <2>1 DEF FilesInv, FileTypes, OneWriter
  <2>3. Covered'
    <3>1. CASE leaks' = leaks /\ LoggerHas' = LoggerHas
      BY <1>0, <2>1, <3>1, CoveredStep DEF FilesInv
    <3>2. CASE leaks' = leaks + 1 /\ LoggerHas = {logFd}
      BY <1>0, <2>1, <3>2, LeakStep DEF FilesInv
    <3>. QED
      BY <2>1, <3>1, <3>2
  <2>. QED
    BY <1>1, <2>2, <2>3 DEF FilesInv
<1>4. CASE CloseLog
  <2>1. leaks' = leaks /\ LoggerHas = {logFd} /\ LoggerHas' = {} /\ CloseHandle(logFd)
    BY <1>4 DEF CloseLog, LoggerHas
  <2>2. /\ handle' \in [Handles -> HandleStates]
        /\ OpenHandles' \subseteq OpenHandles \ {logFd}
        /\ \A h \in Handles : handle'[h].mode = "rw" => handle'[h] = handle[h]
    BY <2>1, Closes DEF FilesInv
  <2>3. FileTypes' /\ OneWriter'
    BY <1>0, <2>1, <2>2 DEF FilesInv, FileTypes, OneWriter
  <2>4. Covered'
    BY <1>0, <2>1, <2>2, CoveredStep DEF FilesInv
  <2>. QED
    BY <1>1, <2>3, <2>4 DEF FilesInv
<1>. QED
  BY <1>2, <1>3, <1>4 DEF Logger

\* A step on the way to the ground touches nothing of all this.
LEMMA StillStep == FilesInv /\ Still => FilesInv'
BY DEF Still, FilesInv, FileTypes, Covered, OpenHandles, ManagerHas, EncoderHas, LoggerHas,
       BatchOrder, OneWriter

\* All of it holds in every state.
LEMMA Invariance == Spec => []FilesInv
<1>1. FilesInv /\ [Next]_vars => FilesInv'
  BY OutsideStep, ManagerOpens, ManagerCloses, ManagerWrites, ManagerSends, EncoderOpens,
     EncoderReads, EncoderCloses, EncoderEnds, LoggerStep, StillStep, Steps DEF Manager, Packing
<1>. QED
  BY <1>1, InitFilesInv, PTL DEF Spec

-----------------------------------------------------------------------------
(* The theorems. *)

\* No handle is open for writing to a batch that the encoder has, however the tasks
\* interleave, whatever fails, and also when the manager goes on with the number of a
\* handle that is no longer its own.
THEOREM ReadsClosedFileCorrect == Spec => []ReadsClosedFile
<1>1. FilesInv => ReadsClosedFile
  BY DEF FilesInv, FileTypes, BatchOrder, OneWriter, ReadsClosedFile
<1>. QED
  BY <1>1, Invariance, PTL

\* The number of handles that are not free.
LEMMA InUse == HandleCount - Cardinality(Free) = Cardinality(OpenHandles)
<1>1. HandleCount \in Nat
  BY FilesAssumption
<1>2. IsFiniteSet(Handles) /\ Cardinality(Handles) = HandleCount
  BY <1>1, FS_Interval DEF Handles
<1>3. /\ Free \cup OpenHandles = Handles /\ Free \cap OpenHandles = {}
      /\ Free \in SUBSET Handles /\ OpenHandles \in SUBSET Handles
  BY DEF Free, OpenHandles
<1>4. IsFiniteSet(Free) /\ IsFiniteSet(OpenHandles)
  BY <1>2, <1>3, FS_Subset
<1>5. Cardinality(Handles) =
        Cardinality(Free) + Cardinality(OpenHandles) - Cardinality(Free \cap OpenHandles)
  BY <1>3, <1>4, FS_Union
<1>6. Cardinality(Free \cap OpenHandles) = 0
  BY <1>3, FS_EmptySet
<1>7. Cardinality(Free) \in Nat /\ Cardinality(OpenHandles) \in Nat
  BY <1>4, FS_CardinalityType
<1>. QED
  BY <1>1, <1>2, <1>5, <1>6, <1>7

\* A set and one that has at most one element.
LEMMA UnionWithOne ==
  ASSUME NEW S, IsFiniteSet(S), NEW x, NEW T, T = {} \/ T = {x}
  PROVE  /\ IsFiniteSet(S \cup T) /\ Cardinality(S) \in Nat /\ Cardinality(S \cup T) \in Nat
         /\ Cardinality(S \cup T) <= Cardinality(S) + One(T # {})
<1>1. Cardinality(S) \in Nat
  BY FS_CardinalityType
<1>2. CASE T = {x}
  <2>1. /\ IsFiniteSet(S \cup {x})
        /\ Cardinality(S \cup {x}) = IF x \in S THEN Cardinality(S) ELSE Cardinality(S) + 1
    BY FS_AddElement
  <2>2. One({x} # {}) = 1
    BY DEF One
  <2>3. /\ Cardinality(S \cup {x}) \in Nat
        /\ Cardinality(S \cup {x}) <= Cardinality(S) + 1
    <3>1. CASE x \in S
      BY <1>1, <2>1, <3>1
    <3>2. CASE x \notin S
      BY <1>1, <2>1, <3>2
    <3>. QED
      BY <3>1, <3>2
  <2>4. Cardinality(S \cup {x}) <= Cardinality(S) + One({x} # {})
    BY <2>2, <2>3
  <2>. QED
    BY <1>1, <1>2, <2>1, <2>3, <2>4, Zenon
<1>3. CASE T = {}
  <2>1. S \cup T = S
    BY <1>3
  <2>2. Cardinality(S) <= Cardinality(S) + One(T # {})
    BY <1>1 DEF One
  <2>. QED
    BY <1>1, <2>1, <2>2, Zenon
<1>. QED
  BY <1>2, <1>3

\* For any number of handles and failures: handles are lost only in the encoder's return
\* from a file whose last packet is empty and in the logger's failing write.
THEOREM HandlesAccountedCorrect == Spec => []HandlesAccounted
<1>1. FilesInv => HandlesAccounted
  <2>. SUFFICES ASSUME FilesInv
                PROVE  HandlesAccounted
    OBVIOUS
  <2>. PICK L : /\ IsFiniteSet(L) /\ Cardinality(L) <= leaks
                /\ OpenHandles \subseteq L \cup ManagerHas \cup EncoderHas \cup LoggerHas
    BY DEF FilesInv, Covered
  <2> DEFINE M  == L \cup ManagerHas
             ME == M \cup EncoderHas
             A  == ME \cup LoggerHas
  <2>1. ManagerHas = {} \/ ManagerHas = {telemetryFileId}
    BY DEF ManagerHas
  <2>2. /\ IsFiniteSet(M) /\ Cardinality(L) \in Nat /\ Cardinality(M) \in Nat
        /\ Cardinality(M) <= Cardinality(L) + One(ManagerHas # {})
    BY <2>1, UnionWithOne
  <2>3. EncoderHas = {} \/ EncoderHas = {fd}
    BY DEF EncoderHas
  <2>. HIDE DEF M
  <2>4. /\ IsFiniteSet(ME) /\ Cardinality(ME) \in Nat
        /\ Cardinality(ME) <= Cardinality(M) + One(EncoderHas # {})
    BY <2>2, <2>3, UnionWithOne
  <2>5. LoggerHas = {} \/ LoggerHas = {logFd}
    BY DEF LoggerHas
  <2>. HIDE DEF ME
  <2>6. /\ IsFiniteSet(A) /\ Cardinality(A) \in Nat
        /\ Cardinality(A) <= Cardinality(ME) + One(LoggerHas # {})
    BY <2>4, <2>5, UnionWithOne
  <2>7. OpenHandles \subseteq A
    BY DEF M, ME
  <2>. HIDE DEF A
  <2>8. Cardinality(OpenHandles) \in Nat /\ Cardinality(OpenHandles) <= Cardinality(A)
    BY <2>6, <2>7, FS_Subset, FS_CardinalityType
  <2>9. leaks \in Nat
    BY DEF FilesInv, FileTypes
  <2>10. /\ One(ManagerHas # {}) = One(mgr \in {"closeNew", "receive", "write", "check", "close"})
         /\ One(EncoderHas # {}) = One(enc \in {"read", "close"})
         /\ One(LoggerHas # {}) = One(log \in {"write", "close"})
         /\ One(ManagerHas # {}) \in Nat /\ One(EncoderHas # {}) \in Nat
         /\ One(LoggerHas # {}) \in Nat
    BY DEF One, ManagerHas, EncoderHas, LoggerHas
  <2>11. Cardinality(OpenHandles) <=
           One(ManagerHas # {}) + One(EncoderHas # {}) + One(LoggerHas # {}) + leaks
    BY <2>2, <2>4, <2>6, <2>8, <2>9, <2>10
  <2>. QED
    BY <2>10, <2>11, InUse DEF HandlesAccounted
<1>. QED
  BY <1>1, Invariance, PTL

-----------------------------------------------------------------------------
(* Induction. *)

\* Induction over the naturals, for a set instead of a predicate: the intervals
\* 1 .. n are finite sets, and those are well-founded by inclusion.
LEMMA NatInductionSet ==
  ASSUME NEW T, 0 \in T, \A n \in Nat : n \in T => n + 1 \in T
  PROVE  \A n \in Nat : n \in T
<1> SUFFICES ASSUME NEW w \in Nat, w \notin T
             PROVE  FALSE
  OBVIOUS
<1> DEFINE R == StrictSubsetOrdering(Nat)
           F == FiniteSubsetsOf(Nat)
           B == {U \in F : \E n \in Nat : U = 1 .. n /\ n \notin T}
<1>1. IsWellFoundedOn(R, F)
  BY FS_StrictSubsetOrderingWellFounded
<1>2. \A n \in Nat : 1 .. n \in F
  BY FS_Interval DEF FiniteSubsetsOf
<1>3. B \subseteq F /\ B # {}
  BY <1>2
<1>4. PICK U \in B : \A V \in B : <<V, U>> \notin R
  <2> HIDE DEF R, F, B
  <2> QED
    BY <1>1, <1>3, WFMin
<1>5. PICK m \in Nat : U = 1 .. m /\ m \notin T
  OBVIOUS
<1>6. m # 0 /\ m - 1 \in Nat /\ (m - 1) + 1 = m
  BY <1>5
<1>7. m - 1 \notin T
  BY <1>5, <1>6
<1>8. 1 .. (m - 1) \in B
  BY <1>2, <1>6, <1>7
<1>9. <<1 .. (m - 1), U>> \in R
  <2>1. 1 .. (m - 1) \subseteq 1 .. m /\ m \in 1 .. m /\ m \notin 1 .. (m - 1)
    BY <1>6
  <2>2. 1 .. (m - 1) \in SUBSET Nat /\ 1 .. m \in SUBSET Nat
    BY <1>6
  <2>3. QED
    BY <1>5, <2>1, <2>2 DEF StrictSubsetOrdering
<1>10. QED
  BY <1>4, <1>8, <1>9

-----------------------------------------------------------------------------
(* Concatenating a sequence of sequences. *)

\* What FlattenSeq computes: the parts, joined from the front.
Joins(s, n, g) == \A i \in 1 .. n : g[i] = IF i = 1 THEN s[i] ELSE g[i - 1] \o s[i]

\* Every sequence of sequences has its table of partial joins.
LEMMA JoinsExist ==
  ASSUME NEW X, NEW s \in Seq(Seq(X)), s # <<>>
  PROVE  \E g \in [1 .. Len(s) -> Seq(X)] : Joins(s, Len(s), g)
<1> DEFINE N == Len(s)
           T == {n \in Nat : n <= N => \E g \in [1 .. N -> Seq(X)] : Joins(s, n, g)}
<1>1. N \in Nat \ {0} /\ \A i \in 1 .. N : s[i] \in Seq(X)
  BY EmptySeq, ElementOfSeq
<1>2. 0 \in T
  <2>1. [i \in 1 .. N |-> s[i]] \in [1 .. N -> Seq(X)]
    BY <1>1
  <2>2. Joins(s, 0, [i \in 1 .. N |-> s[i]])
    BY DEF Joins
  <2>3. QED
    BY <2>1, <2>2
<1>3. ASSUME NEW n \in Nat, n \in T
      PROVE  n + 1 \in T
  <2>1. SUFFICES ASSUME n + 1 <= N
                 PROVE  \E g \in [1 .. N -> Seq(X)] : Joins(s, n + 1, g)
    BY <1>3
  <2>2. PICK g \in [1 .. N -> Seq(X)] : Joins(s, n, g)
    BY <1>1, <1>3, <2>1
  <2> DEFINE v == IF n = 0 THEN s[1] ELSE g[n] \o s[n + 1]
             h == [g EXCEPT ![n + 1] = v]
  <2>3. v \in Seq(X)
    <3>1. CASE n = 0
      BY <1>1, <3>1
    <3>2. CASE n # 0
      <4>1. n \in 1 .. N /\ n + 1 \in 1 .. N
        BY <1>1, <2>1, <3>2
      <4>2. g[n] \in Seq(X) /\ s[n + 1] \in Seq(X)
        <5> HIDE DEF N
        <5>1. QED
          BY <1>1, <4>1
      <4>3. QED
        BY <3>2, <4>2, ConcatProperties
    <3>3. QED
      BY <3>1, <3>2
  <2>4. h \in [1 .. N -> Seq(X)]
    <3> HIDE DEF v, N
    <3>1. QED
      BY <2>3
  <2>5. \A i \in 1 .. N : h[i] = IF i = n + 1 THEN v ELSE g[i]
    OBVIOUS
  <2>6. ASSUME NEW i \in 1 .. n + 1
        PROVE  h[i] = IF i = 1 THEN s[i] ELSE h[i - 1] \o s[i]
    <3>1. CASE i = n + 1
      <4>1. h[i] = v
        BY <1>1, <2>1, <2>5, <3>1
      <4>2. CASE n = 0
        BY <3>1, <4>1, <4>2
      <4>3. CASE n # 0
        <5>1. i - 1 = n /\ i # 1 /\ n \in 1 .. N /\ n # n + 1
          BY <2>1, <3>1, <4>3
        <5>2. h[i - 1] = g[n]
          BY <2>5, <5>1
        <5>3. v = g[n] \o s[i]
          BY <3>1, <4>3
        <5> HIDE DEF v, h
        <5>4. QED
          BY <4>1, <5>1, <5>2, <5>3
      <4>4. QED
        BY <4>2, <4>3
    <3>2. CASE i # n + 1
      <4>1. i \in 1 .. n /\ i \in 1 .. N
        BY <2>1, <3>2
      <4>2. h[i] = g[i]
        BY <2>5, <3>2, <4>1
      <4>3. i # 1 => h[i - 1] = g[i - 1]
        <5>1. i # 1 => i - 1 \in 1 .. N /\ i - 1 # n + 1
          BY <4>1
        <5>2. QED
          BY <2>5, <5>1
      <4>4. g[i] = IF i = 1 THEN s[i] ELSE g[i - 1] \o s[i]
        BY <2>2, <4>1 DEF Joins
      <4> HIDE DEF h
      <4>5. QED
        BY <4>2, <4>3, <4>4
    <3>3. QED
      BY <3>1, <3>2
  <2> HIDE DEF h
  <2>7. QED
    BY <2>4, <2>6 DEF Joins
<1> HIDE DEF T
<1>4. \A n \in Nat : n \in T
  BY <1>2, <1>3, NatInductionSet
<1>5. N \in T
  BY <1>1, <1>4
<1>6. QED
  BY <1>1, <1>5 DEF T

\* FlattenSeq is the last of them.
LEMMA FlattenJoins ==
  ASSUME NEW X, NEW s \in Seq(Seq(X)), s # <<>>
  PROVE  \E g \in [1 .. Len(s) -> Seq(X)] :
           Joins(s, Len(s), g) /\ FlattenSeq(s) = g[Len(s)]
<1> DEFINE P(f) == f = [i \in 1 .. Len(s) |-> IF i = 1 THEN s[i] ELSE f[i - 1] \o s[i]]
           g == CHOOSE f : P(f)
<1>1. \E f : P(f)
  <2>1. PICK f \in [1 .. Len(s) -> Seq(X)] : Joins(s, Len(s), f)
    BY JoinsExist
  <2>2. f = [i \in 1 .. Len(s) |-> f[i]]
    OBVIOUS
  <2>3. P(f)
    BY <2>1, <2>2 DEF Joins
  <2>4. QED
    BY <2>3
<1>2. P(g)
  BY <1>1, Zenon
<1>3. Joins(s, Len(s), g) /\ DOMAIN g = 1 .. Len(s)
  BY <1>2 DEF Joins
<1>4. Len(s) # 0
  BY EmptySeq
<1>5. FlattenSeq(s) = g[Len(s)]
  BY <1>4, Zenon DEF FlattenSeq
<1> HIDE DEF g
<1>6. g \in [1 .. Len(s) -> Seq(X)]
  <2> DEFINE T == {n \in Nat : n \in 1 .. Len(s) => g[n] \in Seq(X)}
  <2>1. 0 \in T
    OBVIOUS
  <2>2. ASSUME NEW n \in Nat, n \in T
        PROVE  n + 1 \in T
    <3>1. SUFFICES ASSUME n + 1 \in 1 .. Len(s)
                   PROVE  g[n + 1] \in Seq(X)
      OBVIOUS
    <3>2. s[n + 1] \in Seq(X)
      BY <3>1, ElementOfSeq
    <3>3. CASE n = 0
      <4>1. n + 1 = 1 /\ 1 \in 1 .. Len(s)
        BY <3>1, <3>3
      <4>2. g[1] = s[1]
        BY <1>3, <4>1 DEF Joins
      <4>3. QED
        BY <3>2, <4>1, <4>2
    <3>4. CASE n # 0
      <4>1. n \in 1 .. Len(s) /\ n + 1 # 1 /\ (n + 1) - 1 = n
        BY <3>1, <3>4, EmptySeq
      <4>2. g[n] \in Seq(X)
        BY <2>2, <4>1
      <4>3. g[n + 1] = g[n] \o s[n + 1]
        BY <1>3, <3>1, <4>1 DEF Joins
      <4>4. QED
        BY <3>2, <4>2, <4>3, ConcatProperties
    <3>5. QED
      BY <3>3, <3>4
  <2> HIDE DEF T
  <2>3. \A n \in Nat : n \in T
    BY <2>1, <2>2, NatInductionSet
  <2>4. \A n \in 1 .. Len(s) : g[n] \in Seq(X)
    BY <2>3 DEF T
  <2>5. g = [i \in 1 .. Len(s) |-> g[i]]
    BY <1>2
  <2>6. QED
    BY <2>4, <2>5
<1>7. QED
  BY <1>3, <1>5, <1>6

\* The empty sequence has no elements,
LEMMA LenEmpty == Len(<<>>) = 0
OBVIOUS

\* and nothing joined is empty.
LEMMA FlattenEmpty == FlattenSeq(<<>>) = <<>>
BY Zenon, EmptySeq DEF FlattenSeq

\* Sequences over a set join to one over it.
LEMMA FlattenType ==
  ASSUME NEW X, NEW s \in Seq(Seq(X))
  PROVE  FlattenSeq(s) \in Seq(X)
<1>1. CASE s = <<>>
  BY <1>1, FlattenEmpty, EmptySeq
<1>2. CASE s # <<>>
  <2> DEFINE S == Seq(X)
             n == Len(s)
  <2>1. n \in 1 .. n
    BY <1>2, EmptySeq
  <2>2. PICK g \in [1 .. n -> S] : FlattenSeq(s) = g[n]
    BY <1>2, FlattenJoins
  <2> HIDE DEF S, n
  <2>3. g[n] \in S
    BY <2>1, <2>2
  <2>4. QED
    BY <2>2, <2>3 DEF S
<1>3. QED
  BY <1>1, <1>2

\* One more part is joined behind.
LEMMA FlattenAppend ==
  ASSUME NEW X, NEW s \in Seq(Seq(X)), NEW x \in Seq(X)
  PROVE  FlattenSeq(Append(s, x)) = FlattenSeq(s) \o x
<1> DEFINE r == Append(s, x)
           n == Len(s)
<1>1. /\ r \in Seq(Seq(X)) /\ r # <<>> /\ n \in Nat /\ Len(r) = n + 1
      /\ \A i \in 1 .. n : r[i] = s[i]
      /\ r[n + 1] = x
  BY AppendProperties, LenProperties
<1>2. PICK h \in [1 .. n + 1 -> Seq(X)] : Joins(r, n + 1, h) /\ FlattenSeq(r) = h[n + 1]
  <2> HIDE DEF r
  <2>1. QED
    BY <1>1, FlattenJoins
<1> HIDE DEF r
<1>3. CASE s = <<>>
  <2>1. n = 0
    BY <1>3, EmptySeq
  <2>2. 1 \in 1 .. n + 1 /\ r[1] = x /\ FlattenSeq(r) = h[1]
    BY <1>1, <1>2, <2>1
  <2>3. h[1] = x
    BY <1>2, <2>2 DEF Joins
  <2>4. FlattenSeq(s) \o x = x
    BY <1>3, FlattenEmpty, ConcatEmptySeq
  <2>5. QED
    BY <2>2, <2>3, <2>4 DEF r
<1>4. CASE s # <<>>
  <2>1. PICK g \in [1 .. n -> Seq(X)] : Joins(s, n, g) /\ FlattenSeq(s) = g[n]
    BY <1>4, FlattenJoins
  <2>2. n # 0
    BY <1>4, EmptySeq
  <2> HIDE DEF n
  <2> DEFINE T == {k \in Nat : k \in 1 .. n => g[k] = h[k]}
  <2>3. 0 \in T
    OBVIOUS
  <2>4. ASSUME NEW k \in Nat, k \in T
        PROVE  k + 1 \in T
    <3>1. SUFFICES ASSUME k + 1 \in 1 .. n
                   PROVE  g[k + 1] = h[k + 1]
      OBVIOUS
    <3>2. k + 1 \in 1 .. n + 1 /\ r[k + 1] = s[k + 1]
      BY <1>1, <3>1
    <3>3. g[k + 1] = IF k + 1 = 1 THEN s[k + 1] ELSE g[(k + 1) - 1] \o s[k + 1]
      BY <2>1, <3>1 DEF Joins
    <3>4. h[k + 1] = IF k + 1 = 1 THEN r[k + 1] ELSE h[(k + 1) - 1] \o r[k + 1]
      BY <1>2, <3>2 DEF Joins
    <3>5. k + 1 # 1 => (k + 1) - 1 = k /\ k \in 1 .. n
      BY <1>1, <3>1
    <3>6. k + 1 # 1 => g[k] = h[k]
      BY <2>4, <3>5
    <3>7. QED
      BY <3>2, <3>3, <3>4, <3>5, <3>6
  <2> HIDE DEF T
  <2>5. \A k \in Nat : k \in T
    BY <2>3, <2>4, NatInductionSet
  <2>6. g[n] = h[n]
    BY <1>1, <2>2, <2>5 DEF T
  <2>7. n + 1 \in 1 .. n + 1 /\ n + 1 # 1 /\ (n + 1) - 1 = n
    BY <1>1, <2>2
  <2>8. h[n + 1] = h[n] \o x
    BY <1>1, <1>2, <2>7 DEF Joins
  <2>9. QED
    BY <1>2, <2>1, <2>6, <2>8 DEF r
<1>5. QED
  BY <1>3, <1>4

\* The first part can be taken off the front.
LEMMA FlattenTail ==
  ASSUME NEW X, NEW s \in Seq(Seq(X)), s # <<>>
  PROVE  FlattenSeq(s) = Head(s) \o FlattenSeq(Tail(s))
<1> DEFINE Takes(q) == FlattenSeq(q) = Head(q) \o FlattenSeq(Tail(q))
           T == {n \in Nat : \A q \in Seq(Seq(X)) : Len(q) = n + 1 => Takes(q)}
<1>1. 0 \in T
  <2>1. SUFFICES ASSUME NEW q \in Seq(Seq(X)), Len(q) = 1
                 PROVE  Takes(q)
    OBVIOUS
  <2>2. q # <<>> /\ q[1] \in Seq(X) /\ Head(q) = q[1]
    <3>0. (q = <<>> => Len(q) = 0) /\ 0 # 1
      BY LenEmpty
    <3>1. q # <<>> /\ 1 \in 1 .. Len(q)
      BY <2>1, <3>0
    <3>2. q[1] \in Seq(X)
      BY <3>1, ElementOfSeq
    <3>3. QED
      BY <3>1, <3>2
  <2>3. Tail(q) = <<>>
    <3>1. Tail(q) \in Seq(Seq(X)) /\ Len(Tail(q)) = 0
      BY <2>1, <2>2, HeadTailProperties
    <3>2. QED
      BY <3>1, EmptySeq
  <2>4. PICK g \in [1 .. 1 -> Seq(X)] : Joins(q, 1, g) /\ FlattenSeq(q) = g[1]
    BY <2>1, <2>2, FlattenJoins
  <2>5. FlattenSeq(q) = q[1]
    BY <2>4 DEF Joins
  <2>6. q[1] \o <<>> = q[1]
    BY <2>2, ConcatEmptySeq
  <2>7. QED
    BY <2>2, <2>3, <2>5, <2>6, FlattenEmpty
<1>2. ASSUME NEW n \in Nat, n \in T
      PROVE  n + 1 \in T
  <2>1. SUFFICES ASSUME NEW q \in Seq(Seq(X)), Len(q) = n + 2
                 PROVE  Takes(q)
    OBVIOUS
  <2>2. q # <<>>
    BY <2>1, EmptySeq
  <2>3. PICK p \in Seq(Seq(X)), x \in Seq(X) : q = Append(p, x)
    BY <2>2, SequenceEmptyOrAppend
  <2>4. Len(p) = n + 1 /\ p # <<>>
    BY <2>1, <2>3, AppendProperties, EmptySeq, LenProperties
  <2>5. FlattenSeq(p) = Head(p) \o FlattenSeq(Tail(p))
    BY <1>2, <2>4
  <2>6. Head(q) = Head(p) /\ Tail(q) = Append(Tail(p), x)
    BY <2>3, <2>4, HeadTailAppend
  <2>7. Head(p) \in Seq(X) /\ Tail(p) \in Seq(Seq(X))
    BY <2>4, HeadTailProperties
  <2>8. FlattenSeq(Tail(q)) = FlattenSeq(Tail(p)) \o x
    BY <2>6, <2>7, FlattenAppend
  <2>9. FlattenSeq(q) = (Head(p) \o FlattenSeq(Tail(p))) \o x
    BY <2>3, <2>5, FlattenAppend
  <2>10. FlattenSeq(Tail(p)) \in Seq(X)
    BY <2>7, FlattenType
  <2>11. (Head(p) \o FlattenSeq(Tail(p))) \o x = Head(p) \o (FlattenSeq(Tail(p)) \o x)
    <3> DEFINE hd == Head(p)
               tl == FlattenSeq(Tail(p))
    <3>1. hd \in Seq(X) /\ tl \in Seq(X) /\ x \in Seq(X)
      BY <2>7, <2>10
    <3> HIDE DEF hd, tl
    <3>2. (hd \o tl) \o x = hd \o (tl \o x)
      BY <3>1, ConcatAssociative
    <3>3. QED
      BY <3>2 DEF hd, tl
  <2>12. QED
    BY <2>6, <2>8, <2>9, <2>11
<1> HIDE DEF T
<1>3. \A n \in Nat : n \in T
  BY <1>1, <1>2, NatInductionSet
<1>4. Len(s) - 1 \in Nat /\ Len(s) = (Len(s) - 1) + 1
  BY EmptySeq
<1>5. Len(s) - 1 \in T
  BY <1>3, <1>4
<1>6. QED
  BY <1>4, <1>5 DEF T

-----------------------------------------------------------------------------
(* The types. *)

OpenStates == [of : Batches \cup {LogFile}, mode : {"r", "rw", "w"}, pos : Nat]

\* TypeOK without what is on its way to the ground, and that.
TypeFiles ==
  /\ queue \in Seq(1 .. added) /\ Len(queue) <= QueueLength
  /\ added \in Nat /\ requests \in Nat /\ faults \in Nat /\ leaks \in Nat
  /\ downlinkReady \in BOOLEAN
  /\ telemetryBatchId \in Nat
  /\ telemetryFileId \in Handles \cup {0}
  /\ mgr \in {"create", "closeNew", "open", "receive", "write", "check", "close", "send"}
  /\ encodeQueue \in Seq(Batches) /\ Len(encodeQueue) <= EncodeQueueLength
  /\ enc \in {"idle", "open", "read", "close", "end"}
  /\ fd \in Handles \cup {0} /\ logFd \in Handles \cup {0}
  /\ Len(telemPacket) <= PacketItems
  /\ log \in {"idle", "write", "close"}
  /\ logQueue \in 0 .. LoggerQueueLength

TypeLink ==
  /\ outbox \in {<<>>, <<"packet">>, <<"end">>}
  /\ transmitQueue \in Seq({"packet", "end"}) /\ Len(transmitQueue) <= TransmitQueueLength
  /\ downlinking \in BOOLEAN
  /\ ended \in Nat

\* A batch ends for a request that was noticed, and every request is noticed once at most.
BatchCount ==
  /\ requests <= MaxRequests
  /\ telemetryBatchId + One(mgr \in {"close", "send"}) + One(downlinkReady) <= requests

\* What TypeFiles does not say of the handles, the files and the packets: that they hold
\* data, whichever handle they came through.
Pieces ==
  /\ handle \in [Handles -> {Closed} \cup OpenStates]
  /\ file \in [Batches -> Seq(1 .. added)]
  /\ sent \in Seq(Seq(1 .. added)) /\ telemPacket \in Seq(1 .. added)
  /\ mgr = "write" => datum \in 1 .. added
  /\ encBatch \in Batches

TInv == TypeFiles /\ BatchCount /\ Pieces

\* red_open gives a handle that was free: there is a lowest one.
LEMMA NextIsFree ==
  ASSUME Free # {}
  PROVE  NextHandle \in Free
<1> DEFINE T == {n \in Nat : \A m \in 0 .. n : m \notin Free}
<1>1. Free \subseteq Nat \ {0}
  BY FilesAssumption DEF Free, Handles
<1>2. \E h \in Free : \A g \in Free : h <= g
  <2>1. SUFFICES ASSUME \A h \in Free : \E g \in Free : ~(h <= g)
                 PROVE  FALSE
    OBVIOUS
  <2>2. 0 \in T
    BY <1>1
  <2>3. ASSUME NEW n \in Nat, n \in T
        PROVE  n + 1 \in T
    <3>1. n + 1 \notin Free
      <4>1. SUFFICES ASSUME n + 1 \in Free
                     PROVE  FALSE
        OBVIOUS
      <4>2. PICK g \in Free : ~(n + 1 <= g)
        BY <2>1, <4>1
      <4>3. g \in 0 .. n
        BY <1>1, <4>2
      <4>4. QED
        BY <2>3, <4>3
    <3>2. QED
      BY <2>3, <3>1
  <2> HIDE DEF T
  <2>4. \A n \in Nat : n \in T
    BY <2>2, <2>3, NatInductionSet
  <2>5. PICK h : h \in Free
    OBVIOUS
  <2>6. h \in 0 .. h /\ h \in T
    BY <1>1, <2>4, <2>5
  <2>7. QED
    BY <2>5, <2>6 DEF T
<1>3. QED
  BY <1>2, Zenon DEF NextHandle

\* What opening and closing do to the handles.
LEMMA OpensTyped ==
  ASSUME handle \in [Handles -> {Closed} \cup OpenStates],
         NEW f \in Batches \cup {LogFile}, NEW m \in {"r", "rw", "w"}, OpenSucceeds(f, m)
  PROVE  /\ handle' \in [Handles -> {Closed} \cup OpenStates]
         /\ NextHandle \in Handles /\ handle[NextHandle] = Closed
         /\ handle'[NextHandle] = Open(f, m)
         /\ \A h \in Handles : h # NextHandle => handle'[h] = handle[h]
<1> DEFINE n == NextHandle
<1>1. n \in Handles /\ handle[n] = Closed
  BY NextIsFree DEF OpenSucceeds, Free
<1>2. handle' = [handle EXCEPT ![n] = Open(f, m)]
  BY DEF OpenSucceeds
<1>3. Open(f, m) \in OpenStates
  BY DEF Open, OpenStates
<1> HIDE DEF n
<1>4. QED
  BY <1>1, <1>2, <1>3 DEF n

\* Closing a handle closes that one and no other.
LEMMA ClosesTyped ==
  ASSUME handle \in [Handles -> {Closed} \cup OpenStates], NEW n, CloseHandle(n)
  PROVE  /\ handle' \in [Handles -> {Closed} \cup OpenStates]
         /\ n \in Handles => handle'[n] = Closed
         /\ \A h \in Handles : h # n => handle'[h] = handle[h]
BY DEF CloseHandle

\* A failing open leaves every handle as it is.
LEMMA FailsTyped ==
  ASSUME OpenFails
  PROVE  handle' = handle
BY DEF OpenFails

\* Faults are counted.
LEMMA FaultsTyped ==
  ASSUME faults \in Nat
  PROVE  /\ Fault => faults' \in Nat
         /\ Sound => faults' \in Nat
         /\ Failed => faults' \in Nat
         /\ OpenFails => faults' \in Nat
         /\ \A f, m : OpenSucceeds(f, m) => faults' \in Nat
BY DEF Fault, Sound, Failed, OpenFails, OpenSucceeds

\* The types hold at the start,
LEMMA TInit == Init => TInv
<1> SUFFICES ASSUME Init
             PROVE  TInv
  OBVIOUS
<1> USE FilesAssumption
<1>1. /\ <<>> \in Seq(1 .. added) /\ <<>> \in Seq(Batches) /\ <<>> \in Seq(Seq(1 .. added))
      /\ Len(<<>>) = 0
  BY EmptySeq
<1>2. TypeFiles
  <2>1. /\ queue \in Seq(1 .. added) /\ Len(queue) <= QueueLength
        /\ encodeQueue \in Seq(Batches) /\ Len(encodeQueue) <= EncodeQueueLength
        /\ Len(telemPacket) <= PacketItems
    BY <1>1 DEF Init
  <2>2. /\ added \in Nat /\ requests \in Nat /\ faults \in Nat /\ leaks \in Nat
        /\ telemetryBatchId \in Nat /\ logQueue \in 0 .. LoggerQueueLength
    BY DEF Init
  <2>3. downlinkReady \in BOOLEAN
    BY DEF Init
  <2>4. QED
    BY <2>1, <2>2, <2>3 DEF Init, TypeFiles
<1>3. BatchCount
  <2>1. One(mgr \in {"close", "send"}) = 0 /\ One(downlinkReady) = 0
    BY DEF Init, One
  <2>2. QED
    BY <2>1 DEF Init, BatchCount
<1>4. Pieces
  <2>1. file \in [Batches -> Seq(1 .. added)]
    BY <1>1 DEF Init
  <2>2. sent \in Seq(Seq(1 .. added)) /\ telemPacket \in Seq(1 .. added)
    BY <1>1 DEF Init
  <2>3. encBatch \in Batches /\ mgr # "write"
    BY DEF Init, Batches
  <2>4. handle \in [Handles -> {Closed} \cup OpenStates]
    BY DEF Init
  <2>5. QED
    BY <2>1, <2>2, <2>3, <2>4 DEF Pieces
<1>5. QED
  BY <1>2, <1>3, <1>4 DEF TInv

\* Data that were added stay data.
LEMMA SeqGrow ==
  ASSUME NEW n \in Nat
  PROVE  /\ \A s : s \in Seq(1 .. n) => s \in Seq(1 .. n + 1)
         /\ \A s : s \in Seq(Seq(1 .. n)) => s \in Seq(Seq(1 .. n + 1))
<1>1. 1 .. n \subseteq 1 .. n + 1
  OBVIOUS
<1>2. \A s : s \in Seq(1 .. n) => s \in Seq(1 .. n + 1)
  BY <1>1, SeqMonotonic
<1>3. Seq(1 .. n) \subseteq Seq(1 .. n + 1)
  BY <1>2
<1>4. \A s : s \in Seq(Seq(1 .. n)) => s \in Seq(Seq(1 .. n + 1))
  BY <1>3, SeqMonotonic
<1>5. QED
  BY <1>2, <1>4

\* through what comes from outside,
LEMMA TOutside ==
  ASSUME TInv, Add \/ Request \/ LogEvent
  PROVE  TInv'
<1> USE FilesAssumption
<1>1. CASE Add
  <2>0. /\ added' = added + 1 /\ queue' = Append(queue, added + 1) /\ Len(queue) < QueueLength
        /\ UNCHANGED <<downlinkReady, requests, telemetryBatchId, telemetryFileId, mgr, datum,
                       encodeQueue, enc, fd, telemPacket, encBatch, log, logFd, logQueue, file,
                       handle, sent, faults, leaks>>
    BY <1>1 DEF Add, mgrVars, encVars, logVars, fsVars, historyVars
  <2>1. added \in Nat /\ queue \in Seq(1 .. added) /\ Len(queue) \in Nat
    BY LenProperties DEF TInv, TypeFiles
  <2>2. queue' \in Seq(1 .. added') /\ Len(queue') <= QueueLength
    <3>1. queue \in Seq(1 .. added + 1) /\ added + 1 \in 1 .. added + 1
      BY <2>1, SeqGrow
    <3>2. Append(queue, added + 1) \in Seq(1 .. added + 1) /\ Len(Append(queue, added + 1)) = Len(queue) + 1
      BY <3>1, AppendProperties
    <3>3. QED
      BY <2>0, <2>1, <3>2
  <2>3. downlinkReady' \in BOOLEAN
    BY <2>0, Zenon DEF TInv, TypeFiles
  <2>4. TypeFiles'
    BY <2>0, <2>1, <2>2, <2>3 DEF TInv, TypeFiles
  <2>5. BatchCount'
    BY <2>0 DEF TInv, BatchCount
  <2>6. file' \in [Batches -> Seq(1 .. added')]
    <3>1. \A b \in Batches : file[b] \in Seq(1 .. added + 1)
      BY <2>1, SeqGrow DEF TInv, Pieces
    <3>2. QED
      BY <2>0, <3>1 DEF TInv, Pieces
  <2>7. sent' \in Seq(Seq(1 .. added')) /\ telemPacket' \in Seq(1 .. added')
    BY <2>0, <2>1, SeqGrow DEF TInv, Pieces
  <2>8. mgr' = "write" => datum' \in 1 .. added'
    BY <2>0, <2>1 DEF TInv, Pieces
  <2>9. Pieces'
    BY <2>0, <2>6, <2>7, <2>8 DEF TInv, Pieces
  <2>10. QED
    BY <2>4, <2>5, <2>9 DEF TInv
<1>2. CASE Request
  <2>0. /\ requests < MaxRequests /\ requests' = requests + 1 /\ downlinkReady' = TRUE
        /\ UNCHANGED <<queue, added, telemetryBatchId, telemetryFileId, mgr, datum,
                       encodeQueue, enc, fd, telemPacket, encBatch, log, logFd, logQueue, file,
                       handle, sent, faults, leaks>>
    BY <1>2 DEF Request, queueVars, mgrVars, encVars, logVars, fsVars, historyVars
  <2>1. TypeFiles'
    BY <2>0 DEF TInv, TypeFiles
  <2>2. BatchCount'
    <3>1. One(downlinkReady') = 1 /\ One(downlinkReady) \in {0, 1}
      BY <2>0 DEF One
    <3>2. One(mgr' \in {"close", "send"}) = One(mgr \in {"close", "send"})
          /\ One(mgr \in {"close", "send"}) \in {0, 1}
      BY <2>0 DEF One
    <3>3. requests \in Nat /\ telemetryBatchId \in Nat
      BY DEF TInv, TypeFiles
    <3>4. QED
      BY <2>0, <3>1, <3>2, <3>3 DEF TInv, BatchCount
  <2>3. Pieces'
    BY <2>0 DEF TInv, Pieces
  <2>4. QED
    BY <2>1, <2>2, <2>3 DEF TInv
<1>3. CASE LogEvent
  <2>0. /\ logQueue' = IF logQueue < LoggerQueueLength THEN logQueue + 1 ELSE logQueue
        /\ UNCHANGED <<queue, added, downlinkReady, requests, telemetryBatchId, telemetryFileId,
                       mgr, datum, encodeQueue, enc, fd, telemPacket, encBatch, log, logFd, file,
                       handle, sent, faults, leaks>>
    BY <1>3 DEF LogEvent, notLog, queueVars, mgrVars, encVars
  <2>1. logQueue' \in 0 .. LoggerQueueLength
    BY <2>0 DEF TInv, TypeFiles
  <2>2. downlinkReady' \in BOOLEAN
    BY <2>0, Zenon DEF TInv, TypeFiles
  <2>3. TypeFiles'
    BY <2>0, <2>1, <2>2 DEF TInv, TypeFiles
  <2>4. BatchCount' /\ Pieces'
    BY <2>0 DEF TInv, BatchCount, Pieces
  <2>5. QED
    BY <2>3, <2>4 DEF TInv
<1>4. QED
  BY <1>1, <1>2, <1>3

\* Batches are numbered as far as there are requests.
LEMMA BatchNow ==
  ASSUME TInv
  PROVE  /\ telemetryBatchId \in Batches
         /\ mgr = "send" => telemetryBatchId + 1 \in Batches
<1>1. /\ telemetryBatchId \in Nat /\ requests \in Nat /\ MaxRequests \in Nat
      /\ One(downlinkReady) \in {0, 1} /\ One(mgr \in {"close", "send"}) \in {0, 1}
      /\ mgr = "send" => One(mgr \in {"close", "send"}) = 1
  BY FilesAssumption DEF TInv, TypeFiles, One
<1>2. /\ requests <= MaxRequests
      /\ telemetryBatchId + One(mgr \in {"close", "send"}) + One(downlinkReady) <= requests
  BY DEF TInv, BatchCount
<1>3. QED
  BY <1>1, <1>2 DEF Batches

\* The manager opens and closes.
LEMMA TManagerHandles ==
  ASSUME TInv, CreateFile \/ CloseNewFile \/ OpenFile \/ CloseFile
  PROVE  TInv'
<1>0. /\ UNCHANGED <<queue, added, downlinkReady, requests, telemetryBatchId, datum, encodeQueue,
                     enc, fd, telemPacket, encBatch, log, logFd, logQueue, file, sent, leaks>>
      /\ mgr \in {"create", "closeNew", "open", "close"}
      /\ mgr' \in {"closeNew", "receive", "open", "send"}
      /\ mgr' = "send" <=> mgr = "close"
      /\ UNCHANGED faults \/ Fault \/ OpenFails \/ \E f, m : OpenSucceeds(f, m)
  BY DEF CreateFile, CloseNewFile, OpenFile, CloseFile, others, queueVars, encVars, logVars,
         historyVars
<1>1. /\ handle' \in [Handles -> {Closed} \cup OpenStates]
      /\ telemetryFileId' \in Handles \cup {0}
  <2>0. /\ handle \in [Handles -> {Closed} \cup OpenStates]
        /\ telemetryFileId \in Handles \cup {0}
        /\ telemetryBatchId \in Batches \cup {LogFile}
    BY BatchNow DEF TInv, TypeFiles, Pieces
  <2>1. CASE CreateFile
    <3>1. CASE OpenFails /\ UNCHANGED telemetryFileId
      BY <2>0, <3>1, FailsTyped
    <3>2. CASE OpenSucceeds(telemetryBatchId, "r") /\ telemetryFileId' = NextHandle
      BY <2>0, <3>2, OpensTyped
    <3>3. QED
      BY <2>1, <3>1, <3>2 DEF CreateFile
  <2>2. CASE OpenFile
    <3>1. CASE OpenFails /\ UNCHANGED telemetryFileId
      BY <2>0, <3>1, FailsTyped
    <3>2. CASE OpenSucceeds(telemetryBatchId, "rw") /\ telemetryFileId' = NextHandle
      BY <2>0, <3>2, OpensTyped
    <3>3. QED
      BY <2>2, <3>1, <3>2 DEF OpenFile
  <2>3. CASE CloseNewFile \/ CloseFile
    <3>1. CloseHandle(telemetryFileId) /\ UNCHANGED telemetryFileId
      BY <2>3 DEF CloseNewFile, CloseFile
    <3>2. QED
      BY <2>0, <3>1, ClosesTyped
  <2>4. QED
    BY <2>1, <2>2, <2>3
<1>2. faults' \in Nat
  BY <1>0, FaultsTyped DEF TInv, TypeFiles
<1>3. downlinkReady' \in BOOLEAN
  BY <1>0, Zenon DEF TInv, TypeFiles
<1>4. mgr' \in {"create", "closeNew", "open", "receive", "write", "check", "close", "send"}
  BY <1>0
<1>5. TypeFiles'
  BY <1>0, <1>1, <1>2, <1>3, <1>4 DEF TInv, TypeFiles
<1>6. BatchCount'
  <2>1. One(mgr' \in {"close", "send"}) = One(mgr \in {"close", "send"})
    BY <1>0 DEF One
  <2>2. QED
    BY <1>0, <2>1 DEF TInv, BatchCount
<1>7. Pieces'
  BY <1>0, <1>1 DEF TInv, Pieces
<1>8. QED
  BY <1>5, <1>6, <1>7 DEF TInv

\* The manager takes a datum, writes it, looks at the requests.
LEMMA TManagerData ==
  ASSUME TInv, Receive \/ Write \/ Check
  PROVE  TInv'
<1>0. /\ UNCHANGED <<added, requests, telemetryBatchId, telemetryFileId, encodeQueue,
                     enc, fd, telemPacket, encBatch, log, logFd, logQueue, handle, sent, leaks>>
      /\ mgr \in {"receive", "write", "check"}
      /\ mgr' \in {"receive", "write", "check", "close"}
      /\ UNCHANGED faults \/ Fault \/ Sound \/ Failed
  BY DEF Receive, Write, Check, others, queueVars, encVars, logVars, fsVars, historyVars
<1>1. queue' \in Seq(1 .. added') /\ Len(queue') <= QueueLength /\ (mgr' = "write" => datum' \in 1 .. added')
  <2>1. queue \in Seq(1 .. added) /\ Len(queue) <= QueueLength /\ QueueLength \in Nat
    BY FilesAssumption DEF TInv, TypeFiles
  <2>2. CASE Receive /\ queue # <<>>
    <3>1. queue' = Tail(queue) /\ datum' = Head(queue)
      BY <2>2 DEF Receive
    <3>2. Tail(queue) \in Seq(1 .. added) /\ Len(Tail(queue)) = Len(queue) - 1 /\ Head(queue) \in 1 .. added
          /\ Len(queue) \in Nat
      BY <2>1, <2>2, HeadTailProperties, LenProperties
    <3>3. QED
      BY <1>0, <2>1, <3>1, <3>2
  <2>3. CASE ~(Receive /\ queue # <<>>)
    <3>1. queue' = queue /\ mgr' # "write"
      BY <2>3 DEF Receive, Write, Check, queueVars
    <3>2. QED
      BY <1>0, <2>1, <3>1
  <2>4. QED
    BY <2>2, <2>3
<1>2. faults' \in Nat
  BY <1>0, FaultsTyped DEF TInv, TypeFiles
<1>3. downlinkReady' \in BOOLEAN
  <2>1. downlinkReady' = downlinkReady \/ downlinkReady' = FALSE
    BY DEF Receive, Write, Check
  <2>2. QED
    BY <2>1, Zenon DEF TInv, TypeFiles
<1>4. mgr' \in {"create", "closeNew", "open", "receive", "write", "check", "close", "send"}
  BY <1>0
<1>5. TypeFiles'
  BY <1>0, <1>1, <1>2, <1>3, <1>4 DEF TInv, TypeFiles
<1>6. BatchCount'
  <2>1. /\ telemetryBatchId \in Nat /\ requests \in Nat
        /\ requests <= MaxRequests
        /\ telemetryBatchId + One(mgr \in {"close", "send"}) + One(downlinkReady) <= requests
    BY DEF TInv, TypeFiles, BatchCount
  <2>2. One(mgr \in {"close", "send"}) = 0
    BY <1>0 DEF One
  <2>3. CASE Check /\ downlinkReady
    <3>1. One(downlinkReady) = 1
      BY <2>3 DEF One
    <3>2. One(mgr' \in {"close", "send"}) = 1 /\ One(downlinkReady') = 0
      BY <2>3 DEF Check, One
    <3>3. QED
      BY <1>0, <2>1, <2>2, <3>1, <3>2 DEF BatchCount
  <2>4. CASE ~(Check /\ downlinkReady)
    <3>1. One(mgr' \in {"close", "send"}) = 0
      BY <2>4 DEF Check, Receive, Write, One
    <3>2. One(downlinkReady') = One(downlinkReady)
      <4>1. CASE Check
        <5>1. ~downlinkReady /\ ~downlinkReady'
          BY <2>4, <4>1 DEF Check
        <5>2. QED
          BY <5>1 DEF One
      <4>2. CASE Receive \/ Write
        <5>1. downlinkReady' = downlinkReady
          BY <4>2 DEF Receive, Write
        <5>2. QED
          BY <5>1 DEF One
      <4>3. QED
        BY <4>1, <4>2
    <3>3. QED
      BY <1>0, <2>1, <2>2, <3>1, <3>2 DEF BatchCount
  <2>5. QED
    BY <2>3, <2>4
<1>7. file' \in [Batches -> Seq(1 .. added')]
  <2>1. file \in [Batches -> Seq(1 .. added)]
    BY DEF TInv, Pieces
  <2>2. CASE Write /\ Writable(telemetryFileId) /\ handle[telemetryFileId].of # LogFile
             /\ file' # file
    <3> DEFINE f == handle[telemetryFileId].of
    <3>1. file' = [file EXCEPT ![f] = Append(@, datum)]
      BY <2>2 DEF Write
    <3>2. f \in Batches
      BY <2>2 DEF Writable, IsOpen, TInv, Pieces, OpenStates
    <3>3. datum \in 1 .. added
      BY <2>2 DEF Write, TInv, Pieces
    <3> HIDE DEF f
    <3>4. Append(file[f], datum) \in Seq(1 .. added)
      BY <2>1, <3>2, <3>3, AppendProperties
    <3>5. QED
      BY <1>0, <2>1, <3>1, <3>4
  <2>3. CASE file' = file
    BY <1>0, <2>1, <2>3
  <2>4. QED
    BY <2>2, <2>3 DEF Receive, Check, Write, fsVars
<1>8. Pieces'
  BY <1>0, <1>1, <1>7 DEF TInv, Pieces
<1>9. QED
  BY <1>5, <1>6, <1>8 DEF TInv

\* The manager sends a batch.
LEMMA TManagerSends ==
  ASSUME TInv, Send
  PROVE  TInv'
<1>0. /\ UNCHANGED <<queue, added, downlinkReady, requests, telemetryFileId, datum,
                     enc, fd, telemPacket, encBatch, log, logFd, logQueue, file, handle, sent,
                     faults, leaks>>
      /\ mgr = "send" /\ mgr' = "create"
      /\ encodeQueue' = Append(encodeQueue, telemetryBatchId)
      /\ Len(encodeQueue) < EncodeQueueLength
      /\ telemetryBatchId' = telemetryBatchId + 1
  BY DEF Send, queueVars, encVars, logVars, fsVars, historyVars
<1>1. encodeQueue' \in Seq(Batches) /\ Len(encodeQueue') <= EncodeQueueLength
  <2>1. encodeQueue \in Seq(Batches) /\ telemetryBatchId \in Batches /\ EncodeQueueLength \in Nat
    BY BatchNow, FilesAssumption DEF TInv, TypeFiles
  <2>2. Append(encodeQueue, telemetryBatchId) \in Seq(Batches)
        /\ Len(Append(encodeQueue, telemetryBatchId)) = Len(encodeQueue) + 1 /\ Len(encodeQueue) \in Nat
    BY <2>1, AppendProperties, LenProperties
  <2>3. QED
    BY <1>0, <2>1, <2>2
<1>2. downlinkReady' \in BOOLEAN
  BY <1>0, Zenon DEF TInv, TypeFiles
<1>3. mgr' \in {"create", "closeNew", "open", "receive", "write", "check", "close", "send"}
  BY <1>0
<1>4. TypeFiles'
  BY <1>0, <1>1, <1>2, <1>3 DEF TInv, TypeFiles
<1>5. BatchCount'
  <2>1. One(mgr \in {"close", "send"}) = 1 /\ One(mgr' \in {"close", "send"}) = 0
    BY <1>0 DEF One
  <2>2. QED
    BY <1>0, <2>1 DEF TInv, TypeFiles, BatchCount, One
<1>6. Pieces'
  BY <1>0 DEF TInv, Pieces
<1>7. QED
  BY <1>4, <1>5, <1>6 DEF TInv

\* What the encoder reads before the end of a file is a datum.
LEMMA ReadsData ==
  ASSUME TInv, IsOpen(fd), ~AtEnd(fd)
  PROVE  /\ handle[fd].of \in Batches /\ handle[fd].pos \in Nat
         /\ Contents(fd) = file[handle[fd].of]
         /\ handle[fd].pos + 1 \in 1 .. Len(Contents(fd))
         /\ NextDatum \in 1 .. added
<1> DEFINE o == handle[fd].of
           p == handle[fd].pos
<1>1. fd \in Handles /\ handle[fd] \in OpenStates
  BY DEF IsOpen, TInv, Pieces
<1>2. p \in Nat /\ o \in Batches \cup {LogFile}
  BY <1>1 DEF OpenStates
<1>3. ~(p >= Len(Contents(fd)))
  BY DEF AtEnd
<1>4. o # LogFile
  <2>1. o = LogFile => Len(Contents(fd)) = 0
    BY LenEmpty DEF Contents
  <2> HIDE DEF o, p
  <2>2. QED
    BY <1>2, <1>3, <2>1
<1>5. o \in Batches /\ Contents(fd) = file[o] /\ file[o] \in Seq(1 .. added)
  BY <1>2, <1>4 DEF Contents, TInv, Pieces
<1> HIDE DEF o, p
<1>6. p + 1 \in 1 .. Len(file[o])
  BY <1>2, <1>3, <1>5, LenProperties
<1>7. file[o][p + 1] \in 1 .. added
  BY <1>5, <1>6, ElementOfSeq
<1>8. QED
  BY <1>2, <1>5, <1>6, <1>7 DEF o, p, NextDatum

\* What the encoder's steps leave alone, and what they do to the handles.
LEMMA TEncoderFrame ==
  ASSUME TInv, Packing
  PROVE  /\ UNCHANGED <<queue, added, downlinkReady, requests, telemetryBatchId, telemetryFileId,
                        mgr, datum, log, logFd, logQueue, file>>
         /\ faults' \in Nat
         /\ handle' \in [Handles -> {Closed} \cup OpenStates]
         /\ fd' \in Handles \cup {0} /\ enc' \in {"idle", "open", "read", "close", "end"}
<1>1. UNCHANGED <<queue, added, downlinkReady, requests, telemetryBatchId, telemetryFileId,
                  mgr, datum, log, logFd, logQueue, file>>
  BY DEF Packing, ReceiveBatch, OpenBatch, ReadDatum, ReadFails, EndOfFile, CloseBatch,
         EndDownlink, notEnc, queueVars, mgrVars, logVars
<1>2. faults' \in Nat
  <2>1. UNCHANGED faults \/ Fault \/ Failed \/ OpenFails \/ \E f, m : OpenSucceeds(f, m)
    BY DEF Packing, ReceiveBatch, OpenBatch, ReadDatum, ReadFails, EndOfFile, CloseBatch, EndDownlink
  <2>2. QED
    BY <2>1, FaultsTyped DEF TInv, TypeFiles
<1>3. handle' \in [Handles -> {Closed} \cup OpenStates] /\ fd' \in Handles \cup {0}
  <2>0. /\ handle \in [Handles -> {Closed} \cup OpenStates] /\ fd \in Handles \cup {0}
        /\ encBatch \in Batches \cup {LogFile}
    BY DEF TInv, TypeFiles, Pieces
  <2>1. CASE OpenBatch
    <3>1. CASE OpenFails /\ UNCHANGED fd
      BY <2>0, <3>1, FailsTyped
    <3>2. CASE OpenSucceeds(encBatch, "r") /\ fd' = NextHandle
      BY <2>0, <3>2, OpensTyped
    <3>3. QED
      BY <2>1, <3>1, <3>2 DEF OpenBatch
  <2>2. CASE ReadDatum
    <3>1. fd' = fd /\ handle' = [handle EXCEPT ![fd].pos = @ + 1] /\ fd \in Handles
          /\ handle[fd] \in OpenStates
      BY <2>0, <2>2 DEF ReadDatum, IsOpen
    <3>2. [handle[fd] EXCEPT !.pos = @ + 1] \in OpenStates
      BY <3>1 DEF OpenStates
    <3>3. QED
      BY <2>0, <3>1, <3>2
  <2>3. CASE ReadFails \/ CloseBatch
    <3>1. CloseHandle(fd) /\ UNCHANGED fd
      BY <2>3 DEF ReadFails, CloseBatch
    <3>2. QED
      BY <2>0, <3>1, ClosesTyped
  <2>4. CASE ReceiveBatch \/ EndOfFile \/ EndDownlink
    BY <2>0, <2>4 DEF ReceiveBatch, EndOfFile, EndDownlink
  <2>5. QED
    BY <2>1, <2>2, <2>3, <2>4 DEF Packing
<1>4. enc' \in {"idle", "open", "read", "close", "end"}
  BY DEF Packing, ReceiveBatch, OpenBatch, ReadDatum, ReadFails, EndOfFile, CloseBatch,
         EndDownlink, TInv, TypeFiles
<1>5. QED
  BY <1>1, <1>2, <1>3, <1>4

\* The encoder's packets and its queue.
LEMMA TEncoderPackets ==
  ASSUME TInv, Packing
  PROVE  /\ encodeQueue' \in Seq(Batches) /\ Len(encodeQueue') <= EncodeQueueLength
         /\ encBatch' \in Batches
         /\ telemPacket' \in Seq(1 .. added) /\ Len(telemPacket') <= PacketItems
         /\ sent' \in Seq(Seq(1 .. added))
         /\ leaks' \in Nat
<1>0. /\ encodeQueue \in Seq(Batches) /\ Len(encodeQueue) <= EncodeQueueLength
      /\ encBatch \in Batches
      /\ telemPacket \in Seq(1 .. added) /\ Len(telemPacket) <= PacketItems
      /\ sent \in Seq(Seq(1 .. added))
      /\ leaks \in Nat
      /\ PacketItems \in Nat \ {0} /\ EncodeQueueLength \in Nat
  BY FilesAssumption DEF TInv, TypeFiles, Pieces
<1>1. <<>> \in Seq(1 .. added) /\ Len(<<>>) <= PacketItems
  BY <1>0, LenEmpty, EmptySeq
<1>2. CASE ReceiveBatch
  <2>1. /\ UNCHANGED <<telemPacket, sent, leaks>>
        /\ encodeQueue # <<>> /\ encodeQueue' = Tail(encodeQueue) /\ encBatch' = Head(encodeQueue)
    BY <1>2 DEF ReceiveBatch, notEnc
  <2>2. /\ Tail(encodeQueue) \in Seq(Batches) /\ Head(encodeQueue) \in Batches
        /\ Len(Tail(encodeQueue)) = Len(encodeQueue) - 1 /\ Len(encodeQueue) \in Nat
    BY <1>0, <2>1, HeadTailProperties, LenProperties
  <2>3. QED
    BY <1>0, <2>1, <2>2
<1>3. CASE ReadDatum
  <2>0. UNCHANGED <<encodeQueue, encBatch, leaks>> /\ Pack(NextDatum) /\ NextDatum \in 1 .. added
    BY <1>3, ReadsData DEF ReadDatum
  <2>1. CASE Len(telemPacket) + 1 > PacketItems
    <3>1. sent' = Append(sent, telemPacket) /\ telemPacket' = <<NextDatum>>
      BY <2>0, <2>1 DEF Pack
    <3>2. Append(sent, telemPacket) \in Seq(Seq(1 .. added))
      BY <1>0, AppendProperties
    <3>3. <<NextDatum>> \in Seq(1 .. added) /\ Len(<<NextDatum>>) = 1
      BY <2>0
    <3>4. QED
      BY <1>0, <2>0, <3>1, <3>2, <3>3
  <2>2. CASE ~(Len(telemPacket) + 1 > PacketItems)
    <3>1. sent' = sent /\ telemPacket' = Append(telemPacket, NextDatum)
      BY <2>0, <2>2 DEF Pack
    <3>2. /\ Append(telemPacket, NextDatum) \in Seq(1 .. added)
          /\ Len(Append(telemPacket, NextDatum)) = Len(telemPacket) + 1 /\ Len(telemPacket) \in Nat
      BY <1>0, <2>0, AppendProperties, LenProperties
    <3>3. QED
      BY <1>0, <2>0, <2>2, <3>1, <3>2
  <2>3. QED
    BY <2>1, <2>2
<1>4. CASE EndOfFile
  <2>1. /\ UNCHANGED <<encodeQueue, encBatch>> /\ telemPacket' = <<>>
        /\ sent' = sent \/ sent' = Append(sent, telemPacket)
        /\ leaks' = leaks \/ leaks' = leaks + 1
    BY <1>4 DEF EndOfFile
  <2>2. sent' \in Seq(Seq(1 .. added))
    <3>1. Append(sent, telemPacket) \in Seq(Seq(1 .. added))
      BY <1>0, AppendProperties
    <3>2. sent \in Seq(Seq(1 .. added)) /\ (sent' = sent \/ sent' = Append(sent, telemPacket))
      BY <1>0, <2>1
    <3>3. QED
      BY <3>1, <3>2, Zenon
  <2>3. telemPacket' \in Seq(1 .. added) /\ Len(telemPacket') <= PacketItems
    BY <1>1, <2>1, Zenon
  <2>4. leaks' \in Nat
    BY <1>0, <2>1
  <2>5. QED
    BY <1>0, <2>1, <2>2, <2>3, <2>4
<1>5. CASE OpenBatch \/ ReadFails \/ CloseBatch \/ EndDownlink
  <2>1. /\ UNCHANGED <<encodeQueue, encBatch, sent, leaks>>
        /\ telemPacket' = telemPacket \/ telemPacket' = <<>>
    BY <1>5 DEF OpenBatch, ReadFails, CloseBatch, EndDownlink
  <2>2. telemPacket' \in Seq(1 .. added) /\ Len(telemPacket') <= PacketItems
    BY <1>0, <1>1, <2>1
  <2>3. leaks' \in Nat
    BY <1>0, <2>1
  <2>4. QED
    BY <1>0, <2>1, <2>2, <2>3
<1>6. QED
  BY <1>2, <1>3, <1>4, <1>5 DEF Packing

\* through the steps of the encoder,
LEMMA TEncoder ==
  ASSUME TInv, Packing
  PROVE  TInv'
<1>0. /\ UNCHANGED <<queue, added, downlinkReady, requests, telemetryBatchId, telemetryFileId,
                     mgr, datum, log, logFd, logQueue, file>>
      /\ faults' \in Nat
      /\ handle' \in [Handles -> {Closed} \cup OpenStates]
      /\ fd' \in Handles \cup {0} /\ enc' \in {"idle", "open", "read", "close", "end"}
  BY TEncoderFrame
<1>1. /\ encodeQueue' \in Seq(Batches) /\ Len(encodeQueue') <= EncodeQueueLength
      /\ encBatch' \in Batches
      /\ telemPacket' \in Seq(1 .. added) /\ Len(telemPacket') <= PacketItems
      /\ sent' \in Seq(Seq(1 .. added))
      /\ leaks' \in Nat
  BY TEncoderPackets
<1>2. downlinkReady' \in BOOLEAN
  BY <1>0, Zenon DEF TInv, TypeFiles
<1>3. TypeFiles'
  BY <1>0, <1>1, <1>2 DEF TInv, TypeFiles
<1>4. BatchCount' /\ Pieces'
  BY <1>0, <1>1 DEF TInv, BatchCount, Pieces
<1>5. QED
  BY <1>3, <1>4 DEF TInv

\* of the logger,
LEMMA TLogger ==
  ASSUME TInv, Logger
  PROVE  TInv'
<1>0. UNCHANGED <<queue, added, downlinkReady, requests, telemetryBatchId, telemetryFileId, mgr,
                  datum, encodeQueue, enc, fd, telemPacket, encBatch, file, sent>>
  BY DEF Logger, OpenLog, WriteLog, CloseLog, notLog, queueVars, mgrVars, encVars
<1>1. faults' \in Nat
  <2>1. UNCHANGED faults \/ Fault \/ Failed \/ Sound \/ OpenFails \/ \E f, m : OpenSucceeds(f, m)
    BY DEF Logger, OpenLog, WriteLog, CloseLog
  <2>2. QED
    BY <2>1, FaultsTyped DEF TInv, TypeFiles
<1>2. /\ handle' \in [Handles -> {Closed} \cup OpenStates] /\ logFd' \in Handles \cup {0}
  <2>0. /\ handle \in [Handles -> {Closed} \cup OpenStates] /\ logFd \in Handles \cup {0}
        /\ LogFile \in Batches \cup {LogFile}
    BY DEF TInv, TypeFiles, Pieces
  <2>1. CASE OpenLog
    <3>1. CASE OpenFails /\ UNCHANGED logFd
      BY <2>0, <3>1, FailsTyped
    <3>2. CASE OpenSucceeds(LogFile, "w") /\ logFd' = NextHandle
      BY <2>0, <3>2, OpensTyped
    <3>3. QED
      BY <2>1, <3>1, <3>2 DEF OpenLog
  <2>2. CASE WriteLog
    BY <2>0, <2>2 DEF WriteLog
  <2>3. CASE CloseLog
    <3>1. CloseHandle(logFd) /\ UNCHANGED logFd
      BY <2>3 DEF CloseLog
    <3>2. QED
      BY <2>0, <3>1, ClosesTyped
  <2>4. QED
    BY <2>1, <2>2, <2>3 DEF Logger
<1>3. /\ log' \in {"idle", "write", "close"} /\ leaks' \in Nat
      /\ logQueue' \in 0 .. LoggerQueueLength
  <2>0. /\ log \in {"idle", "write", "close"} /\ leaks \in Nat
        /\ logQueue \in 0 .. LoggerQueueLength /\ LoggerQueueLength \in Nat
    BY FilesAssumption DEF TInv, TypeFiles
  <2>1. QED
    BY <2>0 DEF Logger, OpenLog, WriteLog, CloseLog
<1>4. downlinkReady' \in BOOLEAN
  BY <1>0, Zenon DEF TInv, TypeFiles
<1>5. TypeFiles'
  BY <1>0, <1>1, <1>2, <1>3, <1>4 DEF TInv, TypeFiles
<1>6. BatchCount' /\ Pieces'
  BY <1>0, <1>2 DEF TInv, BatchCount, Pieces
<1>7. QED
  BY <1>5, <1>6 DEF TInv

\* and through none.
LEMMA TStutter ==
  ASSUME TInv, Still
  PROVE  TInv'
<1>0. UNCHANGED <<queue, added, downlinkReady, requests, telemetryBatchId, telemetryFileId, mgr,
                  datum, encodeQueue, enc, fd, telemPacket, encBatch, log, logFd, logQueue, file,
                  handle, sent, faults, leaks>>
  BY DEF Still
<1>1. downlinkReady' \in BOOLEAN
  BY <1>0, Zenon DEF TInv, TypeFiles
<1>2. TypeFiles'
  BY <1>0, <1>1 DEF TInv, TypeFiles
<1>3. BatchCount' /\ Pieces'
  BY <1>0 DEF TInv, BatchCount, Pieces
<1>4. QED
  BY <1>2, <1>3 DEF TInv

\* So they always hold.
LEMMA TInvariance == Spec => []TInv
<1>1. Init => TInv
  BY TInit
<1>2. ASSUME TInv, [Next]_vars
      PROVE  TInv'
  <2>1. CASE Manager
    BY <1>2, <2>1, TManagerHandles, TManagerData, TManagerSends DEF Manager
  <2>2. QED
    BY <1>2, <2>1, TOutside, TEncoder, TLogger, TStutter, Steps
<1>3. QED
  BY <1>1, <1>2, PTL DEF Spec

\* A packet or the end of the packets waits in front of a queue that holds such.
LEMMA LinkInit == Init => TypeLink
<1>1. <<>> \in Seq({"packet", "end"}) /\ Len(<<>>) = 0
  BY EmptySeq
<1>2. SUFFICES ASSUME Init
               PROVE  TypeLink
  OBVIOUS
<1>3. transmitQueue \in Seq({"packet", "end"}) /\ Len(transmitQueue) <= TransmitQueueLength
  BY <1>1, <1>2, FilesAssumption DEF Init
<1>4. ended \in Nat
  BY <1>2 DEF Init
<1>5. QED
  BY Zenon, <1>2, <1>3, <1>4 DEF Init, TypeLink

\* The steps that send, take and begin to take keep to the room in the queue.
LEMMA LinkStep ==
  ASSUME TypeLink, [Next]_vars
  PROVE  TypeLink'
<1> DEFINE Kinds == {"packet", "end"}
<1>0. transmitQueue \in Seq(Kinds) /\ Len(transmitQueue) \in Nat /\ ended \in Nat
  BY LenProperties DEF TypeLink
<1>1. CASE SendTransmit
  <2>1. PICK e \in Kinds : outbox = <<e>>
    BY <1>1 DEF SendTransmit, TypeLink
  <2>2. transmitQueue' = Append(transmitQueue, e)
    <3>1. transmitQueue' = transmitQueue \o <<e>>
      BY <1>1, <2>1 DEF SendTransmit
    <3>2. QED
      BY <1>0, <2>1, <3>1, AppendIsConcat
  <2>3. Append(transmitQueue, e) \in Seq(Kinds) /\ Len(Append(transmitQueue, e)) = Len(transmitQueue) + 1
    BY <1>0, <2>1, AppendProperties
  <2>4. /\ Len(transmitQueue) < TransmitQueueLength /\ outbox' = <<>>
        /\ UNCHANGED <<downlinking, ended>> /\ TransmitQueueLength \in Nat
    BY <1>1, FilesAssumption DEF SendTransmit
  <2>5. transmitQueue' \in Seq(Kinds) /\ Len(transmitQueue') <= TransmitQueueLength
    BY <1>0, <2>2, <2>3, <2>4
  <2>6. QED
    BY Zenon, <2>4, <2>5 DEF TypeLink
<1>2. CASE TakeTransmit
  <2>1. /\ transmitQueue # <<>> /\ transmitQueue' = Tail(transmitQueue) /\ outbox' = outbox
        /\ ended' \in {ended, ended + 1}
    BY <1>2 DEF TakeTransmit, notLink, encVars
  <2>2. downlinking' \in BOOLEAN
    BY Zenon, <1>2 DEF TakeTransmit
  <2>3. transmitQueue' \in Seq(Kinds) /\ Len(transmitQueue') <= TransmitQueueLength
    BY <1>0, <2>1, HeadTailProperties, FilesAssumption DEF TypeLink
  <2>4. ended' \in Nat
    BY <1>0, <2>1
  <2>5. QED
    BY Zenon, <2>1, <2>2, <2>3, <2>4 DEF TypeLink
<1>3. CASE StartDownlinking
  BY Zenon, <1>3 DEF StartDownlinking, notLink, encVars, TypeLink
<1>4. CASE Packing
  <2>1. UNCHANGED link /\ (outbox' = outbox \/ outbox' = <<"packet">> \/ outbox' = <<"end">>)
    BY <1>4 DEF Packing, ReceiveBatch, OpenBatch, ReadDatum, Pack, ReadFails, EndOfFile, CloseBatch,
                EndDownlink, notEnc
  <2>2. QED
    BY Zenon, <2>1 DEF TypeLink, link
<1>5. CASE Add \/ Request \/ LogEvent \/ Manager \/ Logger \/ UNCHANGED vars
  <2>1. UNCHANGED link /\ outbox' = outbox
    <3>1. CASE Manager
      BY <3>1 DEF Manager, CreateFile, CloseNewFile, OpenFile, Receive, Write, Check, CloseFile,
                  Send, others, encVars
    <3>2. CASE Add \/ Request \/ LogEvent \/ Logger \/ UNCHANGED vars
      BY <3>2 DEF Add, Request, LogEvent, Logger, OpenLog, WriteLog, CloseLog, notLog, encVars, vars
    <3>3. QED
      BY <1>5, <3>1, <3>2
  <2>2. QED
    BY Zenon, <2>1 DEF TypeLink, link
<1>6. QED
  BY <1>1, <1>2, <1>3, <1>4, <1>5 DEF Next, Encoder

\* The queues and the packets never hold more than they have room for, and every
\* number that a task takes for its file is one of a handle or of none.
THEOREM FilesTypeCorrect == Spec => []TypeOK
<1>1. Spec => []TypeLink
  BY LinkInit, LinkStep, PTL DEF Spec
<1>2. TInv /\ TypeLink => TypeOK
  BY Zenon DEF TInv, TypeFiles, TypeLink, TypeOK
<1>3. QED
  BY <1>1, <1>2, TInvariance, PTL

-----------------------------------------------------------------------------
(* Whose handle is whose, as long as the manager could open its files. *)

ManagerOwns ==
  mgr \in {"closeNew", "receive", "write", "check", "close"} =>
    /\ telemetryFileId \in Handles
    /\ handle[telemetryFileId].of = telemetryBatchId
    /\ mgr # "closeNew" => handle[telemetryFileId].mode = "rw"

EncoderOwns ==
  enc \in {"read", "close"} =>
    /\ fd \in Handles
    /\ handle[fd].of = encBatch /\ handle[fd].mode = "r"
    /\ enc = "read" => handle[fd].pos <= Len(file[encBatch])

LoggerOwns ==
  log \in {"write", "close"} => logFd \in Handles /\ handle[logFd].of = LogFile

Own == ManagerOwns /\ EncoderOwns /\ LoggerOwns

Owned == ~stale => Own

\* What tells the three apart is the file that a handle is open for.
LEMMA Distinct ==
  ASSUME TInv, BatchOrder, Own
  PROVE  /\ mgr \in {"closeNew", "receive", "write", "check", "close"} =>
              /\ telemetryFileId \in Handles /\ handle[telemetryFileId] # Closed
              /\ enc \in {"read", "close"} => telemetryFileId # fd
              /\ log \in {"write", "close"} => telemetryFileId # logFd
         /\ enc \in {"read", "close"} => fd \in Handles /\ handle[fd] # Closed
         /\ log \in {"write", "close"} => logFd \in Handles /\ handle[logFd] # Closed
         /\ enc \in {"read", "close"} /\ log \in {"write", "close"} => fd # logFd
<1>1. telemetryBatchId \in Nat /\ encBatch \in Nat /\ Closed.of = -2 /\ LogFile = -1
  BY FilesAssumption DEF TInv, TypeFiles, Pieces, Batches, Closed, LogFile
<1>2. enc \in {"read", "close"} => encBatch < telemetryBatchId
  BY DEF BatchOrder
<1>3. mgr \in {"closeNew", "receive", "write", "check", "close"} =>
        telemetryFileId \in Handles /\ handle[telemetryFileId].of = telemetryBatchId
  BY DEF Own, ManagerOwns
<1>4. enc \in {"read", "close"} => fd \in Handles /\ handle[fd].of = encBatch
  BY DEF Own, EncoderOwns
<1>5. log \in {"write", "close"} => logFd \in Handles /\ handle[logFd].of = LogFile
  BY DEF Own, LoggerOwns
<1>6. QED
  BY <1>1, <1>2, <1>3, <1>4, <1>5

\* The three keep what they own as long as the handle stays as it is.
LEMMA ManagerKeeps ==
  ASSUME ManagerOwns, UNCHANGED <<mgr, telemetryFileId, telemetryBatchId>>,
         mgr \in {"closeNew", "receive", "write", "check", "close"} =>
           handle'[telemetryFileId] = handle[telemetryFileId]
  PROVE  ManagerOwns'
BY DEF ManagerOwns

\* The encoder owns its batch as long as nothing touches its handle and its file;
LEMMA EncoderKeeps ==
  ASSUME EncoderOwns, UNCHANGED <<enc, fd, encBatch>>,
         enc \in {"read", "close"} =>
           handle'[fd] = handle[fd] /\ file'[encBatch] = file[encBatch]
  PROVE  EncoderOwns'
BY DEF EncoderOwns

\* the logger likewise.
LEMMA LoggerKeeps ==
  ASSUME LoggerOwns, UNCHANGED <<log, logFd>>,
         log \in {"write", "close"} => handle'[logFd] = handle[logFd]
  PROVE  LoggerOwns'
BY DEF LoggerOwns

\* Ownership outlasts what comes from outside,
LEMMA OwnOutside ==
  ASSUME Owned, Add \/ Request \/ LogEvent
  PROVE  Owned'
<1>1. UNCHANGED <<mgr, telemetryFileId, telemetryBatchId, enc, fd, encBatch, log, logFd, handle,
                  file, stale>>
  BY DEF Add, Request, LogEvent, mgrVars, encVars, logVars, fsVars, historyVars, notLog
<1>2. SUFFICES ASSUME Own
               PROVE  Own'
  BY <1>1 DEF Owned
<1>3. QED
  BY <1>1, <1>2, ManagerKeeps, EncoderKeeps, LoggerKeeps DEF Own

\* The manager opens files of its own and closes only those.
LEMMA OwnManagerHandles ==
  ASSUME TInv, BatchOrder, Owned, CreateFile \/ CloseNewFile \/ OpenFile \/ CloseFile
  PROVE  Owned'
<1>0. UNCHANGED <<telemetryBatchId, enc, fd, encBatch, log, logFd, file>>
  BY DEF CreateFile, CloseNewFile, OpenFile, CloseFile, others, encVars, logVars
<1>1. ~stale' => ~stale
  BY DEF CreateFile, CloseNewFile, OpenFile, CloseFile, historyVars
<1>2. SUFFICES ASSUME Own, ~stale'
               PROVE  Own'
  BY <1>1 DEF Owned
<1>3. /\ handle \in [Handles -> {Closed} \cup OpenStates]
      /\ telemetryBatchId \in Batches \cup {LogFile}
  BY BatchNow DEF TInv, Pieces
<1>4. ASSUME NEW m \in {"r", "rw"}, OpenSucceeds(telemetryBatchId, m),
             telemetryFileId' = NextHandle,
             m = "r" => mgr' = "closeNew", m = "rw" => mgr' = "receive"
      PROVE  Own'
  <2>1. /\ NextHandle \in Handles /\ handle[NextHandle] = Closed
        /\ handle'[NextHandle] = Open(telemetryBatchId, m)
        /\ \A h \in Handles : h # NextHandle => handle'[h] = handle[h]
    BY <1>3, <1>4, OpensTyped
  <2>2. ManagerOwns'
    BY <1>0, <1>4, <2>1 DEF ManagerOwns, Open
  <2>3. EncoderOwns' /\ LoggerOwns'
    BY <1>0, <1>2, <2>1, Distinct, EncoderKeeps, LoggerKeeps DEF Own
  <2>4. QED
    BY <2>2, <2>3 DEF Own
<1>5. CASE CreateFile
  <2>1. OpenSucceeds(telemetryBatchId, "r") /\ telemetryFileId' = NextHandle /\ mgr' = "closeNew"
    BY <1>2, <1>5 DEF CreateFile
  <2>2. QED
    BY <1>4, <2>1
<1>6. CASE OpenFile
  <2>1. OpenSucceeds(telemetryBatchId, "rw") /\ telemetryFileId' = NextHandle /\ mgr' = "receive"
    BY <1>2, <1>6 DEF OpenFile
  <2>2. QED
    BY <1>4, <2>1
<1>7. CASE CloseNewFile \/ CloseFile
  <2>1. /\ CloseHandle(telemetryFileId) /\ mgr \in {"closeNew", "close"} /\ mgr' \in {"open", "send"}
    BY <1>7 DEF CloseNewFile, CloseFile
  <2>2. \A h \in Handles : h # telemetryFileId => handle'[h] = handle[h]
    BY <1>3, <2>1, ClosesTyped
  <2>3. ManagerOwns'
    BY <2>1 DEF ManagerOwns
  <2>4. EncoderOwns' /\ LoggerOwns'
    BY <1>0, <1>2, <2>1, <2>2, Distinct, EncoderKeeps, LoggerKeeps DEF Own
  <2>5. QED
    BY <2>3, <2>4 DEF Own
<1>8. QED
  BY <1>5, <1>6, <1>7

\* The manager writes to no file but that of the current batch.
LEMMA Written ==
  ASSUME TInv, ManagerOwns, Write
  PROVE  /\ IsOpen(telemetryFileId) /\ Writable(telemetryFileId)
         /\ \/ file' = [file EXCEPT ![telemetryBatchId] = Append(@, datum)] /\ Sound
            \/ file' = file /\ Fault
<1>1. /\ mgr = "write" /\ telemetryFileId \in Handles
      /\ handle[telemetryFileId].of = telemetryBatchId
      /\ handle[telemetryFileId].mode = "rw"
  BY DEF Write, ManagerOwns
<1>2. handle[telemetryFileId] # Closed
  BY <1>1 DEF Closed
<1>3. IsOpen(telemetryFileId) /\ Writable(telemetryFileId)
  BY <1>1, <1>2 DEF IsOpen, Writable
<1>4. telemetryBatchId # LogFile
  BY DEF TInv, TypeFiles, LogFile
<1>5. QED
  BY <1>1, <1>3, <1>4 DEF Write

\* the steps of the manager that open and close nothing,
LEMMA OwnManagerData ==
  ASSUME TInv, BatchOrder, Owned, Receive \/ Write \/ Check \/ Send
  PROVE  Owned'
<1>0. /\ UNCHANGED <<telemetryFileId, enc, fd, encBatch, log, logFd, handle>>
      /\ mgr \in {"receive", "write", "check", "send"}
      /\ mgr' \in {"receive", "write", "check", "close", "create"}
      /\ mgr' # "create" => telemetryBatchId' = telemetryBatchId /\ mgr # "send"
      /\ stale' = stale
  BY DEF Receive, Write, Check, Send, others, encVars, logVars, fsVars, historyVars
<1>2. SUFFICES ASSUME Own
               PROVE  Own'
  BY <1>0 DEF Owned
<1>3. ManagerOwns'
  BY <1>0, <1>2 DEF Own, ManagerOwns
<1>4. enc \in {"read", "close"} => file'[encBatch] = file[encBatch]
  <2>1. CASE Write
    <3>1. file' = [file EXCEPT ![telemetryBatchId] = Append(@, datum)] \/ file' = file
      BY <1>2, <2>1, Written DEF Own
    <3>2. /\ telemetryBatchId \in Nat /\ encBatch \in Batches /\ file \in [Batches -> Seq(1 .. added)]
          /\ enc \in {"read", "close"} => encBatch < telemetryBatchId
      BY DEF TInv, TypeFiles, Pieces, BatchOrder
    <3>3. enc \in {"read", "close"} => encBatch # telemetryBatchId
      BY <3>2 DEF Batches
    <3>4. QED
      BY <3>1, <3>2, <3>3
  <2>2. CASE ~Write
    BY <2>2 DEF Receive, Check, Send, fsVars
  <2>3. QED
    BY <2>1, <2>2
<1>5. EncoderOwns' /\ LoggerOwns'
  BY <1>0, <1>2, <1>4, EncoderKeeps, LoggerKeeps DEF Own
<1>6. QED
  BY <1>3, <1>5 DEF Own

\* The encoder reads through a handle of its own, no further than the file goes.
LEMMA OwnEncoder ==
  ASSUME TInv, BatchOrder, Owned, Packing
  PROVE  Owned'
<1>0. UNCHANGED <<telemetryFileId, telemetryBatchId, mgr, log, logFd, file, stale>>
  BY DEF Packing, ReceiveBatch, OpenBatch, ReadDatum, ReadFails, EndOfFile, CloseBatch,
         EndDownlink, notEnc, mgrVars, logVars
<1>2. SUFFICES ASSUME Own
               PROVE  Own'
  BY <1>0 DEF Owned
<1>3. /\ handle \in [Handles -> {Closed} \cup OpenStates]
      /\ encBatch \in Batches \cup {LogFile} /\ encBatch \in Batches
      /\ file \in [Batches -> Seq(1 .. added)]
  BY DEF TInv, Pieces
<1>4. CASE OpenBatch
  <2>1. CASE OpenFails /\ enc' = "end"
    <3>1. handle' = handle
      BY <2>1, FailsTyped
    <3>2. EncoderOwns'
      BY <2>1 DEF EncoderOwns
    <3>3. QED
      BY <1>0, <1>2, <3>1, <3>2, ManagerKeeps, LoggerKeeps DEF Own
  <2>2. CASE OpenSucceeds(encBatch, "r") /\ fd' = NextHandle /\ enc' = "read"
    <3>1. /\ NextHandle \in Handles /\ handle[NextHandle] = Closed
          /\ handle'[NextHandle] = Open(encBatch, "r")
          /\ \A h \in Handles : h # NextHandle => handle'[h] = handle[h]
      BY <1>3, <2>2, OpensTyped
    <3>2. encBatch' = encBatch /\ Len(file[encBatch]) \in Nat
      BY <1>3, <1>4, LenProperties DEF OpenBatch
    <3>3. EncoderOwns'
      BY <1>0, <2>2, <3>1, <3>2 DEF EncoderOwns, Open
    <3>4. ManagerOwns' /\ LoggerOwns'
      BY <1>0, <1>2, <3>1, Distinct, ManagerKeeps, LoggerKeeps DEF Own
    <3>5. QED
      BY <3>3, <3>4 DEF Own
  <2>3. QED
    BY <1>4, <2>1, <2>2 DEF OpenBatch
<1>5. CASE ReadDatum
  <2>1. /\ UNCHANGED <<enc, fd, encBatch>> /\ enc = "read"
        /\ handle' = [handle EXCEPT ![fd].pos = @ + 1]
        /\ IsOpen(fd) /\ ~AtEnd(fd)
    BY <1>5 DEF ReadDatum
  <2>2. fd \in Handles /\ handle[fd].of = encBatch /\ handle[fd].mode = "r"
    BY <1>2, <2>1 DEF Own, EncoderOwns
  <2>3. handle[fd].pos \in Nat /\ handle[fd].pos + 1 \in 1 .. Len(file[encBatch])
    BY <2>1, <2>2, ReadsData
  <2>4. handle[fd] \in OpenStates
    BY <1>3, <2>1, <2>2 DEF IsOpen
  <2>5. /\ handle'[fd].of = encBatch /\ handle'[fd].mode = "r"
        /\ handle'[fd].pos = handle[fd].pos + 1
    BY <1>3, <2>1, <2>2, <2>4 DEF OpenStates
  <2>6. EncoderOwns'
    BY <1>0, <2>1, <2>2, <2>3, <2>5 DEF EncoderOwns
  <2>7. \A h \in Handles : h # fd => handle'[h] = handle[h]
    BY <1>3, <2>1
  <2>8. ManagerOwns' /\ LoggerOwns'
    BY <1>0, <1>2, <2>1, <2>7, Distinct, ManagerKeeps, LoggerKeeps DEF Own
  <2>9. QED
    BY <2>6, <2>8 DEF Own
<1>6. CASE ReadFails \/ CloseBatch
  <2>1. enc \in {"read", "close"} /\ enc' = "end" /\ CloseHandle(fd)
    BY <1>6 DEF ReadFails, CloseBatch
  <2>2. \A h \in Handles : h # fd => handle'[h] = handle[h]
    BY <1>3, <2>1, ClosesTyped
  <2>3. EncoderOwns'
    BY <2>1 DEF EncoderOwns
  <2>4. ManagerOwns' /\ LoggerOwns'
    BY <1>0, <1>2, <2>1, <2>2, Distinct, ManagerKeeps, LoggerKeeps DEF Own
  <2>5. QED
    BY <2>3, <2>4 DEF Own
<1>7. CASE ReceiveBatch \/ EndOfFile \/ EndDownlink
  <2>1. /\ handle' = handle
        /\ \/ enc' \notin {"read", "close"}
           \/ enc = "read" /\ enc' = "close" /\ UNCHANGED <<fd, encBatch>>
    BY <1>7 DEF ReceiveBatch, EndOfFile, EndDownlink
  <2>2. EncoderOwns'
    BY <1>2, <2>1 DEF Own, EncoderOwns
  <2>3. ManagerOwns' /\ LoggerOwns'
    BY <1>0, <1>2, <2>1, ManagerKeeps, LoggerKeeps DEF Own
  <2>4. QED
    BY <2>2, <2>3 DEF Own
<1>8. QED
  BY <1>4, <1>5, <1>6, <1>7 DEF Packing

\* and those of the logger, which closes a handle only it has.
LEMMA OwnLogger ==
  ASSUME TInv, BatchOrder, Owned, Logger
  PROVE  Owned'
<1>0. UNCHANGED <<telemetryFileId, telemetryBatchId, mgr, enc, fd, encBatch, file, stale>>
  BY DEF Logger, OpenLog, WriteLog, CloseLog, notLog, mgrVars, encVars
<1>2. SUFFICES ASSUME Own
               PROVE  Own'
  BY <1>0 DEF Owned
<1>3. handle \in [Handles -> {Closed} \cup OpenStates] /\ LogFile \in Batches \cup {LogFile}
  BY DEF TInv, Pieces
<1>4. CASE OpenLog
  <2>1. CASE OpenFails /\ UNCHANGED <<logFd, log>>
    <3>1. handle' = handle
      BY <2>1, FailsTyped
    <3>2. QED
      BY <1>0, <1>2, <2>1, <3>1, ManagerKeeps, EncoderKeeps, LoggerKeeps DEF Own
  <2>2. CASE OpenSucceeds(LogFile, "w") /\ logFd' = NextHandle /\ log' = "write"
    <3>1. /\ NextHandle \in Handles /\ handle[NextHandle] = Closed
          /\ handle'[NextHandle] = Open(LogFile, "w")
          /\ \A h \in Handles : h # NextHandle => handle'[h] = handle[h]
      BY <1>3, <2>2, OpensTyped
    <3>2. LoggerOwns'
      BY <2>2, <3>1 DEF LoggerOwns, Open
    <3>3. ManagerOwns' /\ EncoderOwns'
      BY <1>0, <1>2, <3>1, Distinct, ManagerKeeps, EncoderKeeps DEF Own
    <3>4. QED
      BY <3>2, <3>3 DEF Own
  <2>3. QED
    BY <1>4, <2>1, <2>2 DEF OpenLog
<1>5. CASE WriteLog
  <2>1. handle' = handle /\ logFd' = logFd /\ log = "write"
    BY <1>5 DEF WriteLog
  <2>2. LoggerOwns'
    BY <1>2, <2>1 DEF Own, LoggerOwns
  <2>3. QED
    BY <1>0, <1>2, <2>1, <2>2, ManagerKeeps, EncoderKeeps DEF Own
<1>6. CASE CloseLog
  <2>1. log = "close" /\ log' = "idle" /\ CloseHandle(logFd)
    BY <1>6 DEF CloseLog
  <2>2. \A h \in Handles : h # logFd => handle'[h] = handle[h]
    BY <1>3, <2>1, ClosesTyped
  <2>3. LoggerOwns'
    BY <2>1 DEF LoggerOwns
  <2>4. ManagerOwns' /\ EncoderOwns'
    BY <1>0, <1>2, <2>1, <2>2, Distinct, ManagerKeeps, EncoderKeeps DEF Own
  <2>5. QED
    BY <2>3, <2>4 DEF Own
<1>7. QED
  BY <1>4, <1>5, <1>6 DEF Logger

-----------------------------------------------------------------------------
(* What has not begun is empty, and a failure shows. *)

StaleShows  == stale => unreadable
PacketEmpty == enc # "read" => telemPacket = <<>>
FilesEmpty  == ~stale => \A b \in Batches : b > telemetryBatchId => file[b] = <<>>

Empty == StaleShows /\ PacketEmpty /\ FilesEmpty

\* What went wrong stays on record, and a handle gone stale is a batch that may not be read.
LEMMA HistoryStays ==
  ASSUME [Next]_vars
  PROVE  /\ stale => stale'
         /\ unreadable => unreadable'
         /\ stale' /\ ~stale => unreadable'
<1>1. \/ UNCHANGED unreadable \/ Fault \/ Failed \/ Sound \/ OpenFails
      \/ \E f, m : OpenSucceeds(f, m)
  <2>1. CASE Manager
    BY <2>1 DEF Manager, CreateFile, CloseNewFile, OpenFile, Receive, Write, Check, CloseFile,
                Send, historyVars
  <2>2. CASE Packing
    BY <2>2 DEF Packing, ReceiveBatch, OpenBatch, ReadDatum, ReadFails, EndOfFile, CloseBatch,
                EndDownlink
  <2>3. CASE Logger \/ Add \/ Request \/ LogEvent \/ Still
    BY <2>3 DEF Logger, OpenLog, WriteLog, CloseLog, Add, Request, LogEvent, historyVars, Still
  <2>4. QED
    BY <2>1, <2>2, <2>3, Steps
<1>2. UNCHANGED stale \/ CreateFile \/ OpenFile
  <2>1. CASE CloseNewFile \/ Receive \/ Write \/ Check \/ CloseFile \/ Send
    BY <2>1 DEF CloseNewFile, Receive, Write, Check, CloseFile, Send, historyVars
  <2>2. CASE Packing
    BY <2>2 DEF Packing, ReceiveBatch, OpenBatch, ReadDatum, ReadFails, EndOfFile,
                CloseBatch, EndDownlink, notEnc
  <2>3. CASE Logger \/ Add \/ Request \/ LogEvent \/ Still
    BY <2>3 DEF Logger, OpenLog, WriteLog, CloseLog, notLog, Add, Request, LogEvent,
                historyVars, Still
  <2>4. QED
    BY <2>1, <2>2, <2>3, Steps DEF Manager
<1>3. OpenFails => unreadable'
  BY DEF OpenFails, Fault, Failed
<1>4. (Fault => unreadable') /\ (Failed => unreadable')
  BY DEF Fault, Failed
<1>5. Sound \/ (\E f, m : OpenSucceeds(f, m)) => unreadable' = unreadable
  BY DEF Sound, OpenSucceeds
<1>6. unreadable => unreadable'
  <2>1. CASE unreadable'
    BY <2>1
  <2>2. CASE unreadable' = unreadable
    BY <2>2
  <2>3. QED
    BY <1>1, <1>3, <1>4, <1>5, <2>1, <2>2
<1>7. CreateFile \/ OpenFile => UNCHANGED stale \/ OpenFails
  BY DEF CreateFile, OpenFile
<1>8. stale => stale'
  <2>1. CreateFile \/ OpenFile => UNCHANGED stale \/ stale'
    BY DEF CreateFile, OpenFile
  <2>2. CASE UNCHANGED stale
    BY <2>2
  <2>3. QED
    BY <1>2, <2>1, <2>2
<1>9. stale' /\ ~stale => unreadable'
  <2>1. CASE UNCHANGED stale
    BY <2>1
  <2>2. QED
    BY <1>2, <1>3, <1>7, <2>1
<1>10. QED
  BY <1>6, <1>8, <1>9

\* Between two files the encoder holds no data.
LEMMA PacketEmptyStep ==
  ASSUME PacketEmpty, [Next]_vars
  PROVE  PacketEmpty'
<1>1. CASE Packing
  BY <1>1 DEF PacketEmpty, Packing, ReceiveBatch, OpenBatch, ReadDatum, ReadFails, EndOfFile,
              CloseBatch, EndDownlink
<1>2. CASE Manager
  <2>1. UNCHANGED <<enc, telemPacket>>
    BY <1>2 DEF Manager, CreateFile, CloseNewFile, OpenFile, Receive, Write, Check, CloseFile,
                Send, others, encVars
  <2>2. QED
    BY <2>1 DEF PacketEmpty
<1>3. CASE Logger \/ Add \/ Request \/ LogEvent \/ Still
  <2>1. UNCHANGED <<enc, telemPacket>>
    BY <1>3 DEF Logger, OpenLog, WriteLog, CloseLog, Add, Request, LogEvent, notLog, encVars, Still
  <2>2. QED
    BY <2>1 DEF PacketEmpty
<1>4. QED
  BY <1>1, <1>2, <1>3, Steps

\* Of the files, only the current batch's is written, and the next one is the next.
LEMMA FilesEmptyStep ==
  ASSUME TInv, Owned, FilesEmpty, [Next]_vars
  PROVE  FilesEmpty'
<1>1. SUFFICES ASSUME ~stale, ~stale'
               PROVE  \A b \in Batches : b > telemetryBatchId' => file'[b] = <<>>
  BY HistoryStays DEF FilesEmpty
<1>2. /\ \A b \in Batches : b > telemetryBatchId => file[b] = <<>>
      /\ telemetryBatchId \in Nat /\ file \in [Batches -> Seq(1 .. added)]
      /\ Batches \subseteq Int
  BY <1>1, FilesAssumption DEF FilesEmpty, TInv, TypeFiles, Pieces, Batches
<1>3. CASE Write
  <2>1. /\ telemetryBatchId' = telemetryBatchId
        /\ file' = [file EXCEPT ![telemetryBatchId] = Append(@, datum)] \/ file' = file
    BY <1>1, <1>3, Written DEF Owned, Own, Write
  <2>2. QED
    BY <1>2, <2>1
<1>4. CASE Send
  <2>1. telemetryBatchId' = telemetryBatchId + 1 /\ file' = file
    BY <1>4 DEF Send, fsVars
  <2>2. QED
    BY <1>2, <2>1
<1>5. CASE ~Write /\ ~Send
  <2>1. UNCHANGED <<telemetryBatchId, file>>
    <3>1. CASE Manager
      BY <1>5, <3>1 DEF Manager, CreateFile, CloseNewFile, OpenFile, Receive, Check, CloseFile,
                        fsVars
    <3>2. CASE Packing
      BY <3>2 DEF Packing, ReceiveBatch, OpenBatch, ReadDatum, ReadFails, EndOfFile,
                  CloseBatch, EndDownlink, notEnc, mgrVars
    <3>3. CASE Logger \/ Add \/ Request \/ LogEvent \/ Still
      BY <3>3 DEF Logger, OpenLog, WriteLog, CloseLog, Add, Request, LogEvent, notLog, mgrVars,
                  fsVars, Still
    <3>4. QED
      BY <3>1, <3>2, <3>3, Steps
  <2>2. QED
    BY <1>2, <2>1
<1>6. QED
  BY <1>3, <1>4, <1>5

\* All that the order of the data needs.
GInv == TInv /\ FilesInv /\ Owned /\ Empty

\* Types, order of batches, ownership and emptiness always hold.
LEMMA GInvariance == Spec => []GInv
<1>1. Init => Owned /\ Empty
  <2>1. SUFFICES ASSUME Init
                 PROVE  Owned /\ Empty
    OBVIOUS
  <2>2. /\ mgr = "create" /\ enc = "idle" /\ log = "idle" /\ telemPacket = <<>>
        /\ file = [b \in Batches |-> <<>>]
    BY <2>1 DEF Init
  <2>3. Own
    BY <2>2 DEF Own, ManagerOwns, EncoderOwns, LoggerOwns
  <2>4. Empty
    <3>1. ~stale
      BY <2>1 DEF Init
    <3>2. QED
      BY <2>2, <3>1 DEF Empty, StaleShows, PacketEmpty, FilesEmpty
  <2>5. QED
    BY <2>3, <2>4 DEF Owned
<1>2. ASSUME TInv, FilesInv, Owned, Empty, [Next]_vars
      PROVE  Owned' /\ Empty'
  <2>1. BatchOrder
    BY <1>2 DEF FilesInv
  <2>2. Owned'
    <3>1. CASE Manager
      BY <1>2, <2>1, <3>1, OwnManagerHandles, OwnManagerData DEF Manager
    <3>2. CASE Still
      BY <1>2, <3>2 DEF Owned, Own, ManagerOwns, EncoderOwns, LoggerOwns, Still
    <3>3. QED
      BY <1>2, <2>1, <3>1, <3>2, OwnOutside, OwnEncoder, OwnLogger, Steps
  <2>3. StaleShows'
    BY <1>2, HistoryStays DEF Empty, StaleShows
  <2>4. PacketEmpty'
    BY <1>2, PacketEmptyStep DEF Empty
  <2>5. FilesEmpty'
    BY <1>2, FilesEmptyStep DEF Empty
  <2>6. QED
    BY <2>2, <2>3, <2>4, <2>5 DEF Empty
<1>3. QED
  BY <1>1, <1>2, TInvariance, Invariance, PTL DEF Spec, GInv

-----------------------------------------------------------------------------
(* Sequences of numbers. *)

Increasing(s) == \A j, k \in DOMAIN s : j < k => s[j] < s[k]

\* The two parts of a sequence.
LEMMA ConcatParts ==
  ASSUME NEW a \in Seq(Nat), NEW b \in Seq(Nat)
  PROVE  /\ Len(a) \in Nat /\ Len(b) \in Nat
         /\ a \o b \in Seq(Nat) /\ Len(a \o b) = Len(a) + Len(b)
         /\ DOMAIN (a \o b) = 1 .. Len(a) + Len(b) /\ DOMAIN a = 1 .. Len(a)
         /\ \A i \in 1 .. Len(a) : (a \o b)[i] = a[i]
         /\ \A i \in Len(a) + 1 .. Len(a) + Len(b) : (a \o b)[i] = b[i - Len(a)]
<1> DEFINE s == a \o b
<1>1. /\ s \in Seq(Nat) /\ Len(s) = Len(a) + Len(b) /\ Len(a) \in Nat /\ Len(b) \in Nat
      /\ \A i \in 1 .. Len(a) + Len(b) : s[i] = IF i <= Len(a) THEN a[i] ELSE b[i - Len(a)]
      /\ DOMAIN a = 1 .. Len(a)
  BY ConcatProperties, LenProperties
<1> HIDE DEF s
<1>2. DOMAIN s = 1 .. Len(s)
  BY <1>1, LenProperties
<1>3. \A i \in 1 .. Len(a) : s[i] = a[i]
  BY <1>1
<1>4. \A i \in Len(a) + 1 .. Len(a) + Len(b) : s[i] = b[i - Len(a)]
  BY <1>1
<1>5. QED
  BY <1>1, <1>2, <1>3, <1>4 DEF s

\* What is left when the end is cut off.
LEMMA IncreasingFront ==
  ASSUME NEW a \in Seq(Nat), NEW b \in Seq(Nat), Increasing(a \o b)
  PROVE  Increasing(a)
<1> DEFINE s == a \o b
<1>1. /\ DOMAIN a = 1 .. Len(a) /\ DOMAIN s = 1 .. Len(a) + Len(b)
      /\ Len(a) \in Nat /\ Len(b) \in Nat
      /\ \A i \in 1 .. Len(a) : s[i] = a[i]
  BY ConcatParts
<1>2. Increasing(s)
  OBVIOUS
<1> HIDE DEF s
<1>3. \A i \in DOMAIN a : i \in DOMAIN s /\ s[i] = a[i]
  BY <1>1
<1>4. QED
  BY <1>2, <1>3 DEF Increasing

\* What is left when a part is taken out.
LEMMA IncreasingDrop ==
  ASSUME NEW a \in Seq(Nat), NEW b \in Seq(Nat), NEW c \in Seq(Nat), Increasing((a \o b) \o c)
  PROVE  Increasing(a \o c)
<1> DEFINE ab == a \o b
           s == ab \o c
           t == a \o c
           m(i) == IF i <= Len(a) THEN i ELSE i + Len(b)
<1>1. /\ Len(a) \in Nat /\ Len(b) \in Nat /\ Len(c) \in Nat
      /\ ab \in Seq(Nat) /\ Len(ab) = Len(a) + Len(b)
      /\ \A i \in 1 .. Len(a) : ab[i] = a[i]
      /\ DOMAIN t = 1 .. Len(a) + Len(c)
      /\ \A i \in 1 .. Len(a) : t[i] = a[i]
      /\ \A i \in Len(a) + 1 .. Len(a) + Len(c) : t[i] = c[i - Len(a)]
  BY ConcatParts
<1>2. Increasing(s)
  OBVIOUS
<1> HIDE DEF ab
<1>3. /\ DOMAIN s = 1 .. Len(ab) + Len(c)
      /\ \A i \in 1 .. Len(ab) : s[i] = ab[i]
      /\ \A i \in Len(ab) + 1 .. Len(ab) + Len(c) : s[i] = c[i - Len(ab)]
  BY <1>1, ConcatParts
<1> HIDE DEF s, t
<1>4. \A i \in DOMAIN t : m(i) \in DOMAIN s /\ t[i] = s[m(i)]
  <2>1. SUFFICES ASSUME NEW i \in 1 .. Len(a) + Len(c)
                 PROVE  m(i) \in DOMAIN s /\ t[i] = s[m(i)]
    BY <1>1
  <2>2. CASE i \in 1 .. Len(a)
    BY <1>1, <1>3, <2>2
  <2>3. CASE i \in Len(a) + 1 .. Len(a) + Len(c)
    <3>1. i + Len(b) \in Len(ab) + 1 .. Len(ab) + Len(c) /\ ~(i <= Len(a))
      BY <1>1, <2>3
    <3>2. s[i + Len(b)] = c[(i + Len(b)) - Len(ab)]
      BY <1>3, <3>1
    <3>3. (i + Len(b)) - Len(ab) = i - Len(a)
      BY <1>1, <2>3
    <3>4. t[i] = c[i - Len(a)]
      BY <1>1, <2>3
    <3>5. m(i) = i + Len(b) /\ i + Len(b) \in DOMAIN s
      BY <1>1, <1>3, <3>1
    <3>6. QED
      BY <3>2, <3>3, <3>4, <3>5
  <2>4. QED
    BY <1>1, <2>2, <2>3
<1>5. \A i, j \in DOMAIN t : i < j => m(i) < m(j)
  BY <1>1
<1> HIDE DEF m
<1>6. Increasing(t)
  BY <1>2, <1>4, <1>5 DEF Increasing
<1>7. QED
  BY <1>6 DEF t

\* A larger number can follow.
LEMMA IncreasingAppend ==
  ASSUME NEW n \in Nat, NEW s \in Seq(1 .. n), Increasing(s)
  PROVE  Increasing(Append(s, n + 1))
<1>0. s \in Seq(1 .. n + 1) /\ n + 1 \in 1 .. n + 1
  BY SeqGrow
<1> DEFINE r == Append(s, n + 1)
<1>1. /\ r \in Seq(1 .. n + 1) /\ Len(r) = Len(s) + 1
      /\ \A i \in 1 .. Len(s) : r[i] = s[i]
      /\ r[Len(s) + 1] = n + 1 /\ Len(s) \in Nat
  BY <1>0, AppendProperties, LenProperties
<1> HIDE DEF r
<1>2. DOMAIN r = 1 .. Len(s) + 1 /\ DOMAIN s = 1 .. Len(s)
  BY <1>1, LenProperties
<1>3. \A i \in 1 .. Len(s) : s[i] \in 1 .. n
  BY ElementOfSeq
<1>4. ASSUME NEW j \in DOMAIN r, NEW k \in DOMAIN r, j < k
      PROVE  r[j] < r[k]
  <2>1. j \in 1 .. Len(s) /\ r[j] = s[j] /\ s[j] \in 1 .. n
    BY <1>1, <1>2, <1>3, <1>4
  <2>2. CASE k \in 1 .. Len(s)
    BY <1>1, <1>2, <1>4, <2>1, <2>2 DEF Increasing
  <2>3. CASE k = Len(s) + 1
    BY <1>1, <2>1, <2>3
  <2>4. QED
    BY <1>1, <1>2, <2>2, <2>3
<1>5. QED
  BY <1>4 DEF r, Increasing

\* The data from 1 to n.
LEMMA CountAppend ==
  ASSUME NEW n \in Nat
  PROVE  Append([k \in 1 .. n |-> k], n + 1) = [k \in 1 .. n + 1 |-> k]
<1> DEFINE s == [k \in 1 .. n |-> k]
           r == [k \in 1 .. n + 1 |-> k]
<1>1. s \in Seq(Nat) /\ Len(s) = n /\ \A k \in 1 .. n : s[k] = k
  OBVIOUS
<1>2. r \in Seq(Nat) /\ Len(r) = n + 1 /\ \A k \in 1 .. n + 1 : r[k] = k
  OBVIOUS
<1> HIDE DEF s, r
<1>3. /\ Append(s, n + 1) \in Seq(Nat) /\ Len(Append(s, n + 1)) = n + 1
      /\ \A k \in 1 .. n : Append(s, n + 1)[k] = s[k]
      /\ Append(s, n + 1)[n + 1] = n + 1
  BY <1>1, AppendProperties
<1>4. \A k \in 1 .. n + 1 : Append(s, n + 1)[k] = r[k]
  BY <1>1, <1>2, <1>3
<1>5. Append(s, n + 1) = r
  BY <1>2, <1>3, <1>4, SeqEqual
<1>6. QED
  BY <1>5 DEF s, r

\* Joining a sequence and one that ends in x.
LEMMA ConcatAppend ==
  ASSUME NEW X, NEW a \in Seq(X), NEW b \in Seq(X), NEW x \in X
  PROVE  a \o Append(b, x) = Append(a \o b, x)
<1>1. <<x>> \in Seq(X)
  OBVIOUS
<1>2. Append(b, x) = b \o <<x>>
  BY AppendIsConcat
<1>3. a \o b \in Seq(X)
  BY ConcatProperties
<1> DEFINE ab == a \o b
           y == <<x>>
<1> HIDE DEF ab, y
<1>4. Append(ab, x) = ab \o y
  BY <1>3, AppendIsConcat DEF ab, y
<1>5. (a \o b) \o y = a \o (b \o y)
  BY <1>1, ConcatAssociative DEF y
<1>6. QED
  BY <1>2, <1>4, <1>5 DEF ab, y

-----------------------------------------------------------------------------
(* Where the data are. *)

\* Joining, as an operator that the proofs need not look into.
Cat(s, t) == s \o t

\* Joining stays within the set,
LEMMA CatTyped ==
  ASSUME NEW X, NEW s \in Seq(X), NEW t \in Seq(X)
  PROVE  Cat(s, t) \in Seq(X)
BY ConcatProperties DEF Cat

\* joining nothing changes nothing,
LEMMA CatEmpty ==
  ASSUME NEW X, NEW s \in Seq(X)
  PROVE  Cat(s, <<>>) = s /\ Cat(<<>>, s) = s
BY ConcatEmptySeq DEF Cat

\* The order of joining does not matter.
LEMMA CatMoves ==
  ASSUME NEW X, NEW s \in Seq(X), NEW t \in Seq(X), NEW u \in Seq(X)
  PROVE  Cat(Cat(s, t), u) = Cat(s, Cat(t, u))
BY ConcatAssociative DEF Cat

\* and what is appended to the second part is appended to the whole.
LEMMA CatAppend ==
  ASSUME NEW X, NEW s \in Seq(X), NEW t \in Seq(X), NEW x \in X
  PROVE  Cat(s, Append(t, x)) = Append(Cat(s, t), x)
BY ConcatAppend DEF Cat

\* Five parts joined from either end.
LEMMA Join5 ==
  ASSUME NEW X, NEW a \in Seq(X), NEW b \in Seq(X), NEW c \in Seq(X), NEW d \in Seq(X),
         NEW e \in Seq(X)
  PROVE  Cat(Cat(Cat(Cat(a, b), c), d), e) = Cat(a, Cat(b, Cat(c, Cat(d, e))))
<1>1. /\ Cat(a, b) \in Seq(X) /\ Cat(Cat(a, b), c) \in Seq(X) /\ Cat(d, e) \in Seq(X)
      /\ Cat(c, Cat(d, e)) \in Seq(X)
  BY CatTyped
<1>2. Cat(Cat(Cat(Cat(a, b), c), d), e) = Cat(Cat(Cat(a, b), c), Cat(d, e))
  BY <1>1, CatMoves
<1>3. Cat(Cat(Cat(a, b), c), Cat(d, e)) = Cat(Cat(a, b), Cat(c, Cat(d, e)))
  BY <1>1, CatMoves
<1>4. Cat(Cat(a, b), Cat(c, Cat(d, e))) = Cat(a, Cat(b, Cat(c, Cat(d, e))))
  BY <1>1, CatMoves
<1>5. QED
  BY <1>2, <1>3, <1>4

\* With the encoder, and with the manager.
Ahead == Cat(Cat(Sent, telemPacket), Unread)
Rest  == Cat(Waiting, Cat(Current, Cat(InHand, queue)))

All == Sent \o telemPacket \o Unread \o Waiting \o Current \o InHand \o queue

FilesOf(q) == [k \in DOMAIN q |-> file[q[k]]]

\* The files of a queue of batches are as many sequences of data.
LEMMA FilesOfTyped ==
  ASSUME TInv, NEW q \in Seq(Batches)
  PROVE  FilesOf(q) \in Seq(Seq(1 .. added)) /\ Len(FilesOf(q)) = Len(q)
<1>1. DOMAIN q = 1 .. Len(q) /\ Len(q) \in Nat
  BY LenProperties
<1>2. \A k \in 1 .. Len(q) : file[q[k]] \in Seq(1 .. added)
  <2>1. \A k \in 1 .. Len(q) : q[k] \in Batches
    BY ElementOfSeq
  <2>2. QED
    BY <2>1 DEF TInv, Pieces
<1>3. QED
  BY <1>1, <1>2 DEF FilesOf

\* What is left of the batch the encoder reads, by its place.
LEMMA UnreadIs ==
  /\ enc = "open" => Unread = file[encBatch]
  /\ enc = "read" => Unread = SubSeq(file[encBatch], handle[fd].pos + 1, Len(file[encBatch]))
  /\ enc \notin {"open", "read"} => Unread = <<>>
BY DEF Unread

\* The places where data can be hold data that were added;
LEMMA PiecesTyped ==
  ASSUME TInv, Own
  PROVE  /\ Sent \in Seq(1 .. added) /\ telemPacket \in Seq(1 .. added)
         /\ Unread \in Seq(1 .. added)
         /\ Waiting \in Seq(1 .. added) /\ Current \in Seq(1 .. added)
         /\ InHand \in Seq(1 .. added) /\ queue \in Seq(1 .. added)
<1>0. <<>> \in Seq(1 .. added) /\ added \in Nat
  BY EmptySeq DEF TInv, TypeFiles
<1>1. Sent \in Seq(1 .. added)
  BY FlattenType DEF Sent, TInv, Pieces
<1>2. telemPacket \in Seq(1 .. added) /\ queue \in Seq(1 .. added)
  BY DEF TInv, TypeFiles, Pieces
<1>3. Unread \in Seq(1 .. added)
  <2>0. file[encBatch] \in Seq(1 .. added)
    BY DEF TInv, Pieces
  <2>1. CASE enc = "open"
    BY <2>0, <2>1, UnreadIs
  <2>2. CASE enc = "read"
    <3> DEFINE s == file[encBatch]
               p == handle[fd].pos
    <3>1. p \in Nat /\ Len(s) \in Nat /\ \A i \in 1 .. Len(s) : s[i] \in 1 .. added
      <4>1. fd \in Handles /\ handle[fd] # Closed
        BY <2>2 DEF Own, EncoderOwns, Closed
      <4>2. handle[fd] \in OpenStates
        BY <4>1 DEF TInv, Pieces
      <4>3. QED
        BY <2>0, <4>2, LenProperties, ElementOfSeq DEF OpenStates
    <3>2. Unread = SubSeq(s, p + 1, Len(s))
      BY <2>2, UnreadIs
    <3> HIDE DEF s, p
    <3>3. \A i \in p + 1 .. Len(s) : s[i] \in 1 .. added
      BY <3>1
    <3>4. SubSeq(s, p + 1, Len(s)) \in Seq(1 .. added)
      BY <3>1, <3>3, SubSeqProperties
    <3>5. QED
      BY <3>2, <3>4
  <2>3. CASE enc \notin {"open", "read"}
    BY <1>0, <2>3, UnreadIs
  <2>4. QED
    BY <2>1, <2>2, <2>3
<1>4. Waiting \in Seq(1 .. added)
  <2>1. FilesOf(encodeQueue) \in Seq(Seq(1 .. added))
    BY FilesOfTyped DEF TInv, TypeFiles
  <2>2. QED
    BY <2>1, FlattenType DEF Waiting, FilesOf
<1>5. Current \in Seq(1 .. added)
  BY <1>0 DEF Current, TInv, Pieces
<1>6. InHand \in Seq(1 .. added)
  <2>1. CASE mgr = "write"
    <3>1. datum \in 1 .. added
      BY <2>1 DEF TInv, Pieces
    <3>2. <<datum>> \in Seq(1 .. added)
      BY <3>1
    <3>3. QED
      BY <2>1, <3>2 DEF InHand
  <2>2. CASE mgr # "write"
    BY <1>0, <2>2 DEF InHand
  <2>3. QED
    BY <2>1, <2>2
<1>7. QED
  BY <1>1, <1>2, <1>3, <1>4, <1>5, <1>6

\* so do their two halves,
LEMMA FrontRestTyped ==
  ASSUME TInv, Own
  PROVE  Ahead \in Seq(1 .. added) /\ Rest \in Seq(1 .. added)
<1>1. /\ Sent \in Seq(1 .. added) /\ telemPacket \in Seq(1 .. added)
      /\ Unread \in Seq(1 .. added)
      /\ Waiting \in Seq(1 .. added) /\ Current \in Seq(1 .. added)
      /\ InHand \in Seq(1 .. added) /\ queue \in Seq(1 .. added)
  BY PiecesTyped
<1>2. Ahead \in Seq(1 .. added)
  <2>1. Cat(Sent, telemPacket) \in Seq(1 .. added)
    BY <1>1, CatTyped
  <2>2. QED
    BY <1>1, <2>1, CatTyped DEF Ahead
<1>3. Rest \in Seq(1 .. added)
  <2>1. Cat(InHand, queue) \in Seq(1 .. added)
    BY <1>1, CatTyped
  <2>2. Cat(Current, Cat(InHand, queue)) \in Seq(1 .. added)
    BY <1>1, <2>1, CatTyped
  <2>3. QED
    BY <1>1, <2>2, CatTyped DEF Rest
<1>4. QED
  BY <1>2, <1>3

\* which make up the whole.
LEMMA AllSplit ==
  ASSUME TInv, Own
  PROVE  All = Cat(Ahead, Rest)
<1>1. /\ Ahead \in Seq(1 .. added)
      /\ Waiting \in Seq(1 .. added) /\ Current \in Seq(1 .. added)
      /\ InHand \in Seq(1 .. added) /\ queue \in Seq(1 .. added)
  BY PiecesTyped, FrontRestTyped
<1>2. All = Cat(Cat(Cat(Cat(Ahead, Waiting), Current), InHand), queue)
  BY Zenon DEF All, Ahead, Cat
<1>3. Cat(Cat(Cat(Cat(Ahead, Waiting), Current), InHand), queue) = Cat(Ahead, Rest)
  BY <1>1, Join5 DEF Rest
<1>4. QED
  BY <1>2, <1>3

\* Data are numbers.
LEMMA SeqNat ==
  ASSUME NEW n \in Nat
  PROVE  \A s : s \in Seq(1 .. n) => s \in Seq(Nat)
<1>1. 1 .. n \subseteq Nat
  OBVIOUS
<1>2. QED
  BY <1>1, SeqMonotonic

\* What was added and not dropped.
Total == Cat(Ahead, Rest)

\* Where nothing is touched, nothing moves.
LEMMA RestStays ==
  ASSUME UNCHANGED <<encodeQueue, file, telemetryBatchId, mgr, datum, queue>>
  PROVE  Rest' = Rest
BY DEF Rest, Waiting, Current, InHand

\* The encoder's half changes only with its own variables and the file it reads.
LEMMA FrontStays ==
  ASSUME UNCHANGED <<sent, telemPacket, enc, encBatch, fd>>,
         enc \in {"open", "read"} => file'[encBatch] = file[encBatch],
         enc = "read" => handle'[fd] = handle[fd]
  PROVE  Ahead' = Ahead
<1>1. Sent' = Sent
  BY DEF Sent
<1>2. Unread' = Unread
  <2>1. CASE enc = "open"
    BY <2>1, UnreadIs DEF Unread
  <2>2. CASE enc = "read"
    BY <2>2, UnreadIs DEF Unread
  <2>3. CASE enc \notin {"open", "read"}
    BY <2>3, UnreadIs DEF Unread
  <2>4. QED
    BY <2>1, <2>2, <2>3
<1>3. QED
  BY <1>1, <1>2 DEF Ahead

\* The encoder opens the file it was told of: all of it is to be read.
LEMMA FrontOpens ==
  ASSUME TInv, Empty, OpenBatch, OpenSucceeds(encBatch, "r"), fd' = NextHandle,
         telemPacket' = <<>>, enc' = "read"
  PROVE  Ahead' = Ahead
<1>1. /\ UNCHANGED <<sent, encBatch, file>> /\ enc = "open" /\ telemPacket = <<>>
  BY DEF OpenBatch, notEnc, Empty, PacketEmpty
<1>2. handle'[fd'].pos = 0
  <2>1. handle'[NextHandle] = Open(encBatch, "r")
    BY OpensTyped DEF TInv, Pieces
  <2>2. QED
    BY <2>1 DEF Open
<1>3. Unread = file[encBatch] /\ Unread' = SubSeq(file[encBatch], 0 + 1, Len(file[encBatch]))
  BY <1>1, <1>2, UnreadIs DEF Unread
<1>4. file[encBatch] \in Seq(1 .. added)
  BY DEF TInv, Pieces
<1>5. SubSeq(file[encBatch], 0 + 1, Len(file[encBatch])) = file[encBatch]
  <2>1. SubSeq(file[encBatch], 1, Len(file[encBatch])) = file[encBatch]
    BY <1>4, SubSeqFull
  <2>2. QED
    BY <2>1
<1>6. Unread' = Unread /\ Sent' = Sent
  BY <1>1, <1>3, <1>5 DEF Sent
<1>7. QED
  BY <1>1, <1>6 DEF Ahead

\* A datum goes from the file to the packet.
LEMMA FrontReads ==
  ASSUME TInv, Own, ReadDatum
  PROVE  Ahead' = Ahead
<1> DEFINE X == 1 .. added
           s == file[encBatch]
           p == handle[fd].pos
           d == s[p + 1]
           u == SubSeq(s, (p + 1) + 1, Len(s))
<1>0. /\ UNCHANGED <<enc, fd, encBatch, file>> /\ enc = "read" /\ IsOpen(fd) /\ ~AtEnd(fd)
      /\ Pack(NextDatum) /\ handle' = [handle EXCEPT ![fd].pos = @ + 1]
  BY DEF ReadDatum, notEnc
<1>1. handle[fd].of = encBatch /\ fd \in Handles
  BY <1>0 DEF Own, EncoderOwns
<1>2. /\ p \in Nat /\ p + 1 \in 1 .. Len(s) /\ Contents(fd) = s /\ NextDatum \in X
  BY <1>0, <1>1, ReadsData
<1>3. s \in Seq(X)
  BY DEF TInv, Pieces
<1>4. NextDatum = d
  BY <1>2 DEF NextDatum
<1>5. handle'[fd].pos = p + 1
  <2>1. handle[fd] \in OpenStates /\ handle \in [Handles -> {Closed} \cup OpenStates]
    BY <1>0, <1>1 DEF IsOpen, TInv, Pieces
  <2>2. QED
    BY <1>0, <1>1, <2>1 DEF OpenStates
<1>6. Unread = SubSeq(s, p + 1, Len(s)) /\ Unread' = u
  <2>1. Unread = SubSeq(s, p + 1, Len(s))
    BY <1>0, UnreadIs
  <2>2. Unread' = SubSeq(file'[encBatch'], handle'[fd'].pos + 1, Len(file'[encBatch']))
    BY <1>0 DEF Unread
  <2>3. QED
    BY <1>0, <1>5, <2>1, <2>2
<1> HIDE DEF s, p, u, X
<1>7. Unread = Cat(<<d>>, Unread')
  <2>1. Len(s) \in p + 1 .. Len(s)
    BY <1>2
  <2>2. SubSeq(s, p + 1, Len(s)) = <<s[p + 1]>> \o SubSeq(s, (p + 1) + 1, Len(s))
    BY <1>2, <1>3, <2>1, SubSeqRecursiveFirst
  <2>3. QED
    BY <1>6, <2>2 DEF Cat, u
<1> HIDE DEF d
<1>8. Sent \in Seq(X) /\ telemPacket \in Seq(X) /\ d \in X /\ <<d>> \in Seq(X) /\ sent \in Seq(Seq(X))
  BY <1>2, <1>4, PiecesTyped DEF X, TInv, Pieces
<1>9. Cat(Sent', telemPacket') = Cat(Cat(Sent, telemPacket), <<d>>)
  <2>1. CASE Len(telemPacket) + 1 > PacketItems
    <3>1. sent' = Append(sent, telemPacket) /\ telemPacket' = <<d>>
      BY <1>0, <1>4, <2>1 DEF Pack
    <3>2. FlattenSeq(Append(sent, telemPacket)) = FlattenSeq(sent) \o telemPacket
      BY <1>8, FlattenAppend
    <3>3. Sent' = Cat(Sent, telemPacket)
      BY <3>1, <3>2 DEF Sent, Cat
    <3>4. QED
      BY <3>1, <3>3
  <2>2. CASE ~(Len(telemPacket) + 1 > PacketItems)
    <3>1. sent' = sent /\ telemPacket' = Append(telemPacket, d)
      BY <1>0, <1>4, <2>2 DEF Pack
    <3>2. telemPacket' = Cat(telemPacket, <<d>>)
      BY <1>8, <3>1, AppendIsConcat DEF Cat
    <3>3. Sent' = Sent
      BY <3>1 DEF Sent
    <3>4. \A y \in Seq(X) : Cat(Cat(Sent, telemPacket), y) = Cat(Sent, Cat(telemPacket, y))
      BY <1>8, CatMoves
    <3>5. QED
      BY <1>8, <3>2, <3>3, <3>4
  <2>3. QED
    BY <2>1, <2>2
<1>10. Unread' \in Seq(X)
  <2>1. \A i \in (p + 1) + 1 .. Len(s) : s[i] \in X
    BY <1>2, <1>3, ElementOfSeq
  <2>2. Len(s) \in Nat
    BY <1>3, LenProperties
  <2>3. SubSeq(s, (p + 1) + 1, Len(s)) \in Seq(X)
    BY <1>2, <2>1, <2>2, SubSeqProperties
  <2>4. QED
    BY <1>6, <2>3 DEF u
<1>11. Cat(Cat(Cat(Sent, telemPacket), <<d>>), Unread') = Cat(Cat(Sent, telemPacket), Cat(<<d>>, Unread'))
  <2>1. Cat(Sent, telemPacket) \in Seq(X)
    BY <1>8, CatTyped
  <2>2. \A y, z \in Seq(X) :
          Cat(Cat(Cat(Sent, telemPacket), y), z) = Cat(Cat(Sent, telemPacket), Cat(y, z))
    BY <2>1, CatMoves
  <2>3. QED
    BY <1>8, <1>10, <2>2
<1>12. QED
  BY <1>7, <1>9, <1>11 DEF Ahead

\* At the end of the file nothing is to be read, and the last packet is sent.
LEMMA FrontEnds ==
  ASSUME TInv, Own, EndOfFile
  PROVE  Ahead' = Ahead
<1> DEFINE X == 1 .. added
<1>0. /\ enc = "read" /\ AtEnd(fd) /\ IsOpen(fd) /\ enc' \in {"close", "end"} /\ telemPacket' = <<>>
      /\ \/ telemPacket # <<>> /\ sent' = Append(sent, telemPacket)
         \/ telemPacket = <<>> /\ sent' = sent
  BY DEF EndOfFile
<1>1. Unread = <<>>
  <2>1. fd \in Handles /\ handle[fd].of = encBatch
    BY <1>0 DEF Own, EncoderOwns
  <2>2. encBatch # LogFile /\ file[encBatch] \in Seq(X) /\ handle[fd].pos \in Nat
    <3>1. handle[fd] \in OpenStates
      BY <1>0, <2>1 DEF IsOpen, TInv, Pieces
    <3>2. QED
      BY <3>1, FilesAssumption DEF OpenStates, TInv, Pieces, LogFile, Batches
  <2>3. handle[fd].pos >= Len(file[encBatch])
    BY <1>0, <2>1, <2>2 DEF AtEnd, Contents
  <2>4. Len(file[encBatch]) \in Nat
    BY <2>2, LenProperties
  <2>5. SubSeq(file[encBatch], handle[fd].pos + 1, Len(file[encBatch])) = <<>>
    BY <2>2, <2>3, <2>4, SubSeqEmpty
  <2>6. QED
    BY <1>0, <2>5, UnreadIs
<1>2. Unread' = <<>>
  BY <1>0 DEF Unread
<1>3. Sent \in Seq(X) /\ telemPacket \in Seq(X) /\ sent \in Seq(Seq(X))
  BY PiecesTyped DEF TInv, Pieces
<1> HIDE DEF X
<1>4. Cat(Sent', telemPacket') = Cat(Sent, telemPacket)
  <2>1. CASE telemPacket # <<>>
    <3>1. FlattenSeq(Append(sent, telemPacket)) = FlattenSeq(sent) \o telemPacket
      BY <1>3, FlattenAppend
    <3>2. Sent' = Cat(Sent, telemPacket)
      BY <1>0, <2>1, <3>1 DEF Sent, Cat
    <3>3. Cat(Sent, telemPacket) \in Seq(X)
      BY <1>3, CatTyped
    <3>4. QED
      BY <1>0, <3>2, <3>3, CatEmpty
  <2>2. CASE telemPacket = <<>>
    <3>1. sent' = sent
      BY <1>0, <2>2
    <3>2. Sent' = Sent
      BY <3>1 DEF Sent
    <3>3. QED
      BY <1>0, <2>2, <3>2
  <2>3. QED
    BY <2>1, <2>2
<1>5. QED
  BY <1>1, <1>2, <1>4 DEF Ahead

\* Taking a part out of the middle keeps the order.
LEMMA CatDrops ==
  ASSUME NEW n \in Nat, NEW a \in Seq(1 .. n), NEW b \in Seq(1 .. n), NEW c \in Seq(1 .. n),
         Increasing(Cat(Cat(a, b), c))
  PROVE  Increasing(Cat(a, c))
<1>1. a \in Seq(Nat) /\ b \in Seq(Nat) /\ c \in Seq(Nat)
  BY SeqNat
<1>2. Increasing((a \o b) \o c)
  BY DEF Cat
<1>3. Increasing(a \o c)
  BY <1>1, <1>2, IncreasingDrop
<1>4. QED
  BY <1>3 DEF Cat

\* What the encoder has of a batch is dropped.
LEMMA FrontDrops ==
  ASSUME TInv, Own, sent' = sent, telemPacket' = <<>>, Unread' = <<>>, Rest' = Rest,
         Increasing(Total)
  PROVE  Increasing(Total')
<1> DEFINE X == 1 .. added
<1>1. Sent' = Sent
  BY DEF Sent
<1>2. Sent \in Seq(X) /\ telemPacket \in Seq(X) /\ Unread \in Seq(X) /\ Rest \in Seq(X) /\ added \in Nat
  BY PiecesTyped, FrontRestTyped DEF TInv, TypeFiles
<1> HIDE DEF X
<1>3. Ahead = Cat(Sent, Cat(telemPacket, Unread)) /\ Cat(telemPacket, Unread) \in Seq(X)
  BY <1>2, CatMoves, CatTyped DEF Ahead
<1>4. Ahead' = Sent
  <2>1. Cat(Cat(Sent, <<>>), <<>>) = Sent
    BY <1>2, CatEmpty
  <2>2. QED
    BY <1>1, <2>1 DEF Ahead
<1>5. Increasing(Cat(Cat(Sent, Cat(telemPacket, Unread)), Rest))
  BY <1>3 DEF Total
<1>6. Increasing(Cat(Sent, Rest))
  BY <1>2, <1>3, <1>5, CatDrops DEF X
<1>7. QED
  BY <1>4, <1>6 DEF Total

\* The encoder takes the first of the files that wait for it.
LEMMA BatchReceived ==
  ASSUME TInv, Own, Empty, ReceiveBatch
  PROVE  Total' = Total
<1> DEFINE X == 1 .. added
           m == FilesOf(encodeQueue)
           q == encodeQueue
<1>0. /\ UNCHANGED <<sent, telemPacket, file, telemetryBatchId, mgr, datum, queue>>
      /\ enc = "idle" /\ q # <<>> /\ encBatch' = Head(q) /\ encodeQueue' = Tail(q)
      /\ enc' = "open"
  BY DEF ReceiveBatch, notEnc, mgrVars, queueVars
<1>1. telemPacket = <<>>
  BY <1>0 DEF Empty, PacketEmpty
<1>2. Unread = <<>> /\ Unread' = file[Head(q)]
  BY <1>0 DEF Unread
<1>3. /\ q \in Seq(Batches) /\ Head(q) \in Batches /\ Tail(q) \in Seq(Batches)
      /\ m \in Seq(Seq(X)) /\ Len(m) = Len(q)
      /\ FilesOf(Tail(q)) \in Seq(Seq(X)) /\ Len(FilesOf(Tail(q))) = Len(Tail(q))
      /\ Len(q) \in Nat /\ Len(Tail(q)) = Len(q) - 1
      /\ \A i \in 1 .. Len(Tail(q)) : Tail(q)[i] = q[i + 1]
  <2>1. q \in Seq(Batches)
    BY DEF TInv, TypeFiles
  <2> HIDE DEF m, q
  <2>2. /\ Head(q) \in Batches /\ Tail(q) \in Seq(Batches) /\ Len(q) \in Nat
        /\ Len(Tail(q)) = Len(q) - 1 /\ \A i \in 1 .. Len(Tail(q)) : Tail(q)[i] = q[i + 1]
    BY <1>0, <2>1, HeadTailProperties, LenProperties
  <2>3. FilesOf(Tail(q)) \in Seq(Seq(X)) /\ Len(FilesOf(Tail(q))) = Len(Tail(q))
    BY <2>2, FilesOfTyped
  <2>4. QED
    BY <2>1, <2>2, <2>3, FilesOfTyped DEF m, q
<1>4. m # <<>>
  BY <1>0, <1>3, EmptySeq
<1>5. \A k \in 1 .. Len(q) : m[k] = file[q[k]]
  BY <1>3, LenProperties DEF FilesOf
<1>6. \A k \in 1 .. Len(Tail(q)) : FilesOf(Tail(q))[k] = file[Tail(q)[k]]
  BY <1>3, LenProperties DEF FilesOf
<1>7. Waiting = FlattenSeq(m) /\ Waiting' = FlattenSeq(FilesOf(Tail(q)))
  <2>1. Waiting' = FlattenSeq([k \in DOMAIN Tail(q) |-> file[Tail(q)[k]]])
    BY <1>0 DEF Waiting
  <2>2. QED
    BY <2>1 DEF Waiting, FilesOf
<1> HIDE DEF m, q, X
<1>8. Head(m) = file[Head(q)] /\ Tail(m) = FilesOf(Tail(q))
  <2>1. 1 \in 1 .. Len(q) /\ Head(m) = m[1] /\ Head(q) = q[1]
    BY <1>0, <1>3, EmptySeq
  <2>2. /\ Tail(m) \in Seq(Seq(X)) /\ Len(Tail(m)) = Len(m) - 1
        /\ \A i \in 1 .. Len(Tail(m)) : Tail(m)[i] = m[i + 1]
    BY <1>3, <1>4, HeadTailProperties
  <2>3. ASSUME NEW i \in 1 .. Len(Tail(m))
        PROVE  Tail(m)[i] = FilesOf(Tail(q))[i]
    <3>1. Tail(m)[i] = m[i + 1] /\ i + 1 \in 1 .. Len(q) /\ i \in 1 .. Len(Tail(q))
      BY <1>3, <2>2
    <3>2. m[i + 1] = file[q[i + 1]]
      BY <1>5, <3>1
    <3>3. FilesOf(Tail(q))[i] = file[Tail(q)[i]] /\ Tail(q)[i] = q[i + 1]
      BY <1>3, <1>6, <3>1
    <3>4. QED
      BY <3>1, <3>2, <3>3
  <2>4. Tail(m) = FilesOf(Tail(q))
    BY <1>3, <2>2, <2>3, SeqEqual
  <2>5. QED
    BY <1>5, <2>1, <2>4
<1>9. Waiting = Cat(file[Head(q)], Waiting')
  <2>1. FlattenSeq(m) = Head(m) \o FlattenSeq(Tail(m))
    BY <1>3, <1>4, FlattenTail
  <2>2. QED
    BY <1>7, <1>8, <2>1 DEF Cat
<1> DEFINE f == file[Head(q)]
           ciq == Cat(Current, Cat(InHand, queue))
<1>10. ciq' = ciq
  BY <1>0 DEF Current, InHand
<1>11. /\ Sent \in Seq(X) /\ f \in Seq(X) /\ ciq \in Seq(X) /\ Waiting' \in Seq(X)
  <2>1. Sent \in Seq(X) /\ Current \in Seq(X) /\ InHand \in Seq(X) /\ queue \in Seq(X)
    BY PiecesTyped DEF X
  <2>2. f \in Seq(X)
    BY <1>3 DEF X, TInv, Pieces
  <2>3. Cat(InHand, queue) \in Seq(X)
    BY <2>1, CatTyped
  <2>4. ciq \in Seq(X)
    BY <2>1, <2>3, CatTyped
  <2>5. Waiting' \in Seq(X)
    BY <1>3, <1>7, FlattenType
  <2>6. QED
    BY <2>1, <2>2, <2>4, <2>5
<1>12. Sent' = Sent
  BY <1>0 DEF Sent
<1>13. Ahead = Sent /\ Ahead' = Cat(Sent, f)
  <2>1. Cat(Cat(Sent, <<>>), <<>>) = Sent /\ Cat(Sent, <<>>) = Sent
    BY <1>11, CatEmpty
  <2>2. QED
    BY <1>0, <1>1, <1>2, <1>12, <2>1 DEF Ahead, q
<1>14. Rest = Cat(Cat(f, Waiting'), ciq) /\ Rest' = Cat(Waiting', ciq)
  BY <1>9, <1>10 DEF Rest
<1> HIDE DEF f, ciq
<1>15. Cat(Cat(f, Waiting'), ciq) = Cat(f, Cat(Waiting', ciq)) /\ Cat(Waiting', ciq) \in Seq(X)
  BY <1>11, CatMoves, CatTyped
<1>16. Cat(Cat(Sent, f), Cat(Waiting', ciq)) = Cat(Sent, Cat(f, Cat(Waiting', ciq)))
  BY <1>11, <1>15, CatMoves
<1>17. QED
  BY <1>13, <1>14, <1>15, <1>16 DEF Total

\* What a step does to the data on their way, in order: nothing, or it drops some and shows it.
Flows ==
  /\ added' = added
  /\ Total' = Total \/ (unreadable' /\ (Increasing(Total) => Increasing(Total')))

\* Every step of the encoder moves data on, or drops some and leaves a trace of it;
LEMMA EncoderFlows ==
  ASSUME TInv, Own, Empty, Packing
  PROVE  Flows
<1>0. UNCHANGED <<added, file, telemetryBatchId, mgr, datum, queue>>
  BY DEF Packing, ReceiveBatch, OpenBatch, ReadDatum, ReadFails, EndOfFile, CloseBatch,
         EndDownlink, notEnc, mgrVars, queueVars
<1>1. CASE ReceiveBatch
  BY <1>0, <1>1, BatchReceived DEF Flows
<1>2. CASE ~ReceiveBatch
  <2>1. Rest' = Rest
    <3>1. encodeQueue' = encodeQueue
      BY <1>2 DEF Packing, OpenBatch, ReadDatum, ReadFails, EndOfFile, CloseBatch, EndDownlink
    <3>2. QED
      BY <1>0, <3>1, RestStays
  <2>2. Ahead' = Ahead => Flows
    BY <1>0, <2>1 DEF Total, Flows
  <2>3. ASSUME sent' = sent, telemPacket' = <<>>, enc' = "end", unreadable'
        PROVE  Flows
    <3>1. Unread' = <<>>
      BY <2>3 DEF Unread
    <3>2. Increasing(Total) => Increasing(Total')
      BY <2>1, <2>3, <3>1, FrontDrops
    <3>3. QED
      BY <1>0, <2>3, <3>2 DEF Flows
  <2>4. CASE OpenBatch
    <3>1. CASE OpenSucceeds(encBatch, "r") /\ fd' = NextHandle /\ telemPacket' = <<>> /\ enc' = "read"
      BY <2>2, <2>4, <3>1, FrontOpens
    <3>2. CASE OpenFails /\ enc' = "end" /\ UNCHANGED <<fd, telemPacket>>
      <4>1. telemPacket = <<>> /\ sent' = sent
        BY <2>4 DEF OpenBatch, Empty, PacketEmpty
      <4>2. unreadable'
        BY <3>2 DEF OpenFails, Fault, Failed
      <4>3. QED
        BY <2>3, <3>2, <4>1, <4>2
    <3>3. QED
      BY <2>4, <3>1, <3>2 DEF OpenBatch
  <2>5. CASE ReadDatum
    BY <2>2, <2>5, FrontReads
  <2>6. CASE ReadFails
    <3>1. sent' = sent /\ telemPacket' = <<>> /\ enc' = "end"
      BY <2>6 DEF ReadFails
    <3>2. unreadable'
      BY <2>6 DEF ReadFails, Fault, Failed
    <3>3. QED
      BY <2>3, <3>1, <3>2
  <2>7. CASE EndOfFile
    BY <2>2, <2>7, FrontEnds
  <2>8. CASE CloseBatch \/ EndDownlink
    <3>1. /\ UNCHANGED <<sent, telemPacket>> /\ enc \in {"close", "end"} /\ enc' \in {"end", "idle"}
      BY <2>8 DEF CloseBatch, EndDownlink
    <3>2. Unread = <<>> /\ Unread' = <<>> /\ Sent' = Sent
      BY <3>1 DEF Unread, Sent
    <3>3. QED
      BY <2>2, <3>1, <3>2 DEF Ahead
  <2>9. QED
    BY <1>2, <2>4, <2>5, <2>6, <2>7, <2>8 DEF Packing
<1>3. QED
  BY <1>1, <1>2

\* What the manager and the logger do to the handles of others is nothing.
LEMMA FrontKept ==
  ASSUME TInv, BatchOrder, Own, UNCHANGED <<sent, telemPacket, enc, encBatch, fd, file>>,
         \/ handle' = handle
         \/ \E f \in Batches \cup {LogFile}, m \in {"r", "rw", "w"} : OpenSucceeds(f, m)
         \/ mgr \in {"closeNew", "close"} /\ CloseHandle(telemetryFileId)
         \/ log = "close" /\ CloseHandle(logFd)
  PROVE  Ahead' = Ahead
<1>1. handle \in [Handles -> {Closed} \cup OpenStates]
  BY DEF TInv, Pieces
<1>2. ASSUME enc = "read"
      PROVE  handle'[fd] = handle[fd]
  <2>1. /\ fd \in Handles /\ handle[fd] # Closed
        /\ mgr \in {"closeNew", "close"} => telemetryFileId # fd
        /\ log = "close" => fd # logFd
    BY <1>2, Distinct
  <2>2. CASE \E f \in Batches \cup {LogFile}, m \in {"r", "rw", "w"} : OpenSucceeds(f, m)
    BY <1>1, <2>1, <2>2, OpensTyped
  <2>3. CASE mgr \in {"closeNew", "close"} /\ CloseHandle(telemetryFileId)
    BY <1>1, <2>1, <2>3, ClosesTyped
  <2>4. CASE log = "close" /\ CloseHandle(logFd)
    BY <1>1, <2>1, <2>4, ClosesTyped
  <2>5. QED
    BY <2>2, <2>3, <2>4
<1>3. QED
  BY <1>2, FrontStays

\* the logger touches none of them,
LEMMA LoggerFlows ==
  ASSUME TInv, BatchOrder, Own, Logger
  PROVE  Flows
<1>0. UNCHANGED <<added, file, telemetryBatchId, mgr, datum, queue, encodeQueue, sent,
                  telemPacket, enc, encBatch, fd>>
  BY DEF Logger, OpenLog, WriteLog, CloseLog, notLog, mgrVars, queueVars, encVars
<1>1. \/ handle' = handle
      \/ OpenSucceeds(LogFile, "w")
      \/ log = "close" /\ CloseHandle(logFd)
  BY FailsTyped DEF Logger, OpenLog, WriteLog, CloseLog
<1>2. Ahead' = Ahead
  BY <1>0, <1>1, FrontKept
<1>3. Rest' = Rest
  BY <1>0, RestStays
<1>4. QED
  BY <1>0, <1>2, <1>3 DEF Total, Flows

\* nor do the opens and closes of the manager;
LEMMA ManagerHandlesFlow ==
  ASSUME TInv, BatchOrder, Own, CreateFile \/ CloseNewFile \/ OpenFile \/ CloseFile \/ Check
  PROVE  Flows
<1>0. UNCHANGED <<added, file, telemetryBatchId, datum, queue, encodeQueue, sent,
                  telemPacket, enc, encBatch, fd>>
  BY DEF CreateFile, CloseNewFile, OpenFile, CloseFile, Check, others, queueVars, encVars, fsVars
<1>1. \/ handle' = handle
      \/ OpenSucceeds(telemetryBatchId, "r") \/ OpenSucceeds(telemetryBatchId, "rw")
      \/ mgr \in {"closeNew", "close"} /\ CloseHandle(telemetryFileId)
  BY FailsTyped DEF CreateFile, CloseNewFile, OpenFile, CloseFile, Check, fsVars
<1>2. Ahead' = Ahead
  BY <1>0, <1>1, BatchNow, FrontKept
<1>3. Rest' = Rest
  <2>1. mgr # "write" /\ mgr' # "write"
    BY DEF CreateFile, CloseNewFile, OpenFile, CloseFile, Check
  <2>2. QED
    BY <1>0, <2>1 DEF Rest, Waiting, Current, InHand
<1>4. QED
  BY <1>0, <1>2, <1>3 DEF Total, Flows

\* a receive moves one from the queue to its hand;
LEMMA ReceiveFlows ==
  ASSUME TInv, BatchOrder, Own, Receive
  PROVE  Flows
<1>0. /\ UNCHANGED <<added, file, handle, telemetryBatchId, encodeQueue, sent,
                     telemPacket, enc, encBatch, fd>>
      /\ mgr = "receive"
  BY DEF Receive, others, encVars, fsVars
<1>1. Ahead' = Ahead
  BY <1>0, FrontKept
<1>2. Cat(InHand', queue') = Cat(InHand, queue)
  <2>1. CASE queue # <<>>
    <3>1. datum' = Head(queue) /\ queue' = Tail(queue) /\ mgr' = "write"
      BY <2>1 DEF Receive
    <3>2. InHand' = <<Head(queue)>> /\ InHand = <<>>
      BY <1>0, <3>1 DEF InHand
    <3>3. queue \in Seq(1 .. added)
      BY DEF TInv, TypeFiles
    <3>4. Cat(<<>>, queue) = queue
      BY <3>3, CatEmpty
    <3>5. <<Head(queue)>> \o Tail(queue) = queue
      <4>1. Len(queue) \in 1 .. Len(queue) /\ 1 \in 1 .. Len(queue)
        BY <2>1, <3>3, EmptySeq
      <4>2. SubSeq(queue, 1, Len(queue)) = <<queue[1]>> \o SubSeq(queue, 1 + 1, Len(queue))
        BY <3>3, <4>1, SubSeqRecursiveFirst
      <4>3. SubSeq(queue, 1, Len(queue)) = queue
        BY <3>3, SubSeqFull
      <4>4. Tail(queue) = SubSeq(queue, 1 + 1, Len(queue))
        BY <2>1, <3>3, TailIsSubSeq
      <4>5. Head(queue) = queue[1]
        BY <2>1, <3>3
      <4>6. QED
        BY <4>2, <4>3, <4>4, <4>5
    <3>6. QED
      BY <3>1, <3>2, <3>4, <3>5 DEF Cat
  <2>2. CASE queue = <<>>
    <3>1. queue' = queue /\ mgr' = "check"
      BY <2>2 DEF Receive
    <3>2. QED
      BY <1>0, <3>1 DEF InHand
  <2>3. QED
    BY <2>1, <2>2
<1>3. Waiting' = Waiting /\ Current' = Current
  BY <1>0 DEF Waiting, Current
<1>4. Rest' = Rest
  BY <1>2, <1>3 DEF Rest
<1>5. QED
  BY <1>0, <1>1, <1>4 DEF Total, Flows

\* The files that wait are those of earlier batches: a write does not change them.
LEMMA WaitingKept ==
  ASSUME TInv, BatchOrder, NEW x,
         file' = [file EXCEPT ![telemetryBatchId] = x],
         UNCHANGED <<encodeQueue, encBatch>>
  PROVE  Waiting' = Waiting /\ (enc # "idle" => file'[encBatch] = file[encBatch])
<1>1. /\ encodeQueue \in Seq(Batches) /\ telemetryBatchId \in Nat
      /\ file \in [Batches -> Seq(1 .. added)] /\ encBatch \in Batches
  BY DEF TInv, TypeFiles, Pieces
<1>2. DOMAIN encodeQueue = 1 .. Len(encodeQueue)
  BY <1>1, LenProperties
<1>3. \A k \in DOMAIN encodeQueue : encodeQueue[k] \in Batches /\ encodeQueue[k] # telemetryBatchId
  <2>1. \A k \in DOMAIN encodeQueue : encodeQueue[k] \in Batches
    BY <1>1, <1>2, ElementOfSeq
  <2>2. \A k \in DOMAIN encodeQueue : encodeQueue[k] < telemetryBatchId
    BY DEF BatchOrder
  <2>3. QED
    BY <1>1, <2>1, <2>2 DEF Batches
<1>4. \A k \in DOMAIN encodeQueue : file'[encodeQueue[k]] = file[encodeQueue[k]]
  BY <1>1, <1>3
<1>5. [k \in DOMAIN encodeQueue |-> file'[encodeQueue[k]]]
        = [k \in DOMAIN encodeQueue |-> file[encodeQueue[k]]]
  BY <1>4
<1>6. Waiting' = Waiting
  BY <1>5, Zenon DEF Waiting
<1>7. enc # "idle" => encBatch # telemetryBatchId
  BY <1>1 DEF BatchOrder, Batches
<1>8. QED
  BY <1>1, <1>6, <1>7

\* A datum goes from the manager to the file of the batch, or is dropped.
LEMMA WriteFlows ==
  ASSUME TInv, BatchOrder, Own, Write
  PROVE  Flows
<1> DEFINE X == 1 .. added
           d == datum
<1>0. /\ UNCHANGED <<added, handle, telemetryBatchId, queue, encodeQueue, sent,
                     telemPacket, enc, encBatch, fd>>
      /\ mgr = "write" /\ mgr' = "check"
  BY DEF Write, others, queueVars, encVars
<1>1. /\ Ahead \in Seq(X) /\ Waiting \in Seq(X) /\ Current \in Seq(X) /\ queue \in Seq(X)
      /\ InHand \in Seq(X)
  BY PiecesTyped, FrontRestTyped
<1>5. InHand = <<d>> /\ InHand' = <<>> /\ d \in X /\ added \in Nat
  BY <1>0 DEF InHand, TInv, TypeFiles, Pieces
<1>2. CASE file' = [file EXCEPT ![telemetryBatchId] = Append(@, datum)]
  <2>1. Waiting' = Waiting /\ (enc # "idle" => file'[encBatch] = file[encBatch])
    BY <1>0, <1>2, WaitingKept
  <2>2. Ahead' = Ahead
    BY <1>0, <2>1, FrontStays
  <2>3. Current' = Append(Current, d)
    <3>1. telemetryBatchId \in Batches /\ file \in [Batches -> Seq(1 .. added)]
      BY BatchNow DEF TInv, Pieces
    <3>2. QED
      BY <1>0, <1>2, <3>1 DEF Current
  <2> HIDE DEF X, d
  <2>4. Current' = Cat(Current, InHand)
    BY <1>1, <1>5, <2>3, AppendIsConcat DEF Cat
  <2>5. Cat(InHand', queue') = queue
    BY <1>0, <1>1, <1>5, CatEmpty
  <2>6. Cat(Cat(Current, InHand), queue) = Cat(Current, Cat(InHand, queue))
    BY <1>1, CatMoves
  <2>7. Rest' = Rest
    BY <2>1, <2>4, <2>5, <2>6 DEF Rest
  <2>8. QED
    BY <1>0, <2>2, <2>7 DEF Total, Flows
<1>3. CASE file' = file /\ Fault
  <2>1. Waiting' = Waiting /\ Current' = Current
    BY <1>0, <1>3 DEF Waiting, Current
  <2>2. Ahead' = Ahead
    BY <1>0, <1>3, FrontKept
  <2> DEFINE fwc == Cat(Ahead, Cat(Waiting, Current))
  <2> HIDE DEF X, d
  <2>3. Cat(Waiting, Current) \in Seq(X) /\ Cat(InHand, queue) \in Seq(X) /\ fwc \in Seq(X)
    BY <1>1, CatTyped
  <2>4. \A y \in Seq(X) : Cat(Ahead, Cat(Waiting, Cat(Current, y))) = Cat(fwc, y)
    <3>1. TAKE y \in Seq(X)
    <3>2. Cat(Waiting, Cat(Current, y)) = Cat(Cat(Waiting, Current), y)
      BY <1>1, CatMoves
    <3>3. Cat(Ahead, Cat(Cat(Waiting, Current), y)) = Cat(Cat(Ahead, Cat(Waiting, Current)), y)
      BY <1>1, <2>3, CatMoves
    <3>4. QED
      BY <3>2, <3>3
  <2>5. Total = Cat(fwc, Cat(InHand, queue))
    BY <2>3, <2>4 DEF Total, Rest
  <2>6. Cat(InHand', queue') = queue
    BY <1>0, <1>1, <1>5, CatEmpty
  <2>7. Total' = Cat(fwc, queue)
    <3>1. Total' = Cat(Ahead, Cat(Waiting, Cat(Current, queue)))
      BY <2>1, <2>2, <2>6 DEF Total, Rest
    <3>2. QED
      BY <1>1, <2>4, <3>1
  <2> HIDE DEF fwc
  <2>8. Cat(fwc, Cat(InHand, queue)) = Cat(Cat(fwc, InHand), queue)
    BY <1>1, <2>3, CatMoves
  <2>9. Increasing(Total) => Increasing(Total')
    BY <1>1, <1>5, <2>3, <2>5, <2>7, <2>8, CatDrops DEF X
  <2>10. unreadable'
    BY <1>3 DEF Fault
  <2>11. QED
    BY <1>0, <2>9, <2>10 DEF Flows
<1>4. QED
  BY <1>2, <1>3, Written DEF Own

\* The file of the batch joins those that wait, and the next one is empty.
LEMMA SendFlows ==
  ASSUME TInv, BatchOrder, Own, Empty, ~stale, Send
  PROVE  Flows
<1> DEFINE X == 1 .. added
           b == telemetryBatchId
           q == encodeQueue
           m == FilesOf(q)
           r == FilesOf(Append(q, b))
<1>0. /\ UNCHANGED <<added, file, handle, datum, queue, sent, telemPacket, enc, encBatch, fd>>
      /\ mgr = "send" /\ mgr' = "create" /\ encodeQueue' = Append(q, b)
      /\ telemetryBatchId' = b + 1
  BY DEF Send, queueVars, encVars, fsVars
<1>1. /\ b \in Nat /\ b \in Batches /\ b + 1 \in Batches /\ q \in Seq(Batches)
  BY <1>0, BatchNow DEF TInv, TypeFiles
<1>2. Ahead' = Ahead
  BY <1>0, FrontKept
<1>3. InHand = <<>> /\ InHand' = <<>>
  BY <1>0 DEF InHand
<1>4. Current = file[b] /\ Current' = <<>>
  <2>1. b + 1 > b
    BY <1>1
  <2>2. file[b + 1] = <<>>
    BY <1>1, <2>1 DEF Empty, FilesEmpty
  <2>3. QED
    BY <1>0, <1>1, <2>2 DEF Current
<1>5. r = Append(m, file[b])
  <2>1. /\ m \in Seq(Seq(X)) /\ Len(m) = Len(q) /\ file[b] \in Seq(X)
        /\ \A k \in 1 .. Len(q) : m[k] = file[q[k]]
    <3>1. m \in Seq(Seq(X)) /\ Len(m) = Len(q) /\ file[b] \in Seq(X)
      BY <1>1, FilesOfTyped DEF TInv, Pieces
    <3>2. QED
      BY <1>1, <3>1, LenProperties DEF FilesOf
  <2>2. /\ Append(q, b) \in Seq(Batches) /\ Len(Append(q, b)) = Len(q) + 1 /\ Len(q) \in Nat
        /\ \A k \in 1 .. Len(q) : Append(q, b)[k] = q[k]
        /\ Append(q, b)[Len(q) + 1] = b
    BY <1>1, AppendProperties, LenProperties
  <2>3. r \in Seq(Seq(X)) /\ Len(r) = Len(q) + 1
    BY <2>2, FilesOfTyped
  <2>4. \A k \in 1 .. Len(q) + 1 : r[k] = file[Append(q, b)[k]]
    BY <2>2, LenProperties DEF FilesOf
  <2> HIDE DEF m, r, q, b, X
  <2>5. /\ Append(m, file[b]) \in Seq(Seq(X)) /\ Len(Append(m, file[b])) = Len(m) + 1
        /\ \A k \in 1 .. Len(m) : Append(m, file[b])[k] = m[k]
        /\ Append(m, file[b])[Len(m) + 1] = file[b]
    BY <2>1, AppendProperties
  <2>6. \A k \in 1 .. Len(q) + 1 : r[k] = Append(m, file[b])[k]
    <3>1. TAKE k \in 1 .. Len(q) + 1
    <3>2. CASE k \in 1 .. Len(q)
      <4>1. r[k] = file[q[k]]
        BY <2>2, <2>4, <3>2
      <4>2. Append(m, file[b])[k] = file[q[k]]
        BY <2>1, <2>5, <3>2
      <4>3. QED
        BY <4>1, <4>2
    <3>3. CASE k = Len(q) + 1
      <4>1. Append(m, file[b])[k] = file[b]
        BY <2>1, <2>5, <3>3
      <4>2. k \in 1 .. Len(q) + 1 /\ Append(q, b)[k] = b
        BY <2>2, <3>3
      <4>3. r[k] = file[b]
        BY <2>4, <4>2
      <4>4. QED
        BY <4>1, <4>3
    <3>4. Len(q) \in Nat
      BY <2>2
    <3>5. k \in 1 .. Len(q) \/ k = Len(q) + 1
      BY <3>4
    <3>6. QED
      BY <3>2, <3>3, <3>5
  <2>7. QED
    BY <2>1, <2>3, <2>5, <2>6, SeqEqual
<1>6. Waiting' = Cat(Waiting, Current)
  <2>1. Waiting' = FlattenSeq(r)
    <3>1. Waiting' = FlattenSeq([k \in DOMAIN Append(q, b) |-> file[Append(q, b)[k]]])
      BY <1>0 DEF Waiting
    <3>2. QED
      BY <3>1 DEF FilesOf
  <2>2. Waiting = FlattenSeq(m)
    BY DEF Waiting, FilesOf
  <2>3. m \in Seq(Seq(X)) /\ file[b] \in Seq(X)
    BY <1>1, FilesOfTyped DEF TInv, Pieces
  <2> HIDE DEF m, r, X
  <2>4. FlattenSeq(Append(m, file[b])) = FlattenSeq(m) \o file[b]
    BY <2>3, FlattenAppend
  <2>5. QED
    BY <1>4, <1>5, <2>1, <2>2, <2>4 DEF Cat
<1>7. /\ Waiting \in Seq(X) /\ Current \in Seq(X) /\ queue \in Seq(X)
  BY PiecesTyped
<1> HIDE DEF X, b, q, m, r
<1>8. Cat(<<>>, queue) = queue
  BY <1>7, CatEmpty
<1>9. Cat(Cat(Waiting, Current), queue) = Cat(Waiting, Cat(Current, queue))
  BY <1>7, CatMoves
<1>10. Rest = Cat(Waiting, Cat(Current, queue))
  BY <1>3, <1>8 DEF Rest
<1>11. Rest' = Cat(Cat(Waiting, Current), queue)
  BY <1>0, <1>3, <1>4, <1>6, <1>8 DEF Rest
<1>12. QED
  BY <1>0, <1>2, <1>9, <1>10, <1>11 DEF Total, Flows

\* What comes from outside comes last.
LEMMA AddFlows ==
  ASSUME TInv, BatchOrder, Own, Add
  PROVE  added' = added + 1 /\ Total' = Append(Total, added + 1)
<1> DEFINE X == 1 .. added + 1
           x == added + 1
           y == <<x>>
<1>0. /\ UNCHANGED <<handle, file, telemetryBatchId, mgr, datum, encodeQueue, sent,
                     telemPacket, enc, encBatch, fd>>
      /\ added' = x /\ queue' = Append(queue, x)
  BY DEF Add, mgrVars, encVars, fsVars
<1>1. /\ Ahead \in Seq(X) /\ Waiting \in Seq(X) /\ Current \in Seq(X) /\ InHand \in Seq(X)
      /\ queue \in Seq(X) /\ x \in X /\ y \in Seq(X)
  <2>1. added \in Nat /\ x \in X
    BY DEF TInv, TypeFiles
  <2>2. QED
    BY <2>1, PiecesTyped, FrontRestTyped, SeqGrow
<1>2. Ahead' = Ahead
  BY <1>0, FrontKept
<1>3. Waiting' = Waiting /\ Current' = Current /\ InHand' = InHand
  BY <1>0 DEF Waiting, Current, InHand
<1>4. \A s \in Seq(X) : Append(s, x) = Cat(s, y)
  <2> HIDE DEF X, x
  <2>1. QED
    BY <1>1, AppendIsConcat DEF Cat
<1>5. queue' = Cat(queue, y)
  BY <1>0, <1>1, <1>4
<1>6. /\ Ahead \in Seq(X) /\ Waiting \in Seq(X) /\ Current \in Seq(X) /\ InHand \in Seq(X)
      /\ queue \in Seq(X) /\ y \in Seq(X)
  BY <1>1
<1> HIDE DEF X, x, y
<1>7. /\ Cat(InHand, Cat(queue, y)) = Cat(Cat(InHand, queue), y) /\ Cat(InHand, queue) \in Seq(X)
  BY <1>6, CatMoves, CatTyped
<1>8. /\ Cat(Current, Cat(Cat(InHand, queue), y)) = Cat(Cat(Current, Cat(InHand, queue)), y)
      /\ Cat(Current, Cat(InHand, queue)) \in Seq(X)
  BY <1>6, <1>7, CatMoves, CatTyped
<1>9. /\ Cat(Waiting, Cat(Cat(Current, Cat(InHand, queue)), y)) = Cat(Rest, y)
      /\ Rest \in Seq(X)
  BY <1>6, <1>8, CatMoves, CatTyped DEF Rest
<1>10. Cat(Ahead, Cat(Rest, y)) = Cat(Total, y) /\ Total \in Seq(X)
  BY <1>6, <1>9, CatMoves, CatTyped DEF Total
<1>11. Rest' = Cat(Rest, y)
  BY <1>3, <1>5, <1>7, <1>8, <1>9 DEF Rest
<1>12. Total' = Cat(Total, y)
  BY <1>2, <1>10, <1>11 DEF Total
<1>13. Total' = Append(Total, x)
  BY <1>4, <1>10, <1>12
<1>14. QED
  BY <1>0, <1>13 DEF x

\* and requests and events to log move nothing.
LEMMA OthersFlow ==
  ASSUME TInv, BatchOrder, Own, Request \/ LogEvent \/ Still
  PROVE  Flows
<1>0. UNCHANGED <<added, handle, file, telemetryBatchId, mgr, datum, queue, encodeQueue, sent,
                  telemPacket, enc, encBatch, fd>>
  BY DEF Request, LogEvent, notLog, queueVars, mgrVars, encVars, fsVars, Still
<1>1. Ahead' = Ahead
  BY <1>0, FrontKept
<1>2. Rest' = Rest
  BY <1>0, RestStays
<1>3. QED
  BY <1>0, <1>1, <1>2 DEF Total, Flows

\* The order holds whatever fails, as long as the manager could open its files, and
\* nothing at all is missing as long as nothing fails.
Flow  == ~stale => Increasing(Total)
Whole == ~unreadable => Total = [k \in 1 .. added |-> k]

\* Every step moves data on, drops some, or takes a new one.
LEMMA StepFlows ==
  ASSUME GInv, ~stale, [Next]_vars
  PROVE  \/ Flows
         \/ ~stale' /\ added' = added + 1 /\ Total' = Append(Total, added + 1)
         \/ stale'
<1>1. TInv /\ BatchOrder /\ Own /\ Empty
  BY DEF GInv, FilesInv, Owned
<1>2. CASE Manager
  BY <1>1, <1>2, ManagerHandlesFlow, ReceiveFlows, WriteFlows, SendFlows DEF Manager
<1>3. CASE Add
  BY <1>1, <1>3, AddFlows
<1>4. QED
  BY <1>1, <1>2, <1>3, EncoderFlows, LoggerFlows, OthersFlow, Steps

\* At the start there is nothing to be out of order or lost,
LEMMA FlowInit == Init => Flow /\ Whole
<1> SUFFICES ASSUME Init
             PROVE  Flow /\ Whole
  OBVIOUS
<1>1. /\ sent = <<>> /\ telemPacket = <<>> /\ enc = "idle" /\ encodeQueue = <<>> /\ queue = <<>>
      /\ file = [b \in Batches |-> <<>>] /\ mgr = "create" /\ added = 0
  BY DEF Init
<1>2. Sent = <<>>
  BY <1>1, FlattenEmpty DEF Sent
<1>3. Waiting = <<>>
  <2>1. [k \in DOMAIN encodeQueue |-> file[encodeQueue[k]]] = <<>>
    BY <1>1
  <2>2. QED
    BY <2>1, FlattenEmpty DEF Waiting
<1>4. Unread = <<>> /\ InHand = <<>> /\ Current = <<>>
  BY <1>1 DEF Unread, InHand, Current
<1>5. Cat(<<>>, <<>>) = <<>>
  <2>1. <<>> \in Seq(Nat)
    BY EmptySeq
  <2>2. QED
    BY <2>1, CatEmpty
<1>6. Total = <<>>
  BY <1>1, <1>2, <1>3, <1>4, <1>5 DEF Total, Ahead, Rest
<1>7. Increasing(<<>>)
  BY DEF Increasing
<1>8. [k \in 1 .. added |-> k] = <<>>
  BY <1>1
<1>9. QED
  BY <1>6, <1>7, <1>8 DEF Flow, Whole

\* and every step keeps it so.
LEMMA FlowStep ==
  ASSUME GInv, Flow, Whole, [Next]_vars
  PROVE  Flow' /\ Whole'
<1>0. /\ stale => stale'
      /\ unreadable => unreadable'
      /\ stale => unreadable
      /\ stale' /\ ~stale => unreadable'
  BY HistoryStays DEF GInv, Empty, StaleShows
<1>1. CASE stale
  BY <1>0, <1>1 DEF Flow, Whole
<1>2. CASE ~stale /\ Flows
  <2>1. Increasing(Total')
    <3>1. Increasing(Total)
      BY <1>2 DEF Flow
    <3>2. CASE Total' = Total
      BY <3>1, <3>2
    <3>3. CASE Increasing(Total) => Increasing(Total')
      BY <3>1, <3>3
    <3>4. QED
      BY <1>2, <3>2, <3>3 DEF Flows
  <2>2. Whole'
    <3>1. CASE unreadable'
      BY <3>1 DEF Whole
    <3>2. CASE ~unreadable'
      <4>1. Total' = Total /\ added' = added
        BY <1>2, <3>2 DEF Flows
      <4>2. Total = [k \in 1 .. added |-> k]
        BY <1>0, <3>2 DEF Whole
      <4>3. Total' = [k \in 1 .. added' |-> k]
        BY <4>1, <4>2
      <4>4. QED
        BY <4>3 DEF Whole
    <3>3. QED
      BY <3>1, <3>2
  <2>3. QED
    BY <2>1, <2>2 DEF Flow
<1>3. CASE ~stale /\ ~stale' /\ added' = added + 1 /\ Total' = Append(Total, added + 1)
  <2>1. added \in Nat /\ Total \in Seq(1 .. added)
    <3>1. TInv /\ Own
      BY <1>3 DEF GInv, Owned
    <3>2. QED
      BY <3>1, FrontRestTyped, CatTyped DEF Total, TInv, TypeFiles
  <2>2. Increasing(Append(Total, added + 1))
    BY <1>3, <2>1, IncreasingAppend DEF Flow
  <2>3. Flow'
    <3>1. Increasing(Total')
      BY <1>3, <2>2
    <3>2. QED
      BY <3>1 DEF Flow
  <2>4. Append([k \in 1 .. added |-> k], added + 1) = [k \in 1 .. added + 1 |-> k]
    BY <2>1, CountAppend
  <2>5. Whole'
    <3>1. CASE unreadable'
      BY <3>1 DEF Whole
    <3>2. CASE ~unreadable'
      <4>1. Total = [k \in 1 .. added |-> k]
        BY <1>0, <3>2 DEF Whole
      <4>2. Total' = [k \in 1 .. added' |-> k]
        BY <1>3, <2>4, <4>1
      <4>3. QED
        BY <4>2 DEF Whole
    <3>3. QED
      BY <3>1, <3>2
  <2>6. QED
    BY <2>3, <2>5
<1>4. CASE ~stale /\ stale'
  BY <1>0, <1>4 DEF Flow, Whole
<1>5. QED
  BY <1>1, <1>2, <1>3, <1>4, StepFlows

\* So the data are always in order, and complete unless a batch could not be read.
LEMMA FlowInvariance == Spec => [](GInv /\ Flow /\ Whole)
BY GInvariance, FlowInit, FlowStep, PTL DEF Spec

\* Nothing that was added falls between two batches, the queue, the files and the
\* packets, whenever the requests to downlink come, for every number of batches.
THEOREM ConservedCorrect == Spec => []Conserved
<1>1. GInv /\ Whole => Conserved
  <2>1. SUFFICES ASSUME GInv, Whole, ~unreadable
                 PROVE  All = [k \in 1 .. added |-> k]
    BY DEF Conserved, All
  <2>2. TInv /\ Own
    BY <2>1 DEF GInv, Owned, Empty, StaleShows
  <2>3. All = Total
    BY <2>2, AllSplit DEF Total
  <2>4. QED
    BY <2>1, <2>3 DEF Whole
<1>2. QED
  BY <1>1, FlowInvariance, PTL

\* No datum is sent twice or before an earlier one, whatever fails, as long as the
\* manager could open its files.
THEOREM SentInOrderCorrect == Spec => []SentInOrder
<1>1. GInv /\ Flow => SentInOrder
  <2>1. SUFFICES ASSUME GInv, Flow, ~stale
                 PROVE  Increasing(Sent)
    BY DEF SentInOrder, Increasing
  <2>2. TInv /\ Own
    BY <2>1 DEF GInv, Owned
  <2>3. /\ Sent \in Seq(Nat) /\ telemPacket \in Seq(Nat) /\ Unread \in Seq(Nat) /\ Rest \in Seq(Nat)
        /\ Cat(Sent, telemPacket) \in Seq(Nat) /\ Ahead \in Seq(Nat)
    <3>1. added \in Nat
      BY <2>2 DEF TInv, TypeFiles
    <3>2. Sent \in Seq(Nat) /\ telemPacket \in Seq(Nat) /\ Unread \in Seq(Nat) /\ Rest \in Seq(Nat)
          /\ Ahead \in Seq(Nat)
      BY <2>2, <3>1, PiecesTyped, FrontRestTyped, SeqNat
    <3>3. QED
      BY <3>2, CatTyped
  <2>4. Increasing(Ahead \o Rest)
    BY <2>1 DEF Flow, Total, Cat
  <2>5. Increasing(Ahead)
    BY <2>3, <2>4, IncreasingFront
  <2>6. Increasing(Cat(Sent, telemPacket) \o Unread)
    BY <2>5 DEF Ahead, Cat
  <2>7. Increasing(Cat(Sent, telemPacket))
    BY <2>3, <2>6, IncreasingFront
  <2>8. Increasing(Sent)
    BY <2>3, <2>7, IncreasingFront DEF Cat
  <2>9. QED
    BY <2>8
<1>2. QED
  BY <1>1, FlowInvariance, PTL
=============================================================================
