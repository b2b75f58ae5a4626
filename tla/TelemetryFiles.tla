--------------------------- MODULE TelemetryFiles ---------------------------
(***************************************************************************)
(* Telemetry from addTelemetryData to the packets of a downlink: the       *)
(* telemetry manager writes what it takes from its queue to the file of    *)
(* the current batch; a request to downlink makes it close the file, tell  *)
(* the downlink encoder and go on with the next batch; the encoder reads   *)
(* the file back, packs it and puts the packets into the queue that the    *)
(* comms manager empties while it is downlinking.  Manager and encoder, and *)
(* the logger when it logs to the SD card, share the few file handles of   *)
(* Reliance Edge, which hands out the lowest free one, so the number of a  *)
(* closed file is soon the number of another.                              *)
(*                                                                         *)
(* Data are the numbers 1, 2, ... in the order in which they are added.    *)
(***************************************************************************)
EXTENDS Integers, SequencesExt

CONSTANTS
  QueueLength,        \* TELEMETRY_DATA_QUEUE_LENGTH
  EncodeQueueLength,
  TransmitQueueLength, \* CC1120_TRANSMIT_QUEUE_LENGTH
  LoggerQueueLength,  \* LOGGER_QUEUE_LENGTH
  HandleCount,        \* REDCONF_HANDLE_COUNT
  PacketItems,        \* how many data fit into a packet
  Unpackable,         \* data that packTelemetry refuses
  MaxData, MaxRequests, MaxLogs,  \* bounds on what comes from outside
  MaxFaults           \* bound on the file operations that fail by themselves

ASSUME FilesAssumption ==
  /\ QueueLength \in Nat \ {0} /\ EncodeQueueLength \in Nat \ {0}
  /\ TransmitQueueLength \in Nat \ {0} /\ LoggerQueueLength \in Nat \ {0}
  /\ HandleCount \in Nat \ {0} /\ PacketItems \in Nat \ {0}
  /\ MaxData \in Nat /\ MaxRequests \in Nat /\ MaxLogs \in Nat /\ MaxFaults \in Nat
  /\ Unpackable \subseteq 1 .. MaxData

VARIABLES
  queue, added,          \* telemetryDataQueue, and how many data it was sent
  downlinkReady,
  telemetryBatchId, telemetryFileId,  \* 0 for no file
  mgr, datum,            \* the manager's next step, and what it is about to write
  encodeQueue,
  enc, fd, telemPacket, encBatch,     \* the encoder's
  outbox,                \* what the encoder is putting into the transmit queue
  transmitQueue,
  downlinking,           \* the comms manager is in its handler for DOWNLINKING
  log, logFd, logQueue,  \* the logger's; of its queue, the length
  file,                  \* what each batch contains
  handle,                \* what each handle is open for
  sent,                  \* the packets the encoder has sent, or is sending
  ended,                 \* how many downlinks of telemetry came to their END_DOWNLINK
  requests, logs, faults,
  unreadable,            \* history: a datum was refused, or a file operation failed
  stale,                 \* history: the manager could not open its next file
  leaks                  \* history: handles that were forgotten open

queueVars   == <<queue, added>>
mgrVars     == <<telemetryBatchId, telemetryFileId, mgr, datum>>
encVars     == <<enc, fd, telemPacket, encBatch, outbox>>
link        == <<transmitQueue, downlinking, ended>>
logVars     == <<log, logFd, logQueue, logs>>
fsVars      == <<file, handle>>
historyVars == <<unreadable, stale, leaks>>
vars == <<queueVars, downlinkReady, requests, mgrVars, encodeQueue, encVars, logVars, fsVars,
          sent, link, faults, historyVars>>

LogFile == -1  \* no batch
Batches == 0 .. MaxRequests
Handles == 1 .. HandleCount
Closed  == [of |-> -2, mode |-> "none", pos |-> 0]
Open(f, m) == [of |-> f, mode |-> m, pos |-> 0]

Init ==
  /\ queue = <<>> /\ added = 0
  /\ downlinkReady = FALSE /\ requests = 0
  /\ telemetryBatchId = 0 /\ telemetryFileId = 0
  /\ mgr = "create" /\ datum = 0
  /\ encodeQueue = <<>>
  /\ enc = "idle" /\ fd = 0 /\ telemPacket = <<>> /\ encBatch = 0 /\ outbox = <<>>
  /\ transmitQueue = <<>> /\ downlinking = FALSE
  /\ log = "idle" /\ logFd = 0 /\ logQueue = 0 /\ logs = 0
  /\ file = [b \in Batches |-> <<>>]
  /\ handle = [h \in Handles |-> Closed]
  /\ sent = <<>> /\ ended = 0 /\ faults = 0
  /\ unreadable = FALSE /\ stale = FALSE /\ leaks = 0

-----------------------------------------------------------------------------
(* The file system. *)

IsOpen(h) == h \in Handles /\ handle[h] # Closed
Free      == {h \in Handles : handle[h] = Closed}
NextHandle == CHOOSE h \in Free : \A g \in Free : h <= g

CloseHandle(h) == handle' = IF h \in Handles THEN [handle EXCEPT ![h] = Closed] ELSE handle

Fault  == faults < MaxFaults /\ faults' = faults + 1 /\ unreadable' = TRUE
Sound  == UNCHANGED <<faults, unreadable>>
Failed == unreadable' = TRUE /\ UNCHANGED faults

\* red_open gives the handle, or there is none, or it fails.
OpenSucceeds(f, m) ==
  /\ Free # {}
  /\ handle' = [handle EXCEPT ![NextHandle] = Open(f, m)]
  /\ Sound

OpenFails ==
  /\ \/ Free = {} /\ Failed
     \/ Fault
  /\ UNCHANGED handle

-----------------------------------------------------------------------------
(* Other tasks. *)

\* addTelemetryData.
Add ==
  /\ added < MaxData
  /\ Len(queue) < QueueLength
  /\ added' = added + 1
  /\ queue' = Append(queue, added + 1)
  /\ UNCHANGED <<downlinkReady, requests, mgrVars, encodeQueue, encVars, logVars, fsVars,
                 sent, link, faults, historyVars>>

\* setTelemetryManagerDownlinkReady: a request that was not yet noticed covers this
\* one.
Request ==
  /\ requests < MaxRequests
  /\ requests' = requests + 1
  /\ downlinkReady' = TRUE
  /\ UNCHANGED <<queueVars, mgrVars, encodeQueue, encVars, logVars, fsVars, sent, link,
                 faults, historyVars>>

-----------------------------------------------------------------------------
(* The telemetry manager. *)

others == <<encodeQueue, encVars, logVars, sent, link, requests>>

\* createFile opens the file of the next batch and leaves its number in
\* telemetryFileId...
CreateFile ==
  /\ mgr = "create"
  /\ \/ /\ OpenSucceeds(telemetryBatchId, "r")
        /\ telemetryFileId' = NextHandle
        /\ mgr' = "closeNew"
        /\ UNCHANGED stale
     \/ /\ OpenFails
        /\ stale' = TRUE
        /\ mgr' = "receive"
        /\ UNCHANGED telemetryFileId
  /\ UNCHANGED <<queueVars, downlinkReady, telemetryBatchId, datum, file, leaks, others>>

\* ... closes it again...
CloseNewFile ==
  /\ mgr = "closeNew"
  /\ CloseHandle(telemetryFileId)
  /\ mgr' = "open"
  /\ UNCHANGED <<queueVars, downlinkReady, telemetryBatchId, telemetryFileId, datum, file,
                 faults, historyVars, others>>

\* ... and openTelemetryFileRW replaces the number only when it opens the file.
OpenFile ==
  /\ mgr = "open"
  /\ mgr' = "receive"
  /\ \/ /\ OpenSucceeds(telemetryBatchId, "rw")
        /\ telemetryFileId' = NextHandle
        /\ UNCHANGED stale
     \/ /\ OpenFails
        /\ stale' = TRUE
        /\ UNCHANGED telemetryFileId
  /\ UNCHANGED <<queueVars, downlinkReady, telemetryBatchId, datum, file, leaks, others>>

ReceiveAgain ==
  /\ mgr = "receive"
  /\ queue # <<>>
  /\ datum' = Head(queue)
  /\ queue' = Tail(queue)
  /\ mgr' = "write"
  /\ UNCHANGED <<added, downlinkReady, telemetryBatchId, telemetryFileId, fsVars, faults,
                 historyVars, others>>

\* The wait for a datum ends after a second.
Receive ==
  /\ mgr = "receive"
  /\ \/ /\ queue # <<>>
        /\ datum' = Head(queue)
        /\ queue' = Tail(queue)
        /\ mgr' = "write"
     \/ /\ queue = <<>>
        /\ mgr' = "check"
        /\ UNCHANGED <<queue, datum>>
  /\ UNCHANGED <<added, downlinkReady, telemetryBatchId, telemetryFileId, fsVars, faults,
                 historyVars, others>>

Writable(h) == IsOpen(h) /\ handle[h].mode \in {"rw", "w"}

\* writeTelemetryToFile: through a number that is no longer the manager's, the datum
\* goes into the log or nowhere.
Write ==
  /\ mgr = "write"
  /\ mgr' = "check"
  /\ datum' = 0
  /\ \/ /\ Writable(telemetryFileId)
        /\ LET f == handle[telemetryFileId].of
           IN  file' = IF f = LogFile THEN file ELSE [file EXCEPT ![f] = Append(@, datum)]
        /\ Sound
     \/ /\ \/ ~Writable(telemetryFileId) /\ Failed
           \/ Fault
        /\ UNCHANGED file
  /\ UNCHANGED <<queueVars, downlinkReady, telemetryBatchId, telemetryFileId, handle, stale,
                 leaks, others>>

\* checkDownlinkAlarm, and the next datum if there was no request.
Check ==
  /\ mgr = "check"
  /\ mgr' = IF downlinkReady THEN "close" ELSE "receive"
  /\ downlinkReady' = FALSE
  /\ UNCHANGED <<queueVars, telemetryBatchId, telemetryFileId, datum, fsVars, faults,
                 historyVars, others>>

CloseFileNot ==
  /\ mgr = "close"
  /\ mgr' = "send"
  /\ UNCHANGED <<queueVars, downlinkReady, telemetryBatchId, telemetryFileId, datum, fsVars,
                 faults, historyVars, others>>

CloseFile ==
  /\ mgr = "close"
  /\ CloseHandle(telemetryFileId)
  /\ mgr' = "send"
  /\ UNCHANGED <<queueVars, downlinkReady, telemetryBatchId, telemetryFileId, datum, file,
                 faults, historyVars, others>>

SendSameBatch ==
  /\ mgr = "send"
  /\ Len(encodeQueue) < EncodeQueueLength
  /\ encodeQueue' = Append(encodeQueue, telemetryBatchId)
  /\ mgr' = "create"
  /\ UNCHANGED <<queueVars, downlinkReady, telemetryBatchId, telemetryFileId, datum, encVars,
                 logVars, fsVars, sent, link, requests, faults, historyVars>>

SendAtOnce ==
  /\ mgr = "send"
  /\ encodeQueue' = Append(encodeQueue, telemetryBatchId)
  /\ telemetryBatchId' = telemetryBatchId + 1
  /\ mgr' = "create"
  /\ UNCHANGED <<queueVars, downlinkReady, telemetryFileId, datum, encVars, logVars, fsVars,
                 sent, link, requests, faults, historyVars>>

\* The batch goes to the encoder, as soon as its queue has room.
Send ==
  /\ mgr = "send"
  /\ Len(encodeQueue) < EncodeQueueLength
  /\ encodeQueue' = Append(encodeQueue, telemetryBatchId)
  /\ telemetryBatchId' = telemetryBatchId + 1
  /\ mgr' = "create"
  /\ UNCHANGED <<queueVars, downlinkReady, telemetryFileId, datum, encVars, logVars, fsVars,
                 sent, link, requests, faults, historyVars>>

Manager == CreateFile \/ CloseNewFile \/ OpenFile \/ Receive \/ Write \/ Check \/ CloseFile \/ Send

-----------------------------------------------------------------------------
(* The downlink encoder. *)

notEnc == <<queueVars, downlinkReady, requests, mgrVars, logVars, link, file, stale>>

ReceiveBatch ==
  /\ enc = "idle"
  /\ encodeQueue # <<>>
  /\ encBatch' = Head(encodeQueue)
  /\ encodeQueue' = Tail(encodeQueue)
  /\ enc' = "open"
  /\ UNCHANGED <<fd, telemPacket, outbox, handle, sent, faults, unreadable, leaks, notEnc>>

OpenBatch ==
  /\ enc = "open"
  /\ \/ /\ OpenSucceeds(encBatch, "r")
        /\ fd' = NextHandle
        /\ telemPacket' = <<>>
        /\ enc' = "read"
     \/ /\ OpenFails
        /\ enc' = "end"
        /\ UNCHANGED <<fd, telemPacket>>
  /\ UNCHANGED <<encBatch, outbox, encodeQueue, sent, leaks, notEnc>>

Contents(h) == IF handle[h].of = LogFile THEN <<>> ELSE file[handle[h].of]
AtEndEarly(h) == handle[h].pos + 1 >= Len(Contents(h))
AtEnd(h)    == handle[h].pos >= Len(Contents(h))
NextDatum   == Contents(fd)[handle[fd].pos + 1]

\* A datum that does not fit any more sends the packet and begins the next one.
Pack(d) ==
  IF Len(telemPacket) + 1 > PacketItems
  THEN /\ sent' = Append(sent, telemPacket)
       /\ telemPacket' = <<d>>
       /\ outbox' = <<"packet">>
  ELSE /\ telemPacket' = Append(telemPacket, d)
       /\ UNCHANGED <<sent, outbox>>

\* One pass of the loop in sendTelemetryFile.
ReadDatum ==
  /\ enc = "read"
  /\ IsOpen(fd) /\ handle[fd].mode # "w" /\ ~AtEnd(fd)
  /\ NextDatum \notin Unpackable
  /\ Pack(NextDatum)
  /\ handle' = [handle EXCEPT ![fd].pos = @ + 1]
  /\ UNCHANGED <<enc, fd, encBatch, encodeQueue, faults, unreadable, leaks, notEnc>>

\* The size of the file or a datum cannot be read, or the datum not be packed: the
\* file is closed, and what was packed so far is dropped with the rest of it.
ReadFails ==
  /\ enc = "read"
  /\ \/ IsOpen(fd) /\ handle[fd].mode # "w" /\ Fault
     \/ (~IsOpen(fd) \/ handle[fd].mode = "w") /\ Failed
     \/ IsOpen(fd) /\ handle[fd].mode # "w" /\ ~AtEnd(fd) /\ NextDatum \in Unpackable /\ Failed
  /\ CloseHandle(fd)
  /\ telemPacket' = <<>>
  /\ enc' = "end"
  /\ UNCHANGED <<fd, encBatch, outbox, encodeQueue, sent, leaks, notEnc>>

\* At the end of the file the last packet is sent; if there is none, the function
\* returns without closing the file.
EndOfFile ==
  /\ enc = "read"
  /\ IsOpen(fd) /\ handle[fd].mode # "w" /\ AtEnd(fd)
  /\ telemPacket' = <<>>
  /\ \/ /\ telemPacket # <<>>
        /\ sent' = Append(sent, telemPacket)
        /\ outbox' = <<"packet">>
        /\ enc' = "close"
        /\ UNCHANGED leaks
     \/ /\ telemPacket = <<>>
        /\ enc' = "end"
        /\ leaks' = leaks + 1
        /\ UNCHANGED <<sent, outbox>>
  /\ UNCHANGED <<fd, encBatch, encodeQueue, handle, faults, unreadable, notEnc>>

CloseBatchNot ==
  /\ enc = "close"
  /\ enc' = "end"
  /\ UNCHANGED <<fd, telemPacket, encBatch, outbox, encodeQueue, handle, sent, faults, unreadable,
                 leaks, notEnc>>

CloseBatch ==
  /\ enc = "close"
  /\ CloseHandle(fd)
  /\ enc' = "end"
  /\ UNCHANGED <<fd, telemPacket, encBatch, outbox, encodeQueue, sent, faults, unreadable, leaks,
                 notEnc>>

\* LOG_IF_ERROR_CODE: whatever became of the file, END_DOWNLINK is next.
EndDownlink ==
  /\ enc = "end"
  /\ enc' = "idle"
  /\ outbox' = <<"end">>
  /\ UNCHANGED <<fd, telemPacket, encBatch, encodeQueue, handle, sent, faults, unreadable, leaks,
                 notEnc>>

\* sendToCC1120TransmitQueue waits for room as long as it takes.
SendTransmit ==
  /\ outbox # <<>>
  /\ Len(transmitQueue) < TransmitQueueLength
  /\ transmitQueue' = transmitQueue \o outbox
  /\ outbox' = <<>>
  /\ UNCHANGED <<queueVars, downlinkReady, requests, mgrVars, encodeQueue, enc, fd, telemPacket,
                 encBatch, logVars, fsVars, sent, downlinking, ended, faults, historyVars>>

Packing == ReceiveBatch \/ OpenBatch \/ ReadDatum \/ ReadFails \/ EndOfFile \/ CloseBatch \/ EndDownlink

\* The task does nothing else while it sends.
Encoder == (outbox = <<>> /\ Packing) \/ SendTransmit

-----------------------------------------------------------------------------
(* The comms manager. *)

notLink == <<queueVars, downlinkReady, requests, mgrVars, encodeQueue, encVars, logVars, fsVars,
             sent, faults, historyVars>>

\* The comms manager comes to downlink when the ground lets it: after a frame of the
\* ground's, and never while it reads one or is disconnected.
StartDownlinking ==
  /\ ~downlinking
  /\ downlinking' = TRUE
  /\ UNCHANGED <<transmitQueue, ended, notLink>>

\* handleDownlinkingState empties the queue up to an END_DOWNLINK.  It also ends at a
\* packet, the 1000th or one that the transceiver does not send.
TakeTransmit ==
  /\ downlinking
  /\ transmitQueue # <<>>
  /\ transmitQueue' = Tail(transmitQueue)
  /\ \/ /\ Head(transmitQueue) = "end"
        /\ ended' = ended + 1
        /\ downlinking' = FALSE
     \/ /\ Head(transmitQueue) = "packet"
        /\ downlinking' \in BOOLEAN
        /\ UNCHANGED ended
  /\ UNCHANGED notLink

-----------------------------------------------------------------------------
(* The logger. *)

notLog == <<queueVars, downlinkReady, requests, mgrVars, encodeQueue, encVars, file, sent, link,
            stale>>

\* An event that meets a full queue is dropped.
LogEvent ==
  /\ logs < MaxLogs
  /\ logs' = logs + 1
  /\ logQueue' = IF logQueue < LoggerQueueLength THEN logQueue + 1 ELSE logQueue
  /\ UNCHANGED <<log, logFd, handle, faults, unreadable, leaks, notLog>>

OpenLog ==
  /\ log = "idle"
  /\ logQueue > 0
  /\ logQueue' = logQueue - 1
  /\ \/ /\ OpenSucceeds(LogFile, "w")
        /\ logFd' = NextHandle
        /\ log' = "write"
     \/ /\ OpenFails
        /\ UNCHANGED <<logFd, log>>
  /\ UNCHANGED <<logs, leaks, notLog>>

\* A failing write leaves the file open.
WriteLog ==
  /\ log = "write"
  /\ \/ /\ Writable(logFd)
        /\ Sound
        /\ log' = "close"
        /\ UNCHANGED leaks
     \/ /\ \/ ~Writable(logFd) /\ Failed
           \/ Fault
        /\ log' = "idle"
        /\ leaks' = leaks + 1
  /\ UNCHANGED <<logFd, logQueue, logs, handle, notLog>>

CloseLog ==
  /\ log = "close"
  /\ CloseHandle(logFd)
  /\ log' = "idle"
  /\ UNCHANGED <<logFd, logQueue, logs, faults, unreadable, leaks, notLog>>

Logger == OpenLog \/ WriteLog \/ CloseLog

-----------------------------------------------------------------------------
Next == \/ Add \/ Request \/ LogEvent
        \/ Manager \/ Encoder \/ Logger
        \/ StartDownlinking \/ TakeTransmit

Spec == Init /\ [][Next]_vars

\* The tasks run when they can.  Nothing makes the ground let the OBC downlink.
FairSpec == /\ Spec
            /\ WF_vars(Manager) /\ WF_vars(Encoder) /\ WF_vars(Logger)
            /\ WF_vars(TakeTransmit)

-----------------------------------------------------------------------------
(* Properties. *)

TypeOK ==
  /\ queue \in Seq(1 .. added) /\ Len(queue) <= QueueLength
  /\ added \in Nat /\ requests \in Nat /\ faults \in Nat /\ ended \in Nat /\ leaks \in Nat
  /\ downlinkReady \in BOOLEAN
  /\ telemetryBatchId \in Nat
  /\ telemetryFileId \in Handles \cup {0}
  /\ mgr \in {"create", "closeNew", "open", "receive", "write", "check", "close", "send"}
  /\ encodeQueue \in Seq(Batches) /\ Len(encodeQueue) <= EncodeQueueLength
  /\ enc \in {"idle", "open", "read", "close", "end"}
  /\ fd \in Handles \cup {0} /\ logFd \in Handles \cup {0}
  /\ Len(telemPacket) <= PacketItems
  /\ outbox \in {<<>>, <<"packet">>, <<"end">>}
  /\ transmitQueue \in Seq({"packet", "end"}) /\ Len(transmitQueue) <= TransmitQueueLength
  /\ downlinking \in BOOLEAN
  /\ log \in {"idle", "write", "close"}
  /\ logQueue \in 0 .. LoggerQueueLength

\* What the encoder has not yet read of the file it is reading.
Unread ==
  CASE enc = "open" -> file[encBatch]
    [] enc = "read" -> SubSeq(file[encBatch], handle[fd].pos + 1, Len(file[encBatch]))
    [] OTHER        -> <<>>

Waiting  == FlattenSeq([k \in DOMAIN encodeQueue |-> file[encodeQueue[k]]])
InHand   == IF mgr = "write" THEN <<datum>> ELSE <<>>
Current  == IF telemetryBatchId \in Batches THEN file[telemetryBatchId] ELSE <<>>
Sent     == FlattenSeq(sent)

\* As long as every file operation succeeded and every datum could be packed, what was
\* added is, in order and once, in the packets sent, the one being packed, the files
\* that wait for the encoder, the file of the current batch, and the queue: nothing
\* falls between two batches, whenever the requests come.
Conserved ==
  ~unreadable =>
    Sent \o telemPacket \o Unread \o Waiting \o Current \o InHand \o queue = [k \in 1 .. added |-> k]

\* Also when operations fail no datum is sent twice or before an earlier one, as long
\* as the manager could open its files; otherwise it uses, and closes, a number that
\* may by then be the encoder's or the logger's.
SentInOrder ==
  ~stale => \A j, k \in DOMAIN Sent : j < k => Sent[j] < Sent[k]

One(p) == IF p THEN 1 ELSE 0

\* Handles are forgotten in exactly two places: the encoder's return from a file whose
\* last packet is empty and the logger's failing write.  All others are those the tasks
\* are using.
HandlesAccounted ==
  HandleCount - Cardinality(Free) <=
    One(mgr \in {"closeNew", "receive", "write", "check", "close"})
      + One(enc \in {"read", "close"}) + One(log \in {"write", "close"}) + leaks

\* "Important to close the file before sending it to the comms task": no handle is open
\* for writing to the file the encoder reads.
ReadsClosedFile ==
  enc \in {"open", "read", "close"} =>
    \A h \in Handles : ~(handle[h].of = encBatch /\ handle[h].mode = "rw")

\* How many downlinks were asked for: of batches that went to the encoder, of the one
\* that is about to, and by a request that was not yet noticed.
Asked == telemetryBatchId + One(mgr \in {"close", "send"}) + One(downlinkReady)

\* Once the requests cease (they are bounded), every one has led to the end of a
\* downlink, whatever failed on the way and although requests merge, if the comms
\* manager comes to downlink again and again.  That is up to the ground: without it
\* the three places of the transmit queue are soon taken, the encoder waits, and then
\* the telemetry manager for the encoder.
RequestServed == []<>downlinking => []<>(ended = Asked)
=============================================================================
