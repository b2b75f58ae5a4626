---------------------------- MODULE CommsPipeline ----------------------------
(***************************************************************************)
(* The way of a ground command through the on-board computer and of its    *)
(* response back, over the UART link of the default build:                 *)
(*                                                                         *)
(*   ground -> comms manager -> uplink decoder -> command manager          *)
(*             (and the alarm manager and telemetry manager)               *)
(*          -> downlink encoder -> comms manager -> ground                 *)
(*                                                                         *)
(* Six tasks and five bounded queues in a ring: the comms manager both     *)
(* feeds the ring (UPLINKING) and drains it (DOWNLINKING), and every send  *)
(* but those to its own event queue blocks until there is room.            *)
(*                                                                         *)
(* Bytes are abstracted to chunks: the last chunk of a frame carries its   *)
(* decoded content, and the chunks of a response name its command.         *)
(***************************************************************************)
EXTENDS Integers, Sequences, FiniteSets

CONSTANTS
  ConnUplinks,         \* frames the ground may send before it is connected
  Uplinks,             \* and after: records [kind, cmds]
  FrameChunks,         \* chunks of an uplinked frame
  ResponseChunks,      \* chunks of a command response (RS_DECODED_SIZE bytes)
  MaxFilePackets,      \* most packets in a telemetry file
  MaxDownlinkFrames,   \* COMMS_MAX_DOWNLINK_FRAMES
  CommsQueueLength,    \* COMMS_MANAGER_QUEUE_LENGTH
  DecodeQueueLength,   \* DECODE_DATA_QUEUE_LENGTH
  CommandQueueLength,  \* COMMAND_QUEUE_LENGTH
  EncodeQueueLength,   \* COMMS_TELEM_ENCODE_QUEUE_LENGTH
  TransmitQueueLength, \* CC1120_TRANSMIT_QUEUE_LENGTH
  MaxFrames,           \* bound on the frames uplinked
  MaxCommands          \* bound on the commands in them

FrameKinds   == {"conn", "ack", "disc", "data", "corrupt"}
CommandKinds == {"ping", "telem", "tagged", "refused"}

ASSUME PipelineAssumption ==
  /\ ConnUplinks \subseteq [kind : FrameKinds \ {"data"}, cmds : Seq(CommandKinds)]
  /\ Uplinks \subseteq [kind : FrameKinds, cmds : Seq(CommandKinds)]
  /\ FrameChunks \in Nat \ {0}
  /\ ResponseChunks \in Nat \ {0}
  /\ MaxFilePackets \in Nat
  /\ MaxDownlinkFrames \in Nat \ {0}
  /\ CommsQueueLength \in Nat \ {0}
  /\ DecodeQueueLength \in Nat \ {0}
  /\ CommandQueueLength \in Nat \ {0}
  /\ EncodeQueueLength \in Nat \ {0}
  /\ TransmitQueueLength \in Nat \ {0}
  /\ MaxFrames \in Nat
  /\ MaxCommands \in Nat

VARIABLES
  commsState,     \* commsState, the state of the comms manager
  cm,             \* where its state handler is
  rx,             \* the frame it is pushing to the decoder, and the chunks left
  sent,           \* i, the frames taken in this run of handleDownlinkingState
  commsQueue, decodeQueue, commandQueue, encodeQueue, transmitQueue,
  todo,           \* commands the decoder has yet to pass on of a decoded frame
  alarms,         \* time-tagged commands the alarm manager holds
  downlinkReady,  \* the binary semaphore of the telemetry manager
  writing,        \* what each producer has yet to write to the encode queue
  cmdResBuffer,   \* cmdResBuffer[0 .. cmdResBytesRecieved) of the encoder
  outbox,         \* what the encoder has yet to put in the transmit queue
  downlinked,     \* history: the packets sent to the ground
  alarmAnswered,  \* history: the alarm manager has answered a command
  crowded,        \* history: too many U frames have waited for the decoder
  frames, nextId  \* frames uplinked, and the number of the next command

manager == <<commsState, cm, rx, sent, downlinked, crowded>>
uplink  == <<decodeQueue, todo, commandQueue>>
sources == <<alarms, alarmAnswered, downlinkReady, writing>>
encoder == <<cmdResBuffer, outbox>>
ground  == <<frames, nextId>>
vars    == <<commsState, cm, rx, sent, commsQueue, decodeQueue, commandQueue, encodeQueue,
             transmitQueue, todo, alarms, alarmAnswered, downlinkReady, writing, cmdResBuffer,
             outbox, downlinked, crowded, frames, nextId>>

Ids       == 1 .. MaxCommands
Commands  == [id : Ids, kind : CommandKinds]
Producers == {"command", "alarm", "telemetry"}
Frames    == [kind : FrameKinds, cmds : Seq(Commands)]
Partial   == [kind |-> "partial", cmds |-> <<>>]
Response(id) == [type |-> "DOWNLINK_CMD_RESPONSE", id |-> id]
TelemFile    == [type |-> "DOWNLINK_TELEMETRY_FILE", id |-> 0]
Packet(data) == [type |-> "DOWNLINK_PACKET", data |-> data]
End          == [type |-> "END_DOWNLINK", data |-> <<>>]
EncodeEvents   == {Response(id) : id \in Ids} \cup {TelemFile}
TransmitEvents == [type : {"DOWNLINK_PACKET", "END_DOWNLINK"}, data : Seq(Ids)]

-----------------------------------------------------------------------------
(* The state machine of the comms manager. *)

States == {"DISCONNECTED", "AWAITING_CONN", "SENDING_CONN", "SENDING_DISC", "SENDING_ACK",
           "AWAITING_ACK_DISC", "AWAITING_ACK_CONN", "UPLINKING", "DOWNLINKING",
           "ENTERING_EMERGENCY", "EMERGENCY_UPLINK"}

Transitions ==
  {<<"DISCONNECTED", "BEGIN_UPLINK", "AWAITING_CONN">>,
   <<"DISCONNECTED", "ENTER_EMERG", "ENTERING_EMERGENCY">>,
   <<"DISCONNECTED", "BEGIN_DOWNLINK", "DOWNLINKING">>,
   <<"AWAITING_CONN", "CONN_RECEIVED", "SENDING_ACK">>,
   <<"SENDING_CONN", "CONN_SENT", "AWAITING_ACK_CONN">>,
   <<"SENDING_DISC", "DISC_SENT", "AWAITING_ACK_DISC">>,
   <<"SENDING_ACK", "ACK_SENT", "UPLINKING">>,
   <<"AWAITING_ACK_DISC", "ACK_RECEIVED", "DISCONNECTED">>,
   <<"AWAITING_ACK_CONN", "ACK_RECEIVED", "EMERGENCY_UPLINK">>,
   <<"AWAITING_ACK_CONN", "NO_ACK", "SENDING_CONN">>,
   <<"UPLINKING", "UPLINK_FINISHED", "DOWNLINKING">>,
   <<"UPLINKING", "START_DISC", "SENDING_DISC">>,
   <<"DOWNLINKING", "DOWNLINK_FINISHED", "UPLINKING">>,
   <<"ENTERING_EMERGENCY", "EMERG_INITIALIZED", "SENDING_CONN">>,
   <<"EMERGENCY_UPLINK", "UPLINK_FINISHED", "DISCONNECTED">>}
  \cup {<<s, "ERROR", "DISCONNECTED">> : s \in States \ {"DISCONNECTED"}}

\* The event a handler ends with, where it ends with one.
Completion(s) ==
  CASE s = "SENDING_CONN"       -> "CONN_SENT"
    [] s = "SENDING_DISC"       -> "DISC_SENT"
    [] s = "SENDING_ACK"        -> "ACK_SENT"
    [] s = "UPLINKING"          -> "UPLINK_FINISHED"
    [] s = "DOWNLINKING"        -> "DOWNLINK_FINISHED"
    [] s = "ENTERING_EMERGENCY" -> "EMERG_INITIALIZED"
    [] OTHER                    -> "none"

CommsEvents == {t[2] : t \in Transitions} \cup {"DISC_RECEIVED"}

\* Where a handler first waits for another party.  Those of DISCONNECTED and
\* EMERGENCY_UPLINK wait for nobody; nothing in this build sends an event that
\* leads to the AWAITING_ACK states.
Entry(s) ==
  CASE s \in {"AWAITING_CONN", "UPLINKING"} -> "read"
    [] s = "DOWNLINKING"                    -> "downlink"
    [] s \in {"SENDING_CONN", "SENDING_DISC", "SENDING_ACK", "ENTERING_EMERGENCY"} -> "post"
    [] OTHER                                -> "idle"

\* sendToCommsManagerQueue waits 10 ms for room and then gives the event up.
SentToCommsQueue(e) ==
  IF Len(commsQueue) < CommsQueueLength THEN Append(commsQueue, e) ELSE commsQueue

Count(s, Test(_)) == Cardinality({k \in DOMAIN s : Test(s[k])})

IsUFrame(f) == f.kind \in {"conn", "ack", "disc"}

\* The event queue has a place for every U frame that waits for the decoder, and two more.
FewUFrames == Count(decodeQueue, IsUFrame) + 2 <= CommsQueueLength

-----------------------------------------------------------------------------
\* The task runs the handler of its first state, AWAITING_CONN, before its loop.
Init ==
  /\ commsState = "AWAITING_CONN"
  /\ cm = "read"
  /\ rx = [frame |-> Partial, left |-> 0]
  /\ sent = 0
  /\ commsQueue = <<>>
  /\ decodeQueue = <<>>
  /\ commandQueue = <<>>
  /\ encodeQueue = <<>>
  /\ transmitQueue = <<>>
  /\ todo = <<>>
  /\ alarms = {} /\ alarmAnswered = FALSE
  /\ downlinkReady = FALSE
  /\ writing = [p \in Producers |-> <<>>]
  /\ cmdResBuffer = <<>>
  /\ outbox = <<>>
  /\ downlinked = <<>>
  /\ crowded = ~FewUFrames
  /\ frames = 0
  /\ nextId = 1

-----------------------------------------------------------------------------
(* The comms manager task. *)

Numbered(cmds) == [k \in DOMAIN cmds |-> [id |-> nextId + k - 1, kind |-> cmds[k]]]

\* Only a frame with an information field fills more than one chunk.
Chunks(f) == IF f.kind \in {"data", "corrupt"} THEN FrameChunks ELSE 1

\* sciReadBytes blocks until the ground has sent the expected number of bytes.
ReadFrame(f) ==
  /\ cm = "read"
  /\ f \in (IF commsState = "AWAITING_CONN" THEN ConnUplinks ELSE Uplinks)
  /\ frames < MaxFrames
  /\ nextId + Len(f.cmds) <= MaxCommands + 1
  /\ frames' = frames + 1
  /\ nextId' = nextId + Len(f.cmds)
  /\ rx' = [frame |-> [kind |-> f.kind, cmds |-> Numbered(f.cmds)], left |-> Chunks(f)]
  /\ cm' = "push"
  /\ UNCHANGED <<commsState, sent, downlinked, crowded, commsQueue, uplink, encodeQueue, transmitQueue,
                 sources, encoder>>

PushChunkNoWait ==
  /\ cm = "push"
  /\ decodeQueue' = Append(decodeQueue, IF rx.left = 1 THEN rx.frame ELSE Partial)
  /\ crowded' = (crowded \/ ~FewUFrames')
  /\ rx' = [rx EXCEPT !.left = @ - 1]
  /\ cm' = IF rx.left > 1 THEN "push" ELSE IF commsState = "UPLINKING" THEN "post" ELSE "idle"
  /\ UNCHANGED <<commsState, sent, downlinked, commsQueue, todo, commandQueue, encodeQueue,
                 transmitQueue, sources, encoder, ground>>

\* sendToDecodeDataQueue blocks while the queue is full.
PushChunk ==
  /\ cm = "push"
  /\ Len(decodeQueue) < DecodeQueueLength
  /\ decodeQueue' = Append(decodeQueue, IF rx.left = 1 THEN rx.frame ELSE Partial)
  /\ crowded' = (crowded \/ ~FewUFrames')
  /\ rx' = [rx EXCEPT !.left = @ - 1]
  /\ cm' = IF rx.left > 1 THEN "push" ELSE IF commsState = "UPLINKING" THEN "post" ELSE "idle"
  /\ UNCHANGED <<commsState, sent, downlinked, commsQueue, todo, commandQueue, encodeQueue,
                 transmitQueue, sources, encoder, ground>>

\* A handler ends by sending its event to the task's own queue.  Should that be
\* full, the task sends COMMS_EVENT_ERROR instead, which fails just the same.
PostCompletion ==
  /\ cm = "post"
  /\ commsQueue' = SentToCommsQueue(Completion(commsState))
  /\ cm' = "idle"
  /\ UNCHANGED <<commsState, rx, sent, downlinked, crowded, uplink, encodeQueue, transmitQueue, sources,
                 encoder, ground>>

NextStates(e) == {t[3] : t \in {u \in Transitions : u[1] = commsState /\ u[2] = e}}

HandleEventRequeue ==
  /\ cm = "idle"
  /\ commsQueue # <<>>
  /\ \/ \E s \in NextStates(Head(commsQueue)) :
          /\ commsQueue' = Tail(commsQueue)
          /\ commsState' = s
          /\ cm' = Entry(s)
     \/ /\ NextStates(Head(commsQueue)) = {}
        /\ commsQueue' = Append(Tail(commsQueue), Head(commsQueue))
        /\ UNCHANGED <<commsState, cm>>
  /\ sent' = 0
  /\ UNCHANGED <<rx, downlinked, crowded, uplink, encodeQueue, transmitQueue, sources, encoder, ground>>

\* An event takes the task to its next state and into that state's handler; one
\* with no transition from the present state is dropped.
HandleEvent ==
  /\ cm = "idle"
  /\ commsQueue # <<>>
  /\ commsQueue' = Tail(commsQueue)
  /\ \/ \E s \in NextStates(Head(commsQueue)) :
          /\ commsState' = s
          /\ cm' = Entry(s)
     \/ /\ NextStates(Head(commsQueue)) = {}
        /\ UNCHANGED <<commsState, cm>>
  /\ sent' = 0
  /\ UNCHANGED <<rx, downlinked, crowded, uplink, encodeQueue, transmitQueue, sources, encoder, ground>>

DownlinkStopsAtPacket ==
  /\ cm = "downlink"
  /\ transmitQueue # <<>>
  /\ transmitQueue' = Tail(transmitQueue)
  /\ \/ /\ Head(transmitQueue) = End
        /\ UNCHANGED <<sent, downlinked>>
     \/ /\ Head(transmitQueue) # End
        /\ downlinked' = Append(downlinked, Head(transmitQueue).data)
        /\ sent' = sent + 1
  /\ cm' = "post"
  /\ UNCHANGED <<commsState, rx, crowded, commsQueue, uplink, encodeQueue, sources, encoder, ground>>

\* One turn of the loop in handleDownlinkingState, which blocks on an empty queue.
Downlink ==
  /\ cm = "downlink"
  /\ transmitQueue # <<>>
  /\ transmitQueue' = Tail(transmitQueue)
  /\ \/ /\ Head(transmitQueue) = End
        /\ cm' = "post"
        /\ UNCHANGED <<sent, downlinked>>
     \/ /\ Head(transmitQueue) # End
        /\ downlinked' = Append(downlinked, Head(transmitQueue).data)
        /\ sent' = sent + 1
        /\ cm' = IF sent + 1 = MaxDownlinkFrames THEN "post" ELSE "downlink"
  /\ UNCHANGED <<commsState, rx, crowded, commsQueue, uplink, encodeQueue, sources, encoder, ground>>

-----------------------------------------------------------------------------
(* The uplink decoder task. *)

\* A chunk that completes no frame, or a frame that does not decode.
DecodeNothing ==
  /\ todo = <<>>
  /\ decodeQueue # <<>>
  /\ Head(decodeQueue).kind \in {"partial", "corrupt"}
  /\ decodeQueue' = Tail(decodeQueue)
  /\ UNCHANGED <<manager, commsQueue, todo, commandQueue, encodeQueue, transmitQueue, sources,
                 encoder, ground>>

DecodeCommands ==
  /\ todo = <<>>
  /\ decodeQueue # <<>>
  /\ Head(decodeQueue).kind = "data"
  /\ decodeQueue' = Tail(decodeQueue)
  /\ todo' = Head(decodeQueue).cmds
  /\ UNCHANGED <<manager, commsQueue, commandQueue, encodeQueue, transmitQueue, sources,
                 encoder, ground>>

Received(kind) ==
  CASE kind = "conn" -> "CONN_RECEIVED"
    [] kind = "ack"  -> "ACK_RECEIVED"
    [] kind = "disc" -> "DISC_RECEIVED"

\* A U frame becomes an event.  The branch for DISC does not return: whatever
\* commands the frame seems to hold are passed on as well.
DecodeUFrame ==
  /\ todo = <<>>
  /\ decodeQueue # <<>>
  /\ LET f == Head(decodeQueue)
     IN  /\ f.kind \in {"conn", "ack", "disc"}
         /\ commsQueue' = SentToCommsQueue(Received(f.kind))
         /\ todo' = IF f.kind = "disc" /\ commsQueue' # commsQueue THEN f.cmds ELSE <<>>
  /\ decodeQueue' = Tail(decodeQueue)
  /\ UNCHANGED <<manager, commandQueue, encodeQueue, transmitQueue, sources, encoder, ground>>

PassCommandToFront ==
  /\ todo # <<>>
  /\ Len(commandQueue) < CommandQueueLength
  /\ commandQueue' = <<Head(todo)>> \o commandQueue
  /\ todo' = Tail(todo)
  /\ UNCHANGED <<manager, commsQueue, decodeQueue, encodeQueue, transmitQueue, sources,
                 encoder, ground>>

\* sendToCommandQueue blocks while the queue is full.
PassCommand ==
  /\ todo # <<>>
  /\ Len(commandQueue) < CommandQueueLength
  /\ commandQueue' = Append(commandQueue, Head(todo))
  /\ todo' = Tail(todo)
  /\ UNCHANGED <<manager, commsQueue, decodeQueue, encodeQueue, transmitQueue, sources,
                 encoder, ground>>

-----------------------------------------------------------------------------
(* The command manager, alarm manager and telemetry manager tasks. *)

ResponseBytes(id) == [k \in 1 .. ResponseChunks |-> Response(id)]

\* verifyCommand refuses some commands without a word, a time-tagged one becomes
\* an alarm, and any other is executed and answered.
ExecuteCommand ==
  /\ writing["command"] = <<>>
  /\ commandQueue # <<>>
  /\ commandQueue' = Tail(commandQueue)
  /\ LET c == Head(commandQueue)
     IN  \/ /\ c.kind = "refused"
            /\ UNCHANGED <<alarms, downlinkReady, writing>>
         \/ /\ c.kind = "tagged"
            /\ alarms' = alarms \cup {c.id}
            /\ UNCHANGED <<downlinkReady, writing>>
         \/ /\ c.kind \in {"ping", "telem"}
            /\ downlinkReady' = (downlinkReady \/ c.kind = "telem")
            /\ writing' = [writing EXCEPT !["command"] = ResponseBytes(c.id)]
            /\ UNCHANGED alarms
  /\ UNCHANGED <<manager, commsQueue, decodeQueue, todo, alarmAnswered, encodeQueue,
                 transmitQueue, encoder, ground>>

\* A time-tagged command runs in the alarm task, which answers for it.
ExecuteAlarm ==
  /\ writing["alarm"] = <<>>
  /\ \E id \in alarms :
       /\ alarms' = alarms \ {id}
       /\ alarmAnswered' = TRUE
       /\ writing' = [writing EXCEPT !["alarm"] = ResponseBytes(id)]
  /\ UNCHANGED <<manager, commsQueue, uplink, downlinkReady, encodeQueue, transmitQueue,
                 encoder, ground>>

TakeDownlinkReady ==
  /\ writing["telemetry"] = <<>>
  /\ downlinkReady
  /\ downlinkReady' = FALSE
  /\ writing' = [writing EXCEPT !["telemetry"] = <<TelemFile>>]
  /\ UNCHANGED <<manager, commsQueue, uplink, alarms, alarmAnswered, encodeQueue,
                 transmitQueue, encoder, ground>>

WriteEncodeQueueNoWait(p) ==
  /\ writing[p] # <<>>
  /\ encodeQueue' = IF Len(encodeQueue) < EncodeQueueLength
                    THEN Append(encodeQueue, Head(writing[p])) ELSE encodeQueue
  /\ writing' = [writing EXCEPT ![p] = Tail(@)]
  /\ UNCHANGED <<manager, commsQueue, uplink, alarms, alarmAnswered, downlinkReady,
                 transmitQueue, encoder, ground>>

\* sendToDownlinkEncodeQueue blocks while the queue is full.
WriteEncodeQueue(p) ==
  /\ writing[p] # <<>>
  /\ Len(encodeQueue) < EncodeQueueLength
  /\ encodeQueue' = Append(encodeQueue, Head(writing[p]))
  /\ writing' = [writing EXCEPT ![p] = Tail(@)]
  /\ UNCHANGED <<manager, commsQueue, uplink, alarms, alarmAnswered, downlinkReady,
                 transmitQueue, encoder, ground>>

-----------------------------------------------------------------------------
(* The downlink encoder task. *)

FilledLate(bytes) == Len(bytes) > ResponseChunks

\* The response buffer holds RS_DECODED_SIZE bytes.
Filled(bytes) == Len(bytes) >= ResponseChunks

ResponseDownlinkNoEnd(bytes) == <<Packet(bytes)>>

\* What a full buffer sends to the comms manager.
ResponseDownlink(bytes) == <<Packet(bytes), End>>

EncodeResponse ==
  /\ outbox = <<>>
  /\ encodeQueue # <<>>
  /\ Head(encodeQueue).type = "DOWNLINK_CMD_RESPONSE"
  /\ encodeQueue' = Tail(encodeQueue)
  /\ LET bytes == Append(cmdResBuffer, Head(encodeQueue).id)
     IN  \/ /\ ~Filled(bytes)
            /\ cmdResBuffer' = bytes
            /\ UNCHANGED outbox
         \/ /\ Filled(bytes)
            /\ cmdResBuffer' = <<>>
            /\ outbox' = ResponseDownlink(bytes)
  /\ UNCHANGED <<manager, commsQueue, uplink, transmitQueue, sources, ground>>

EncodeFile ==
  /\ outbox = <<>>
  /\ encodeQueue # <<>>
  /\ Head(encodeQueue) = TelemFile
  /\ encodeQueue' = Tail(encodeQueue)
  /\ \E n \in 0 .. MaxFilePackets :
       outbox' = [k \in 1 .. n + 1 |-> IF k <= n THEN Packet(<<>>) ELSE End]
  /\ UNCHANGED <<manager, commsQueue, uplink, transmitQueue, sources, cmdResBuffer, ground>>

\* sendToCC1120TransmitQueue blocks while the queue is full.
SendTransmit ==
  /\ outbox # <<>>
  /\ Len(transmitQueue) < TransmitQueueLength
  /\ transmitQueue' = Append(transmitQueue, Head(outbox))
  /\ outbox' = Tail(outbox)
  /\ UNCHANGED <<manager, commsQueue, uplink, encodeQueue, sources, cmdResBuffer, ground>>

-----------------------------------------------------------------------------
CommsManager == PushChunk \/ PostCompletion \/ HandleEvent \/ Downlink
Decoder      == DecodeNothing \/ DecodeCommands \/ DecodeUFrame \/ PassCommand
Encoder      == EncodeResponse \/ EncodeFile \/ SendTransmit

Next == \/ \E f \in ConnUplinks \cup Uplinks : ReadFrame(f)
        \/ CommsManager
        \/ Decoder
        \/ ExecuteCommand
        \/ ExecuteAlarm
        \/ TakeDownlinkReady
        \/ \E p \in Producers : WriteEncodeQueue(p)
        \/ Encoder

Spec == Init /\ [][Next]_vars

\* The scheduler runs every task that is ready: those of higher priority all wait
\* for a queue or a delay most of the time.  The ground promises nothing.
Fairness == /\ WF_vars(CommsManager)
            /\ WF_vars(Decoder)
            /\ WF_vars(ExecuteCommand)
            /\ WF_vars(ExecuteAlarm)
            /\ WF_vars(TakeDownlinkReady)
            /\ \A p \in Producers : WF_vars(WriteEncodeQueue(p))
            /\ WF_vars(Encoder)

FairSpec == Spec /\ Fairness

-----------------------------------------------------------------------------
(* Properties. *)

\* Every variable has its type, and no queue ever exceeds its capacity.
TypeOK ==
  /\ commsState \in States
  /\ cm \in {"read", "push", "post", "idle", "downlink"}
  /\ rx \in [frame : Frames \cup {Partial}, left : 0 .. FrameChunks]
  /\ sent \in 0 .. MaxDownlinkFrames
  /\ commsQueue \in Seq(CommsEvents)   /\ Len(commsQueue) <= CommsQueueLength
  /\ decodeQueue \in Seq(Frames \cup {Partial}) /\ Len(decodeQueue) <= DecodeQueueLength
  /\ commandQueue \in Seq(Commands)    /\ Len(commandQueue) <= CommandQueueLength
  /\ encodeQueue \in Seq(EncodeEvents) /\ Len(encodeQueue) <= EncodeQueueLength
  /\ transmitQueue \in Seq(TransmitEvents) /\ Len(transmitQueue) <= TransmitQueueLength
  /\ todo \in Seq(Commands)
  /\ alarms \subseteq Ids /\ alarmAnswered \in BOOLEAN
  /\ downlinkReady \in BOOLEAN
  /\ writing \in [Producers -> Seq(EncodeEvents)]
  /\ cmdResBuffer \in Seq(Ids)         /\ Len(cmdResBuffer) < ResponseChunks
  /\ outbox \in Seq(TransmitEvents)
  /\ downlinked \in Seq(Seq(Ids))      /\ crowded \in BOOLEAN
  /\ frames \in 0 .. MaxFrames
  /\ nextId \in 1 .. MaxCommands + 1

Packets == {outbox[k] : k \in DOMAIN outbox} \cup {transmitQueue[k] : k \in DOMAIN transmitQueue}

\* Every packet on its way to the ground holds the response of one command,
\* although the encoder collects single bytes from several tasks in one buffer, up to
\* the first answer of the alarm manager (after it, two tasks mix their bytes).
WholePackets ==
  ~alarmAnswered => \A p \in Packets : \A j \in DOMAIN p.data : p.data[j] = p.data[1]

\* How often command id waits to be executed.
Waiting(id) ==
  LET Is(c)       == c.id = id
      Carries(f)  == \E k \in DOMAIN f.cmds : f.cmds[k].id = id
  IN  (IF cm = "push" /\ Carries(rx.frame) THEN 1 ELSE 0)
      + Count(decodeQueue, Carries) + Count(todo, Is) + Count(commandQueue, Is)
      + (IF id \in alarms THEN 1 ELSE 0)

\* How many bytes of its response are on the way or have reached the ground.
BytesOf(id) ==
  LET Is(e)      == e = Response(id)
      IsByte(b)  == b = id
      Bytes(ps)  == Cardinality({at \in (DOMAIN ps) \X (1 .. ResponseChunks) :
                                   at[2] \in DOMAIN ps[at[1]] /\ ps[at[1]][at[2]] = id})
      Data(q)    == [k \in DOMAIN q |-> q[k].data]
  IN  Count(writing["command"], Is) + Count(writing["alarm"], Is) + Count(encodeQueue, Is)
      + Count(cmdResBuffer, IsByte)
      + Bytes(Data(outbox)) + Bytes(Data(transmitQueue)) + Bytes(downlinked)

\* A command that was uplinked is either waiting, once, or all the bytes of its
\* response are on the way or on the ground: nothing is lost or sent twice in the
\* five queues.  (For frames whose commands are all answered and that decode.)  With
\* too many U frames waiting, the commands of a DISC frame go with its event.
NothingLost ==
  ~crowded =>
    \A id \in 1 .. nextId - 1 :
      \/ Waiting(id) = 1 /\ BytesOf(id) = 0
      \/ Waiting(id) = 0 /\ BytesOf(id) = ResponseChunks

\* Until more U frames wait for the decoder than there are places in the event queue,
\* less two, there is room for every event sent to the comms manager.  With one U
\* frame more an event may be dropped, the manager's own, after which it idles, or
\* the decoder's: every sender gives up after 10 ms.
EventsFit ==
  ~crowded =>
    (\/ cm = "post"
     \/ todo = <<>> /\ decodeQueue # <<>> /\ IsUFrame(Head(decodeQueue))
     => Len(commsQueue) < CommsQueueLength)

\* Responses reach the ground in the order in which the commands were sent, up to the
\* first answer of the alarm manager.
AnsweredInOrder ==
  ~alarmAnswered =>
    \A j, k \in DOMAIN downlinked :
      j < k /\ downlinked[j] # <<>> /\ downlinked[k] # <<>> => downlinked[j][1] < downlinked[k][1]

\* The link is stop-and-wait: when the comms manager reads the next frame, nothing
\* is left in the ring of the frames before.  (For one answered command, the
\* last, in each frame.)
ReadsWhenQuiet ==
  cm = "read" => /\ decodeQueue = <<>> /\ todo = <<>> /\ commandQueue = <<>>
                 /\ \A p \in Producers : writing[p] = <<>>
                 /\ encodeQueue = <<>> /\ cmdResBuffer = <<>>
                 /\ outbox = <<>> /\ transmitQueue = <<>>

\* Once the comms manager waits for responses, they come and it goes on.
DownlinkReturns == cm = "downlink" ~> cm # "downlink"

\* Pushing a frame to the decoder comes to an end, although the manager is also the
\* one that empties the last queue of the ring.  (For one answered command in each
\* frame; with more in a frame than the queues hold, the ring locks up.)
UplinkReturns == cm = "push" ~> cm # "push"
=============================================================================
