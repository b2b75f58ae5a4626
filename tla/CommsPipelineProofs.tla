------------------------- MODULE CommsPipelineProofs -------------------------
(***************************************************************************)
(* What holds of the command pipeline for queues, frames and responses of  *)
(* every length: its types and the capacities of its queues; that, until   *)
(* the alarm manager answers, packets are whole and reach the ground in    *)
(* the order of their commands; and, as long as few U frames wait for the  *)
(* decoder, that no event is dropped and that no command and no byte of a  *)
(* response is lost or sent twice; and, with one answered command in each  *)
(* frame, that the manager reads only when nothing is left of the last,    *)
(* and that the ring never locks up; and that every step while the manager *)
(* waits brings the end of its waiting nearer.                             *)
(***************************************************************************)
EXTENDS CommsPipeline, SequenceTheorems, FiniteSetTheorems, TLAPS

\* A handler posts an event only in a state that has one, pushes a frame only while
\* chunks are left of it, and counts the frames of a downlink up to the most.
Handlers ==
  /\ cm = "post" => Completion(commsState) \in CommsEvents
  /\ cm = "push" => rx.left \in 1 .. FrameChunks /\ rx.frame \in Frames
  /\ cm = "downlink" => commsState = "DOWNLINKING" /\ sent < MaxDownlinkFrames

\* TypeOK by the parts of the state that steps change together.
TypeManager ==
  /\ commsState \in States
  /\ cm \in {"read", "push", "post", "idle", "downlink"}
  /\ rx \in [frame : Frames \cup {Partial}, left : 0 .. FrameChunks]
  /\ sent \in 0 .. MaxDownlinkFrames
  /\ downlinked \in Seq(Seq(Ids))
  /\ Handlers
TypeComms     == commsQueue \in Seq(CommsEvents) /\ Len(commsQueue) <= CommsQueueLength
TypeDecode    == decodeQueue \in Seq(Frames \cup {Partial}) /\ Len(decodeQueue) <= DecodeQueueLength
TypeCommand   == commandQueue \in Seq(Commands) /\ Len(commandQueue) <= CommandQueueLength
TypeTodo      == todo \in Seq(Commands)
TypeEncode    == encodeQueue \in Seq(EncodeEvents) /\ Len(encodeQueue) <= EncodeQueueLength
TypeTransmit  == transmitQueue \in Seq(TransmitEvents) /\ Len(transmitQueue) <= TransmitQueueLength
TypeAlarms    == alarms \subseteq Ids
TypeAnswered  == alarmAnswered \in BOOLEAN
TypeSemaphore == downlinkReady \in BOOLEAN
TypeCrowded   == crowded \in BOOLEAN
TypeWriting   == writing \in [Producers -> Seq(EncodeEvents)]
TypeBuffer    == cmdResBuffer \in Seq(Ids) /\ Len(cmdResBuffer) < ResponseChunks
TypeOutbox    == outbox \in Seq(TransmitEvents)
TypeGround    == frames \in 0 .. MaxFrames /\ nextId \in 1 .. MaxCommands + 1

TypeUplink  == TypeDecode /\ TypeTodo /\ TypeCommand
TypeSources == TypeAlarms /\ TypeAnswered /\ TypeSemaphore /\ TypeWriting
TypeEncoder == TypeBuffer /\ TypeOutbox

IInv == /\ TypeManager /\ TypeComms /\ TypeUplink /\ TypeEncode /\ TypeTransmit
        /\ TypeSources /\ TypeEncoder /\ TypeGround

LEMMA InvImpliesType == IInv /\ TypeCrowded => TypeOK
  BY DEF IInv, TypeOK, TypeManager, TypeComms, TypeUplink, TypeDecode, TypeTodo, TypeCommand,
         TypeEncode, TypeTransmit, TypeSources, TypeAlarms, TypeAnswered, TypeSemaphore, TypeWriting,
         TypeEncoder, TypeBuffer, TypeOutbox, TypeGround, TypeCrowded

\* A part stays what it is while its variables do.
LEMMA Unchanged ==
  /\ TypeManager /\ UNCHANGED manager => TypeManager'
  /\ TypeComms /\ UNCHANGED commsQueue => TypeComms'
  /\ TypeDecode /\ UNCHANGED decodeQueue => TypeDecode'
  /\ TypeCommand /\ UNCHANGED commandQueue => TypeCommand'
  /\ TypeTodo /\ UNCHANGED todo => TypeTodo'
  /\ TypeEncode /\ UNCHANGED encodeQueue => TypeEncode'
  /\ TypeTransmit /\ UNCHANGED transmitQueue => TypeTransmit'
  /\ TypeAlarms /\ UNCHANGED alarms => TypeAlarms'
  /\ TypeAnswered /\ UNCHANGED alarmAnswered => TypeAnswered'
  /\ TypeSemaphore /\ UNCHANGED downlinkReady => TypeSemaphore'
  /\ TypeWriting /\ UNCHANGED writing => TypeWriting'
  /\ TypeBuffer /\ UNCHANGED cmdResBuffer => TypeBuffer'
  /\ TypeOutbox /\ UNCHANGED outbox => TypeOutbox'
  /\ TypeGround /\ UNCHANGED ground => TypeGround'
<1>1. TypeManager /\ UNCHANGED manager => TypeManager'
  BY DEF TypeManager, Handlers, manager, Completion
<1>2. TypeSemaphore /\ UNCHANGED downlinkReady => TypeSemaphore'
  BY Zenon DEF TypeSemaphore
<1>3. TypeAnswered /\ UNCHANGED alarmAnswered => TypeAnswered'
  BY Zenon DEF TypeAnswered
<1> QED
  BY <1>1, <1>2, <1>3 DEF TypeComms, TypeDecode, TypeCommand, TypeTodo, TypeEncode, TypeTransmit,
     TypeAlarms, TypeWriting, TypeBuffer, TypeOutbox, TypeGround, ground

\* ... and so does a group of them.
LEMMA UnchangedGroups ==
  /\ TypeUplink /\ UNCHANGED uplink => TypeUplink'
  /\ TypeSources /\ UNCHANGED sources => TypeSources'
  /\ TypeEncoder /\ UNCHANGED encoder => TypeEncoder'
  BY Unchanged DEF TypeUplink, uplink, TypeSources, sources, TypeEncoder, encoder

-----------------------------------------------------------------------------
(* Queues. *)

\* What a bounded queue is after a send.
LEMMA Sent ==
  ASSUME NEW S, NEW q \in Seq(S), NEW x \in S
  PROVE  Append(q, x) \in Seq(S) /\ Len(Append(q, x)) = Len(q) + 1
  BY AppendProperties

\* ... and after a receive, and what was received.
LEMMA Taken ==
  ASSUME NEW S, NEW q \in Seq(S), q # <<>>
  PROVE  Head(q) \in S /\ Tail(q) \in Seq(S) /\ Len(Tail(q)) = Len(q) - 1
  BY HeadTailProperties

LEMMA EmptyQueue == ASSUME NEW S PROVE <<>> \in Seq(S) /\ Len(<<>>) = 0
  BY EmptySeq

\* A sequence given by its elements.
LEMMA Listed ==
  ASSUME NEW S, NEW n \in Nat, NEW f \in [1 .. n -> S]
  PROVE  f \in Seq(S) /\ Len(f) = n
  BY SeqDef

-----------------------------------------------------------------------------
(* The state machine. *)

LEMMA TransitionTypes ==
  \A t \in Transitions : t[2] \in CommsEvents /\ t[3] \in States
<1>1. \A t \in Transitions : t[2] \in CommsEvents
  BY DEF CommsEvents
<1>2. \A t \in Transitions : t[3] \in States
  BY DEF Transitions, States
<1> QED
  BY <1>1, <1>2

\* A state whose handler only posts its completion has one.
LEMMA CompletionTypes ==
  ASSUME NEW s \in States,
         s \in {"UPLINKING", "DOWNLINKING"} \/ Entry(s) = "post"
  PROVE  Completion(s) \in CommsEvents
<1>1. s \in {"UPLINKING", "DOWNLINKING", "SENDING_CONN", "SENDING_DISC", "SENDING_ACK",
             "ENTERING_EMERGENCY"}
  BY DEF Entry
<1>2. /\ <<"SENDING_CONN", "CONN_SENT", "AWAITING_ACK_CONN">> \in Transitions
      /\ <<"SENDING_DISC", "DISC_SENT", "AWAITING_ACK_DISC">> \in Transitions
      /\ <<"SENDING_ACK", "ACK_SENT", "UPLINKING">> \in Transitions
      /\ <<"UPLINKING", "UPLINK_FINISHED", "DOWNLINKING">> \in Transitions
      /\ <<"DOWNLINKING", "DOWNLINK_FINISHED", "UPLINKING">> \in Transitions
      /\ <<"ENTERING_EMERGENCY", "EMERG_INITIALIZED", "SENDING_CONN">> \in Transitions
  BY DEF Transitions
<1>3. {"CONN_SENT", "DISC_SENT", "ACK_SENT", "UPLINK_FINISHED", "DOWNLINK_FINISHED",
       "EMERG_INITIALIZED"} \subseteq CommsEvents
  BY <1>2, TransitionTypes
<1> QED
  BY <1>1, <1>3 DEF Completion

LEMMA ReceivedTypes ==
  ASSUME NEW kind \in {"conn", "ack", "disc"}
  PROVE  Received(kind) \in CommsEvents
<1>1. /\ <<"AWAITING_CONN", "CONN_RECEIVED", "SENDING_ACK">> \in Transitions
      /\ <<"AWAITING_ACK_CONN", "ACK_RECEIVED", "EMERGENCY_UPLINK">> \in Transitions
  BY DEF Transitions
<1>2. {"CONN_RECEIVED", "ACK_RECEIVED", "DISC_RECEIVED"} \subseteq CommsEvents
  BY <1>1, TransitionTypes DEF CommsEvents
<1> QED
  BY <1>2 DEF Received

\* The event queue of the comms manager never exceeds its length.
LEMMA SentToCommsQueueTypes ==
  ASSUME commsQueue \in Seq(CommsEvents), Len(commsQueue) <= CommsQueueLength,
         NEW e \in CommsEvents
  PROVE  /\ SentToCommsQueue(e) \in Seq(CommsEvents)
         /\ Len(SentToCommsQueue(e)) <= CommsQueueLength
<1>1. Len(commsQueue) \in Nat
  BY LenProperties
<1>2. Append(commsQueue, e) \in Seq(CommsEvents) /\ Len(Append(commsQueue, e)) = Len(commsQueue) + 1
  BY Sent
<1> QED
  BY <1>1, <1>2, PipelineAssumption DEF SentToCommsQueue

-----------------------------------------------------------------------------
LEMMA InvInit == ASSUME Init PROVE IInv
<1>1. \A S : <<>> \in Seq(S)
  BY EmptyQueue
<1>2. Len(<<>>) = 0
  BY EmptyQueue
<1>3. TypeManager
  BY <1>1, PipelineAssumption DEF Init, TypeManager, Handlers, States
<1>4. TypeComms /\ TypeUplink /\ TypeEncode /\ TypeTransmit /\ TypeEncoder
  BY <1>1, <1>2, PipelineAssumption DEF Init, TypeComms, TypeUplink, TypeDecode, TypeTodo,
     TypeCommand, TypeEncode, TypeTransmit, TypeEncoder, TypeBuffer, TypeOutbox
<1>5. TypeAlarms /\ TypeWriting
  BY <1>1 DEF Init, TypeAlarms, TypeWriting
<1>6. TypeAnswered /\ TypeSemaphore
  BY DEF Init, TypeAnswered, TypeSemaphore
<1>7. TypeGround
  BY PipelineAssumption DEF Init, TypeGround
<1> QED
  BY <1>3, <1>4, <1>5, <1>6, <1>7 DEF IInv, TypeSources

-----------------------------------------------------------------------------
(* The comms manager. *)

\* Commands get the next numbers, and there are numbers enough.
LEMMA NumberedTypes ==
  ASSUME NEW cmds \in Seq(CommandKinds), nextId \in 1 .. MaxCommands + 1,
         nextId + Len(cmds) <= MaxCommands + 1
  PROVE  Numbered(cmds) \in Seq(Commands)
<1> DEFINE n == Len(cmds)
           f == [k \in 1 .. n |-> [id |-> nextId + k - 1, kind |-> cmds[k]]]
<1>1. n \in Nat /\ DOMAIN cmds = 1 .. n
  BY LenProperties
<1>2. ASSUME NEW k \in 1 .. n
      PROVE  [id |-> nextId + k - 1, kind |-> cmds[k]] \in Commands
  <2>1. cmds[k] \in CommandKinds
    BY ElementOfSeq
  <2>2. nextId + k - 1 \in Ids
    BY <1>1, PipelineAssumption DEF Ids
  <2> QED
    BY <2>1, <2>2 DEF Commands
<1>3. f \in [1 .. n -> Commands]
  BY <1>2
<1>4. f \in Seq(Commands)
  BY <1>1, <1>3, Listed
<1> QED
  BY <1>1, <1>4 DEF Numbered

LEMMA ReadFrameInv ==
  ASSUME IInv, NEW f \in ConnUplinks \cup Uplinks, ReadFrame(f)
  PROVE  IInv'
<1> USE DEF IInv
<1>1. f.kind \in FrameKinds /\ f.cmds \in Seq(CommandKinds)
  BY PipelineAssumption
<1>2. Numbered(f.cmds) \in Seq(Commands)
  BY <1>1, NumberedTypes DEF ReadFrame, TypeGround
<1>3. [kind |-> f.kind, cmds |-> Numbered(f.cmds)] \in Frames
  BY <1>1, <1>2 DEF Frames
<1>4. Chunks(f) \in 1 .. FrameChunks
  BY PipelineAssumption DEF Chunks
<1>5. TypeManager'
  BY <1>3, <1>4, PipelineAssumption DEF ReadFrame, TypeManager, Handlers
<1>6. TypeGround'
  <2>1. Len(f.cmds) \in Nat
    BY <1>1, LenProperties
  <2> QED
    BY <2>1, PipelineAssumption DEF ReadFrame, TypeGround
<1> QED
  BY <1>5, <1>6, Unchanged, UnchangedGroups DEF ReadFrame

LEMMA PushChunkInv == ASSUME IInv, PushChunk PROVE IInv'
<1> USE DEF IInv
<1>1. rx.left \in 1 .. FrameChunks /\ rx.frame \in Frames
  BY DEF PushChunk, TypeManager, Handlers
<1>2. TypeDecode'
  <2>1. (IF rx.left = 1 THEN rx.frame ELSE Partial) \in Frames \cup {Partial}
    BY <1>1
  <2>2. /\ decodeQueue' \in Seq(Frames \cup {Partial})
        /\ Len(decodeQueue') = Len(decodeQueue) + 1
    BY <2>1, Sent DEF PushChunk, TypeUplink, TypeDecode
  <2>3. Len(decodeQueue) \in Nat
    BY LenProperties DEF TypeUplink, TypeDecode
  <2> QED
    BY <2>2, <2>3, PipelineAssumption DEF PushChunk, TypeDecode
<1>3. TypeManager'
  <2>1. /\ rx' \in [frame : Frames \cup {Partial}, left : 0 .. FrameChunks]
        /\ rx'.frame = rx.frame /\ rx'.left = rx.left - 1
    <3>1. rx \in [frame : Frames \cup {Partial}, left : 0 .. FrameChunks]
      BY DEF TypeManager
    <3>2. rx' = [rx EXCEPT !.left = rx.left - 1]
      BY DEF PushChunk
    <3>3. rx.left - 1 \in 0 .. FrameChunks
      BY <1>1, PipelineAssumption
    <3> QED
      BY <3>1, <3>2, <3>3
  <2>2. CASE rx.left > 1
    BY <1>1, <2>1, <2>2, PipelineAssumption DEF PushChunk, TypeManager, Handlers
  <2>3. CASE rx.left = 1 /\ commsState = "UPLINKING"
    <3>1. Completion(commsState) \in CommsEvents
      BY <2>3, CompletionTypes DEF TypeManager
    <3> QED
      BY <1>1, <2>1, <2>3, <3>1, PipelineAssumption DEF PushChunk, TypeManager, Handlers
  <2>4. CASE rx.left = 1 /\ commsState # "UPLINKING"
    BY <1>1, <2>1, <2>4, PipelineAssumption DEF PushChunk, TypeManager, Handlers
  <2> QED
    BY <1>1, <2>2, <2>3, <2>4
<1> QED
  BY <1>2, <1>3, Unchanged, UnchangedGroups DEF PushChunk, TypeUplink

LEMMA PostCompletionInv == ASSUME IInv, PostCompletion PROVE IInv'
<1> USE DEF IInv
<1>1. Completion(commsState) \in CommsEvents
  BY DEF PostCompletion, TypeManager, Handlers
<1>2. TypeComms'
  BY <1>1, SentToCommsQueueTypes DEF PostCompletion, TypeComms
<1>3. TypeManager'
  BY DEF PostCompletion, TypeManager, Handlers
<1> QED
  BY <1>2, <1>3, Unchanged, UnchangedGroups DEF PostCompletion

LEMMA HandleEventInv == ASSUME IInv, HandleEvent PROVE IInv'
<1> USE DEF IInv
<1>1. TypeComms'
  BY Taken, LenProperties, PipelineAssumption DEF HandleEvent, TypeComms
<1>2. TypeManager'
  <2>1. CASE UNCHANGED <<commsState, cm>>
    BY <2>1, PipelineAssumption DEF HandleEvent, TypeManager, Handlers
  <2>2. ASSUME NEW s \in NextStates(Head(commsQueue)), commsState' = s, cm' = Entry(s)
        PROVE  TypeManager'
    <3>1. s \in States
      BY TransitionTypes DEF NextStates
    <3>2. Entry(s) \in {"read", "downlink", "post", "idle"}
      BY DEF Entry
    <3>3. Entry(s) = "downlink" => s = "DOWNLINKING"
      BY DEF Entry
    <3>4. Entry(s) = "post" => Completion(s) \in CommsEvents
      BY <3>1, CompletionTypes
    <3>5. sent' = 0 /\ 0 < MaxDownlinkFrames /\ 0 \in 0 .. MaxDownlinkFrames
      BY PipelineAssumption DEF HandleEvent
    <3> QED
      BY <2>2, <3>1, <3>2, <3>3, <3>4, <3>5 DEF HandleEvent, TypeManager, Handlers
  <2> QED
    BY <2>1, <2>2 DEF HandleEvent
<1> QED
  BY <1>1, <1>2, Unchanged, UnchangedGroups DEF HandleEvent

LEMMA DownlinkInv == ASSUME IInv, Downlink PROVE IInv'
<1> USE DEF IInv
<1>1. /\ Head(transmitQueue) \in TransmitEvents
      /\ Tail(transmitQueue) \in Seq(TransmitEvents)
      /\ Len(Tail(transmitQueue)) = Len(transmitQueue) - 1
  BY Taken DEF Downlink, TypeTransmit
<1>2. TypeTransmit'
  BY <1>1, LenProperties, PipelineAssumption DEF Downlink, TypeTransmit
<1>3. commsState = "DOWNLINKING" /\ sent \in 0 .. MaxDownlinkFrames - 1
  BY PipelineAssumption DEF Downlink, TypeManager, Handlers
<1>4. Completion(commsState) \in CommsEvents
  BY <1>3, CompletionTypes DEF TypeManager
<1>5. downlinked' \in Seq(Seq(Ids))
  <2>1. Head(transmitQueue).data \in Seq(Ids)
    BY <1>1 DEF TransmitEvents
  <2>2. downlinked \in Seq(Seq(Ids))
    BY DEF TypeManager
  <2>3. Append(downlinked, Head(transmitQueue).data) \in Seq(Seq(Ids))
    BY <2>1, <2>2, Sent
  <2> QED
    BY <2>2, <2>3 DEF Downlink
<1>6. TypeManager'
  <2>1. CASE Head(transmitQueue) = End
    BY <1>3, <1>4, <1>5, <2>1 DEF Downlink, TypeManager, Handlers
  <2>2. CASE Head(transmitQueue) # End /\ sent + 1 = MaxDownlinkFrames
    BY <1>3, <1>4, <1>5, <2>2, PipelineAssumption DEF Downlink, TypeManager, Handlers
  <2>3. CASE Head(transmitQueue) # End /\ sent + 1 # MaxDownlinkFrames
    BY <1>3, <1>4, <1>5, <2>3, PipelineAssumption DEF Downlink, TypeManager, Handlers
  <2> QED
    BY <2>1, <2>2, <2>3
<1> QED
  BY <1>2, <1>6, Unchanged, UnchangedGroups DEF Downlink

-----------------------------------------------------------------------------
(* The uplink decoder. *)

\* What a receive from the decode queue yields and leaves.
LEMMA DecodeTaken ==
  ASSUME IInv, decodeQueue # <<>>, decodeQueue' = Tail(decodeQueue)
  PROVE  TypeDecode' /\ Head(decodeQueue) \in Frames \cup {Partial}
<1>1. decodeQueue \in Seq(Frames \cup {Partial}) /\ Len(decodeQueue) <= DecodeQueueLength
  BY DEF IInv, TypeUplink, TypeDecode
<1> QED
  BY <1>1, Taken, LenProperties, PipelineAssumption DEF TypeDecode

LEMMA DecodeNothingInv == ASSUME IInv, DecodeNothing PROVE IInv'
<1>1. TypeDecode'
  BY DecodeTaken DEF DecodeNothing
<1> QED
  BY <1>1, Unchanged, UnchangedGroups DEF IInv, DecodeNothing, TypeUplink

\* The commands of a frame.
LEMMA FrameCommands == \A f \in Frames \cup {Partial} : f.cmds \in Seq(Commands)
<1>1. Partial.cmds \in Seq(Commands)
  BY EmptyQueue DEF Partial
<1> QED
  BY <1>1 DEF Frames

LEMMA DecodeCommandsInv == ASSUME IInv, DecodeCommands PROVE IInv'
<1>1. TypeDecode' /\ TypeTodo'
  BY DecodeTaken, FrameCommands DEF DecodeCommands, TypeTodo
<1> QED
  BY <1>1, Unchanged, UnchangedGroups DEF IInv, DecodeCommands, TypeUplink

LEMMA DecodeUFrameInv == ASSUME IInv, DecodeUFrame PROVE IInv'
<1> DEFINE f == Head(decodeQueue)
<1>1. TypeDecode' /\ f \in Frames \cup {Partial}
  BY DecodeTaken DEF DecodeUFrame
<1>2. TypeTodo'
  BY <1>1, FrameCommands, EmptyQueue DEF DecodeUFrame, TypeTodo
<1>3. TypeComms'
  BY ReceivedTypes, SentToCommsQueueTypes DEF IInv, DecodeUFrame, TypeComms
<1> QED
  BY <1>1, <1>2, <1>3, Unchanged, UnchangedGroups DEF IInv, DecodeUFrame, TypeUplink

LEMMA PassCommandInv == ASSUME IInv, PassCommand PROVE IInv'
<1>1. /\ Head(todo) \in Commands
      /\ TypeTodo'
  BY Taken DEF IInv, PassCommand, TypeUplink, TypeTodo
<1>2. TypeCommand'
  <2>1. /\ commandQueue' \in Seq(Commands)
        /\ Len(commandQueue') = Len(commandQueue) + 1
    BY <1>1, Sent DEF IInv, PassCommand, TypeUplink, TypeCommand
  <2>2. Len(commandQueue) \in Nat
    BY LenProperties DEF IInv, TypeUplink, TypeCommand
  <2> QED
    BY <2>1, <2>2, PipelineAssumption DEF PassCommand, TypeCommand
<1> QED
  BY <1>1, <1>2, Unchanged, UnchangedGroups DEF IInv, PassCommand, TypeUplink

-----------------------------------------------------------------------------
(* The tasks that answer. *)

LEMMA ResponseBytesType ==
  ASSUME NEW id \in Ids
  PROVE  ResponseBytes(id) \in Seq(EncodeEvents)
<1>1. Response(id) \in EncodeEvents
  BY DEF EncodeEvents
<1>2. [k \in 1 .. ResponseChunks |-> Response(id)] \in [1 .. ResponseChunks -> EncodeEvents]
  BY <1>1
<1> QED
  BY <1>2, Listed, PipelineAssumption DEF ResponseBytes

LEMMA ExecuteCommandInv == ASSUME IInv, ExecuteCommand PROVE IInv'
<1> DEFINE c == Head(commandQueue)
<1>1. c \in Commands /\ TypeCommand'
  BY Taken, LenProperties, PipelineAssumption DEF IInv, ExecuteCommand, TypeUplink, TypeCommand
<1>2. c.id \in Ids
  BY <1>1 DEF Commands
<1>3. TypeAlarms'
  BY <1>2 DEF IInv, ExecuteCommand, TypeSources, TypeAlarms
<1>4. TypeSemaphore'
  BY Zenon DEF IInv, ExecuteCommand, TypeSources, TypeSemaphore
<1>5. TypeWriting'
  BY <1>2, ResponseBytesType DEF IInv, ExecuteCommand, TypeSources, TypeWriting
<1> QED
  BY <1>1, <1>3, <1>4, <1>5, Unchanged, UnchangedGroups
  DEF IInv, ExecuteCommand, TypeUplink, TypeSources

LEMMA ExecuteAlarmInv == ASSUME IInv, ExecuteAlarm PROVE IInv'
<1>1. PICK id \in alarms : /\ alarms' = alarms \ {id}
                           /\ writing' = [writing EXCEPT !["alarm"] = ResponseBytes(id)]
  BY DEF ExecuteAlarm
<1>2. id \in Ids /\ TypeAlarms'
  BY <1>1 DEF IInv, TypeSources, TypeAlarms
<1>3. TypeWriting'
  BY <1>1, <1>2, ResponseBytesType DEF IInv, TypeSources, TypeWriting
<1>4. TypeAnswered'
  BY DEF ExecuteAlarm, TypeAnswered
<1> QED
  BY <1>2, <1>3, <1>4, Unchanged, UnchangedGroups DEF IInv, ExecuteAlarm, TypeSources

LEMMA TakeDownlinkReadyInv == ASSUME IInv, TakeDownlinkReady PROVE IInv'
<1>1. <<TelemFile>> \in Seq(EncodeEvents)
  BY DEF EncodeEvents
<1>2. TypeWriting'
  BY <1>1 DEF IInv, TakeDownlinkReady, TypeSources, TypeWriting
<1>3. TypeSemaphore'
  BY DEF TakeDownlinkReady, TypeSemaphore
<1> QED
  BY <1>2, <1>3, Unchanged, UnchangedGroups DEF IInv, TakeDownlinkReady, TypeSources

LEMMA WriteEncodeQueueInv ==
  ASSUME IInv, NEW p \in Producers, WriteEncodeQueue(p)
  PROVE  IInv'
<1>1. writing[p] \in Seq(EncodeEvents) /\ writing[p] # <<>>
  BY DEF IInv, WriteEncodeQueue, TypeSources, TypeWriting
<1>2. Head(writing[p]) \in EncodeEvents /\ Tail(writing[p]) \in Seq(EncodeEvents)
  BY <1>1, Taken
<1>3. TypeWriting'
  BY <1>2 DEF IInv, WriteEncodeQueue, TypeSources, TypeWriting
<1>4. TypeEncode'
  <2>1. encodeQueue' \in Seq(EncodeEvents) /\ Len(encodeQueue') = Len(encodeQueue) + 1
    BY <1>2, Sent DEF IInv, WriteEncodeQueue, TypeEncode
  <2>2. Len(encodeQueue) \in Nat
    BY LenProperties DEF IInv, TypeEncode
  <2> QED
    BY <2>1, <2>2, PipelineAssumption DEF WriteEncodeQueue, TypeEncode
<1> QED
  BY <1>3, <1>4, Unchanged, UnchangedGroups DEF IInv, WriteEncodeQueue, TypeSources

-----------------------------------------------------------------------------
(* The downlink encoder. *)

\* What a receive from the encode queue yields and leaves.
LEMMA EncodeTaken ==
  ASSUME IInv, encodeQueue # <<>>, encodeQueue' = Tail(encodeQueue)
  PROVE  TypeEncode' /\ Head(encodeQueue) \in EncodeEvents
<1>1. encodeQueue \in Seq(EncodeEvents) /\ Len(encodeQueue) <= EncodeQueueLength
  BY DEF IInv, TypeEncode
<1> QED
  BY <1>1, Taken, LenProperties, PipelineAssumption DEF TypeEncode

LEMMA PacketType ==
  ASSUME NEW data \in Seq(Ids)
  PROVE  Packet(data) \in TransmitEvents /\ End \in TransmitEvents
  BY EmptyQueue DEF Packet, End, TransmitEvents

LEMMA EncodeResponseInv == ASSUME IInv, EncodeResponse PROVE IInv'
<1> DEFINE bytes == Append(cmdResBuffer, Head(encodeQueue).id)
<1>1. TypeEncode' /\ Head(encodeQueue) \in EncodeEvents
  BY EncodeTaken DEF EncodeResponse
<1>2. Head(encodeQueue).id \in Ids
  BY <1>1 DEF EncodeResponse, EncodeEvents, Response, TelemFile
<1>3. bytes \in Seq(Ids)
  BY <1>2, Sent DEF IInv, TypeEncoder, TypeBuffer
<1>4. Len(bytes) \in Nat
  BY <1>3, LenProperties
<1>5. CASE ~Filled(bytes)
  <2>1. cmdResBuffer' = bytes /\ UNCHANGED outbox
    BY <1>5 DEF EncodeResponse
  <2>2. TypeBuffer'
    BY <1>3, <1>4, <1>5, <2>1, PipelineAssumption DEF Filled, TypeBuffer
  <2> QED
    BY <1>1, <2>1, <2>2, Unchanged, UnchangedGroups DEF IInv, EncodeResponse, TypeEncoder
<1>6. CASE Filled(bytes)
  <2>1. cmdResBuffer' = <<>> /\ outbox' = <<Packet(bytes), End>>
    BY <1>6 DEF EncodeResponse, ResponseDownlink
  <2>2. TypeBuffer'
    BY <2>1, EmptyQueue, PipelineAssumption DEF TypeBuffer
  <2>3. TypeOutbox'
    <3>1. Packet(bytes) \in TransmitEvents /\ End \in TransmitEvents
      BY <1>3, PacketType
    <3> HIDE DEF bytes
    <3> QED
      BY <2>1, <3>1 DEF TypeOutbox
  <2> QED
    BY <1>1, <2>2, <2>3, Unchanged, UnchangedGroups DEF IInv, EncodeResponse, TypeEncoder
<1> QED
  BY <1>5, <1>6

LEMMA EncodeFileInv == ASSUME IInv, EncodeFile PROVE IInv'
<1>1. TypeEncode'
  BY EncodeTaken DEF EncodeFile
<1>2. PICK n \in 0 .. MaxFilePackets :
        outbox' = [k \in 1 .. n + 1 |-> IF k <= n THEN Packet(<<>>) ELSE End]
  BY DEF EncodeFile
<1>3. Packet(<<>>) \in TransmitEvents /\ End \in TransmitEvents
  BY PacketType, EmptyQueue
<1>4. outbox' \in [1 .. n + 1 -> TransmitEvents] /\ n + 1 \in Nat
  BY <1>2, <1>3, PipelineAssumption
<1>5. TypeOutbox'
  BY <1>4, Listed DEF TypeOutbox
<1> QED
  BY <1>1, <1>5, Unchanged, UnchangedGroups DEF IInv, EncodeFile, TypeEncoder

LEMMA SendTransmitInv == ASSUME IInv, SendTransmit PROVE IInv'
<1>1. Head(outbox) \in TransmitEvents /\ TypeOutbox'
  BY Taken DEF IInv, SendTransmit, TypeEncoder, TypeOutbox
<1>2. TypeTransmit'
  <2>1. /\ transmitQueue' \in Seq(TransmitEvents)
        /\ Len(transmitQueue') = Len(transmitQueue) + 1
    BY <1>1, Sent DEF IInv, SendTransmit, TypeTransmit
  <2>2. Len(transmitQueue) \in Nat
    BY LenProperties DEF IInv, TypeTransmit
  <2> QED
    BY <2>1, <2>2, PipelineAssumption DEF SendTransmit, TypeTransmit
<1> QED
  BY <1>1, <1>2, Unchanged, UnchangedGroups DEF IInv, SendTransmit, TypeEncoder

-----------------------------------------------------------------------------
LEMMA InvNext == ASSUME IInv, [Next]_vars PROVE IInv'
<1>1. ASSUME NEW f \in ConnUplinks \cup Uplinks, ReadFrame(f) PROVE IInv'
  BY <1>1, ReadFrameInv
<1>2. CASE CommsManager
  BY <1>2, PushChunkInv, PostCompletionInv, HandleEventInv, DownlinkInv DEF CommsManager
<1>3. CASE Decoder
  BY <1>3, DecodeNothingInv, DecodeCommandsInv, DecodeUFrameInv, PassCommandInv DEF Decoder
<1>4. CASE ExecuteCommand
  BY <1>4, ExecuteCommandInv
<1>5. CASE ExecuteAlarm
  BY <1>5, ExecuteAlarmInv
<1>6. CASE TakeDownlinkReady
  BY <1>6, TakeDownlinkReadyInv
<1>7. ASSUME NEW p \in Producers, WriteEncodeQueue(p) PROVE IInv'
  BY <1>7, WriteEncodeQueueInv
<1>8. CASE Encoder
  BY <1>8, EncodeResponseInv, EncodeFileInv, SendTransmitInv DEF Encoder
<1>9. CASE UNCHANGED vars
  <2>1. /\ UNCHANGED manager /\ UNCHANGED commsQueue /\ UNCHANGED uplink
        /\ UNCHANGED encodeQueue /\ UNCHANGED transmitQueue /\ UNCHANGED sources
        /\ UNCHANGED encoder /\ UNCHANGED ground
    BY <1>9 DEF vars, manager, uplink, sources, encoder, ground
  <2> QED
    BY <2>1, Unchanged, UnchangedGroups DEF IInv
<1> QED
  BY <1>1, <1>2, <1>3, <1>4, <1>5, <1>6, <1>7, <1>8, <1>9 DEF Next

\* A step that pushes nothing to the decoder does not make it crowded.
NoPush ==
  /\ crowded' = crowded
  /\ decodeQueue' = decodeQueue \/ (decodeQueue # <<>> /\ decodeQueue' = Tail(decodeQueue))

Push == crowded' = (crowded \/ ~FewUFrames')

LEMMA CrowdedNext == ASSUME [Next]_vars PROVE Push \/ NoPush
<1>1. CASE \E f \in ConnUplinks \cup Uplinks : ReadFrame(f)
  <2>1. PICK f \in ConnUplinks \cup Uplinks : ReadFrame(f)
    BY <1>1
  <2>2. QED
    BY <2>1 DEF ReadFrame, uplink, NoPush
<1>2. CASE CommsManager
  <2>1. CASE PushChunk
    BY Zenon, <2>1 DEF PushChunk, Push
  <2>2. CASE PostCompletion
    BY <2>2 DEF PostCompletion, uplink, NoPush
  <2>3. CASE HandleEvent
    BY <2>3 DEF HandleEvent, uplink, NoPush
  <2>4. CASE Downlink
    BY <2>4 DEF Downlink, uplink, NoPush
  <2>5. QED
    BY Zenon, <1>2, <2>1, <2>2, <2>3, <2>4 DEF CommsManager
<1>3. CASE Decoder
  <2>1. CASE DecodeNothing
    BY <2>1 DEF DecodeNothing, manager, NoPush
  <2>2. CASE DecodeCommands
    BY <2>2 DEF DecodeCommands, manager, NoPush
  <2>3. CASE DecodeUFrame
    BY <2>3 DEF DecodeUFrame, manager, NoPush
  <2>4. CASE PassCommand
    BY <2>4 DEF PassCommand, manager, NoPush
  <2>5. QED
    BY Zenon, <1>3, <2>1, <2>2, <2>3, <2>4 DEF Decoder
<1>4. CASE \/ ExecuteCommand \/ ExecuteAlarm \/ TakeDownlinkReady
           \/ \E p \in Producers : WriteEncodeQueue(p)
           \/ Encoder \/ UNCHANGED vars
  BY <1>4 DEF ExecuteCommand, ExecuteAlarm, TakeDownlinkReady, WriteEncodeQueue, Encoder, EncodeResponse,
              EncodeFile, SendTransmit, vars, manager, uplink, NoPush
<1>5. QED
  BY Zenon, <1>1, <1>2, <1>3, <1>4 DEF Next

LEMMA CrowdedTyped == Spec => []TypeCrowded
<1>1. Init => TypeCrowded
  BY Zenon DEF Init, TypeCrowded
<1>2. TypeCrowded /\ [Next]_vars => TypeCrowded'
  BY Zenon, CrowdedNext DEF TypeCrowded, Push, NoPush
<1>3. QED
  BY <1>1, <1>2, PTL DEF Spec

\* Every variable keeps its type, and no queue of the pipeline ever holds more than
\* its length, whatever the ground sends and however the tasks interleave.
THEOREM TypeCorrect == Spec => []TypeOK
<1>1. Init => IInv
  BY InvInit
<1>2. IInv /\ [Next]_vars => IInv'
  BY InvNext
<1>3. IInv /\ TypeCrowded => TypeOK
  BY InvImpliesType
<1> QED
  BY <1>1, <1>2, <1>3, CrowdedTyped, PTL DEF Spec

-----------------------------------------------------------------------------
(* Commands and their answers in order, as long as the alarm manager has not answered. *)

\* The commands an element of a queue is about.
AnswerIds  == [d \in Seq(Ids) |-> {d[k] : k \in 1 .. Len(d)}]
PacketIds  == [p \in TransmitEvents |-> AnswerIds[p.data]]
CommandIds == [c \in Commands |-> {c.id}]

\* ... and all elements of a queue.
IdsIn(K, q) == UNION {K[q[k]] : k \in 1 .. Len(q)}

FrameIds == [f \in Frames \cup {Partial} |-> IdsIn(CommandIds, f.cmds)]

Before(A, B) == \A a \in A, b \in B : a < b

\* No element is about an earlier command than one before it.
InOrder(K, q) == \A j, k \in 1 .. Len(q) : j < k => Before(K[q[j]], K[q[k]])

\* The four kinds of elements are about commands.
LEMMA IdsTyped ==
  /\ AnswerIds \in [Seq(Ids) -> SUBSET Ids]
  /\ PacketIds \in [TransmitEvents -> SUBSET Ids]
  /\ CommandIds \in [Commands -> SUBSET Ids]
  /\ FrameIds \in [Frames \cup {Partial} -> SUBSET Ids]
<1>1. AnswerIds \in [Seq(Ids) -> SUBSET Ids]
  <2>1. \A d \in Seq(Ids) : {d[k] : k \in 1 .. Len(d)} \subseteq Ids
    BY ElementOfSeq
  <2>2. QED
    BY <2>1 DEF AnswerIds
<1>2. PacketIds \in [TransmitEvents -> SUBSET Ids]
  <2>1. \A p \in TransmitEvents : p.data \in Seq(Ids)
    BY DEF TransmitEvents
  <2>2. \A p \in TransmitEvents : AnswerIds[p.data] \in SUBSET Ids
    BY <1>1, <2>1
  <2>3. QED
    BY <2>2 DEF PacketIds
<1>3. CommandIds \in [Commands -> SUBSET Ids]
  BY DEF CommandIds, Commands
<1>4. \A f \in Frames \cup {Partial} : IdsIn(CommandIds, f.cmds) \in SUBSET Ids
  <2>1. SUFFICES ASSUME NEW f \in Frames \cup {Partial}, NEW k \in 1 .. Len(f.cmds)
                 PROVE  CommandIds[f.cmds[k]] \subseteq Ids
    BY DEF IdsIn
  <2>2. f.cmds[k] \in Commands
    BY FrameCommands, ElementOfSeq
  <2>3. QED
    BY <1>3, <2>2
<1>5. QED
  BY <1>1, <1>2, <1>3, <1>4 DEF FrameIds

\* What the queue is about after a send, and that it is still in order.
LEMMA OrderAppend ==
  ASSUME NEW S, NEW K \in [S -> SUBSET Ids], NEW q \in Seq(S), NEW x \in S,
         InOrder(K, q), Before(IdsIn(K, q), K[x])
  PROVE  /\ InOrder(K, Append(q, x))
         /\ IdsIn(K, Append(q, x)) = IdsIn(K, q) \cup K[x]
<1> DEFINE r == Append(q, x)
<1>1. /\ Len(q) \in Nat /\ Len(r) = Len(q) + 1 /\ r[Len(q) + 1] = x
      /\ \A k \in 1 .. Len(q) : r[k] = q[k]
  BY AppendProperties, LenProperties
<1> HIDE DEF r
<1>2. \A k \in 1 .. Len(q) : \A a \in K[q[k]], b \in K[x] : a < b
  BY DEF Before, IdsIn
<1>3. ASSUME NEW j \in 1 .. Len(r), NEW k \in 1 .. Len(r), j < k
      PROVE  Before(K[r[j]], K[r[k]])
  <2>1. j \in 1 .. Len(q) /\ r[j] = q[j]
    BY <1>1, <1>3
  <2>2. CASE k \in 1 .. Len(q)
    BY <1>1, <1>3, <2>1, <2>2 DEF InOrder
  <2>3. CASE k = Len(q) + 1
    BY <1>1, <1>2, <2>1, <2>3 DEF Before
  <2>4. QED
    BY <1>1, <2>2, <2>3
<1>4. IdsIn(K, r) \subseteq IdsIn(K, q) \cup K[x]
  <2>1. SUFFICES ASSUME NEW k \in 1 .. Len(r)
                 PROVE  K[r[k]] \subseteq IdsIn(K, q) \cup K[x]
    BY DEF IdsIn
  <2>2. k \in 1 .. Len(q) \/ k = Len(q) + 1
    BY <1>1
  <2>3. QED
    BY <1>1, <2>2 DEF IdsIn
<1>5. IdsIn(K, q) \cup K[x] \subseteq IdsIn(K, r)
  <2>1. Len(q) + 1 \in 1 .. Len(r) /\ \A k \in 1 .. Len(q) : k \in 1 .. Len(r)
    BY <1>1
  <2>2. QED
    BY <1>1, <2>1 DEF IdsIn
<1>6. QED
  BY <1>3, <1>4, <1>5 DEF InOrder, r

\* What it is about after a receive: what was received came before.
LEMMA OrderTail ==
  ASSUME NEW S, NEW K \in [S -> SUBSET Ids], NEW q \in Seq(S), q # <<>>, InOrder(K, q)
  PROVE  /\ InOrder(K, Tail(q))
         /\ IdsIn(K, Tail(q)) \subseteq IdsIn(K, q)
         /\ K[Head(q)] \subseteq IdsIn(K, q)
         /\ Before(K[Head(q)], IdsIn(K, Tail(q)))
<1> DEFINE r == Tail(q)
<1>1. /\ Len(q) \in Nat \ {0} /\ Len(r) = Len(q) - 1 /\ Head(q) = q[1]
      /\ \A k \in 1 .. Len(r) : r[k] = q[k + 1] /\ k + 1 \in 1 .. Len(q)
  BY HeadTailProperties, LenProperties, EmptySeq
<1> HIDE DEF r
<1>2. 1 \in 1 .. Len(q) /\ Len(r) \in Nat
  BY <1>1
<1>3. InOrder(K, r)
  <2>1. SUFFICES ASSUME NEW j \in 1 .. Len(r), NEW k \in 1 .. Len(r), j < k
                 PROVE  Before(K[r[j]], K[r[k]])
    BY DEF InOrder
  <2>2. j + 1 < k + 1
    BY <2>1
  <2>3. QED
    BY <1>1, <2>2 DEF InOrder
<1>4. IdsIn(K, r) \subseteq IdsIn(K, q)
  BY <1>1 DEF IdsIn
<1>5. K[Head(q)] \subseteq IdsIn(K, q)
  BY <1>1, <1>2 DEF IdsIn
<1>6. Before(K[Head(q)], IdsIn(K, r))
  <2>1. SUFFICES ASSUME NEW k \in 1 .. Len(r)
                 PROVE  Before(K[q[1]], K[r[k]])
    BY <1>1 DEF Before, IdsIn
  <2>2. 1 < k + 1
    OBVIOUS
  <2>3. QED
    BY <1>1, <1>2, <2>2 DEF InOrder
<1>7. QED
  BY <1>3, <1>4, <1>5, <1>6 DEF r

\* An empty queue is about nothing.
LEMMA OrderEmpty ==
  ASSUME NEW K
  PROVE  InOrder(K, <<>>) /\ IdsIn(K, <<>>) = {}
BY DEF InOrder, IdsIn

\* The places a command and its answer pass through, from the ground to the ground
\* backwards, and the numbers that are left.
Ordered(P) == \A i, j \in 1 .. 9 : i < j => Before(P[i], P[j])

\* What comes first in a place goes to the end of the next one, or is dropped.
LEMMA OrderMoves ==
  ASSUME NEW P \in [1 .. 9 -> SUBSET Nat], NEW Q \in [1 .. 9 -> SUBSET Nat],
         Ordered(P), NEW i \in 1 .. 8, NEW M \in SUBSET Nat,
         \A k \in 1 .. 9 : k # i => Q[k] \subseteq P[k],
         Q[i] \subseteq P[i] \cup M,
         M \subseteq P[i + 1], Before(M, Q[i + 1])
  PROVE  Ordered(Q)
<1> SUFFICES ASSUME NEW j \in 1 .. 9, NEW k \in 1 .. 9, j < k, NEW a \in Q[j], NEW b \in Q[k]
             PROVE  a < b
  BY DEF Ordered, Before
<1>1. CASE j # i /\ k # i
  <2>1. a \in P[j] /\ b \in P[k]
    BY <1>1
  <2>2. QED
    BY <2>1 DEF Ordered, Before
<1>2. CASE k = i
  <2>1. a \in P[j] /\ (b \in P[k] \/ b \in P[i + 1])
    BY <1>2
  <2>2. j < i + 1 /\ i + 1 \in 1 .. 9
    BY <1>2
  <2>3. QED
    BY <2>1, <2>2 DEF Ordered, Before
<1>3. CASE j = i /\ a \in P[i]
  <2>1. b \in P[k]
    BY <1>3
  <2>2. QED
    BY <1>3, <2>1 DEF Ordered, Before
<1>4. CASE j = i /\ a \in M
  <2>1. CASE k = i + 1
    BY <1>4, <2>1 DEF Before
  <2>2. CASE k # i + 1
    <3>1. i + 1 < k /\ i + 1 \in 1 .. 9 /\ a \in P[i + 1] /\ b \in P[k]
      BY <1>4, <2>2
    <3>2. QED
      BY <3>1 DEF Ordered, Before
  <2>3. QED
    BY <2>1, <2>2
<1>5. QED
  BY <1>1, <1>2, <1>3, <1>4

\* ... or nothing but drops.
LEMMA OrderDrops ==
  ASSUME NEW P \in [1 .. 9 -> SUBSET Nat], NEW Q \in [1 .. 9 -> SUBSET Nat],
         Ordered(P), \A k \in 1 .. 9 : Q[k] \subseteq P[k]
  PROVE  Ordered(Q)
BY DEF Ordered, Before

-----------------------------------------------------------------------------
(* The bytes of the responses, from the encoder's buffer over the encode queue to *)
(* what the command manager has yet to write: whole responses but for the bytes    *)
(* that have left, one after the other.                                            *)

\* A row of n bytes, byte k being the ph[k]-th of the response of command id[k].
Blocks(n, id, ph) ==
  /\ n \in Nat /\ id \in [1 .. n -> Ids] /\ ph \in [1 .. n -> 1 .. ResponseChunks]
  /\ \A j, k \in 1 .. n : j < k => id[j] <= id[k]
  /\ \A j, k \in 1 .. n : j < k /\ ph[k] = 1 => id[j] < id[k]
  /\ \A k \in 1 .. n : k = 1 => ph[k] = 1
  /\ \A k \in 1 .. n : k = n => ph[k] = ResponseChunks
  /\ \A k \in 1 .. n : k < n /\ ph[k] < ResponseChunks => ph[k + 1] = ph[k] + 1 /\ id[k + 1] = id[k]
  /\ \A k \in 1 .. n : k < n /\ ph[k] = ResponseChunks => ph[k + 1] = 1

\* The first bytes of a row are those in the buffer,
InBuffer(buffer, n, id, ph) ==
  /\ Len(buffer) <= n
  /\ \A k \in 1 .. Len(buffer) : buffer[k] = id[k] /\ ph[k] = k /\ id[k] = id[1]

\* from the one after b on there are m in the queue, at the places at,
InQueue(b, queue, m, at, id) ==
  /\ m \in Nat /\ at \in [1 .. m -> 1 .. Len(queue)]
  /\ \A i \in 1 .. m : queue[at[i]] = Response(id[b + i])
  /\ \A i, j \in 1 .. m : i < j => at[i] < at[j]
  /\ \A k \in 1 .. Len(queue) : queue[k] = TelemFile \/ \E i \in 1 .. m : at[i] = k

\* and the bytes after place a are still to be written.
InRest(a, rest, n, id) ==
  /\ n = a + Len(rest)
  /\ \A k \in 1 .. Len(rest) : rest[k] = Response(id[a + k])

Row(buffer, queue, rest, n, m, id, ph, at) ==
  /\ Blocks(n, id, ph)
  /\ InBuffer(buffer, n, id, ph)
  /\ InQueue(Len(buffer), queue, m, at, id)
  /\ InRest(Len(buffer) + m, rest, n, id)

Stream(buffer, queue, rest) ==
  \E n, m, id, ph, at : Row(buffer, queue, rest, n, m, id, ph, at)

\* The commands whose responses are in it.
Answered(buffer, queue, rest) ==
  AnswerIds[buffer] \cup {x \in Ids : \E k \in 1 .. Len(queue) : queue[k] = Response(x)}
                    \cup {x \in Ids : \E k \in 1 .. Len(rest) : rest[k] = Response(x)}

\* Commands have numbers.
LEMMA IdsNat == Ids \subseteq Nat
BY PipelineAssumption DEF Ids

\* A response is no file, and tells its command.
LEMMA Responses ==
  /\ \A x \in Ids : Response(x) # TelemFile
  /\ \A x, y \in Ids : Response(x) = Response(y) => x = y
BY DEF Response, TelemFile

\* They are those of the row.
LEMMA RowIds ==
  ASSUME NEW buffer \in Seq(Ids), NEW queue \in Seq(EncodeEvents), NEW rest \in Seq(EncodeEvents),
         NEW n, NEW m, NEW id, NEW ph, NEW at, Row(buffer, queue, rest, n, m, id, ph, at)
  PROVE  /\ \A x \in Answered(buffer, queue, rest) : \E k \in 1 .. n : x = id[k]
         /\ \A k \in 1 .. n : id[k] \in Answered(buffer, queue, rest)
<1> DEFINE b == Len(buffer)
<1>0. b \in Nat /\ Len(queue) \in Nat /\ Len(rest) \in Nat
  BY LenProperties
<1>1. /\ n \in Nat /\ id \in [1 .. n -> Ids] /\ m \in Nat /\ n = b + m + Len(rest)
      /\ \A k \in 1 .. b : buffer[k] = id[k]
      /\ \A i \in 1 .. m : at[i] \in 1 .. Len(queue) /\ queue[at[i]] = Response(id[b + i])
      /\ \A k \in 1 .. Len(queue) : queue[k] = TelemFile \/ \E i \in 1 .. m : at[i] = k
      /\ \A k \in 1 .. Len(rest) : rest[k] = Response(id[b + m + k])
  BY <1>0 DEF Row, Blocks, InBuffer, InQueue, InRest
<1>2. AnswerIds[buffer] = {buffer[k] : k \in 1 .. b}
  BY DEF AnswerIds
<1> HIDE DEF b
<1>3. ASSUME NEW x \in Answered(buffer, queue, rest)
      PROVE  \E k \in 1 .. n : x = id[k]
  <2>1. CASE x \in AnswerIds[buffer]
    BY <1>0, <1>1, <1>2, <2>1 DEF b
  <2>2. ASSUME x \in Ids, NEW k \in 1 .. Len(queue), queue[k] = Response(x)
        PROVE  \E j \in 1 .. n : x = id[j]
    <3>1. PICK i \in 1 .. m : at[i] = k
      BY <1>1, <2>2, Responses
    <3>2. b + i \in 1 .. n
      BY <1>0, <1>1
    <3>3. queue[at[i]] = Response(id[b + i]) /\ queue[at[i]] = Response(x)
      BY <1>1, <2>2, <3>1
    <3>4. id[b + i] \in Ids
      BY <1>1, <3>2
    <3>5. QED
      BY <2>2, <3>2, <3>3, <3>4, Responses
  <2>3. ASSUME x \in Ids, NEW k \in 1 .. Len(rest), rest[k] = Response(x)
        PROVE  \E j \in 1 .. n : x = id[j]
    <3>1. b + m + k \in 1 .. n /\ Response(id[b + m + k]) = Response(x)
      BY <1>0, <1>1, <2>3 DEF b
    <3>2. QED
      BY <1>1, <2>3, <3>1, Responses
  <2>4. QED
    BY <1>3, <2>1, <2>2, <2>3 DEF Answered
<1>4. ASSUME NEW k \in 1 .. n
      PROVE  id[k] \in Answered(buffer, queue, rest)
  <2>0. id[k] \in Ids
    BY <1>1
  <2>1. CASE k <= b
    <3>1. k \in 1 .. b /\ buffer[k] = id[k]
      BY <1>0, <1>1, <2>1 DEF b
    <3>2. QED
      BY <1>2, <3>1 DEF Answered
  <2>2. CASE k > b /\ k <= b + m
    <3>1. k - b \in 1 .. m /\ b + (k - b) = k
      BY <1>0, <1>1, <2>2 DEF b
    <3>2. at[k - b] \in 1 .. Len(queue) /\ queue[at[k - b]] = Response(id[k])
      BY <1>1, <3>1
    <3>3. QED
      BY <2>0, <3>2 DEF Answered
  <2>3. CASE k > b + m
    <3>1. k - b - m \in 1 .. Len(rest) /\ b + m + (k - b - m) = k
      BY <1>0, <1>1, <2>3 DEF b
    <3>2. rest[k - b - m] = Response(id[k])
      BY <1>1, <3>1
    <3>3. QED
      BY <2>0, <3>1, <3>2 DEF Answered
  <2>4. QED
    BY <1>0, <1>1, <2>1, <2>2, <2>3 DEF b
<1>5. QED
  BY <1>3, <1>4

\* At the start there is no byte.
LEMMA StreamEmpty == Stream(<<>>, <<>>, <<>>)
<1>1. Len(<<>>) = 0
  BY EmptyQueue
<1>2. Row(<<>>, <<>>, <<>>, 0, 0, [k \in 1 .. 0 |-> 1], [k \in 1 .. 0 |-> 1], [k \in 1 .. 0 |-> 1])
  BY <1>1 DEF Row, Blocks, InBuffer, InQueue, InRest
<1>3. QED
  BY <1>2 DEF Stream

\* A command later than all of them is answered: its bytes go to the end.
LEMMA StreamAnswer ==
  ASSUME NEW buffer \in Seq(Ids), NEW queue \in Seq(EncodeEvents),
         NEW none \in Seq(EncodeEvents), Len(none) = 0, Stream(buffer, queue, none),
         NEW x \in Ids, Before(Answered(buffer, queue, none), {x})
  PROVE  Stream(buffer, queue, ResponseBytes(x))
<1>1. PICK n, m, id, ph, at : Row(buffer, queue, none, n, m, id, ph, at)
  BY DEF Stream
<1> DEFINE N    == n + ResponseChunks
           idN  == [k \in 1 .. N |-> IF k <= n THEN id[k] ELSE x]
           phN  == [k \in 1 .. N |-> IF k <= n THEN ph[k] ELSE k - n]
           rest == ResponseBytes(x)
           b    == Len(buffer)
<1>0. b \in Nat /\ ResponseChunks \in Nat \ {0}
  BY LenProperties, PipelineAssumption
<1>2. n \in Nat /\ m \in Nat /\ n = b + m
  BY <1>0, <1>1 DEF Row, Blocks, InQueue, InRest
<1>3. \A k \in 1 .. n : id[k] < x
  <2>2. \A k \in 1 .. n : id[k] \in Answered(buffer, queue, none)
    BY <1>1, RowIds
  <2>3. QED
    BY <2>2 DEF Before
<1>4. Len(rest) = ResponseChunks /\ \A k \in 1 .. ResponseChunks : rest[k] = Response(x)
  BY <1>0 DEF ResponseBytes
<1> HIDE DEF rest
<1>5. Blocks(N, idN, phN)
  <2>1. /\ id \in [1 .. n -> Ids] /\ ph \in [1 .. n -> 1 .. ResponseChunks]
        /\ \A j, k \in 1 .. n : j < k => id[j] <= id[k]
        /\ \A j, k \in 1 .. n : j < k /\ ph[k] = 1 => id[j] < id[k]
        /\ \A k \in 1 .. n : k = 1 => ph[k] = 1
        /\ \A k \in 1 .. n : k = n => ph[k] = ResponseChunks
        /\ \A k \in 1 .. n :
             k < n /\ ph[k] < ResponseChunks => ph[k + 1] = ph[k] + 1 /\ id[k + 1] = id[k]
        /\ \A k \in 1 .. n : k < n /\ ph[k] = ResponseChunks => ph[k + 1] = 1
    BY <1>1 DEF Row, Blocks
  <2>2. /\ N \in Nat
        /\ \A k \in 1 .. n : k \in 1 .. N /\ idN[k] = id[k] /\ phN[k] = ph[k]
        /\ \A k \in 1 .. N : k > n => idN[k] = x /\ phN[k] = k - n
    BY <1>0, <1>2
  <2>3. idN \in [1 .. N -> Ids] /\ phN \in [1 .. N -> 1 .. ResponseChunks]
    BY <1>0, <1>2, <2>1
  <2> HIDE DEF idN, phN
  <2>4. \A j, k \in 1 .. N : j < k => idN[j] <= idN[k]
    <3>1. SUFFICES ASSUME NEW j \in 1 .. N, NEW k \in 1 .. N, j < k
                   PROVE  idN[j] <= idN[k]
      OBVIOUS
    <3>2. CASE k <= n
      <4>1. j \in 1 .. n /\ k \in 1 .. n
        BY <1>2, <3>1, <3>2
      <4>2. QED
        BY <2>1, <2>2, <3>1, <4>1
    <3>3. CASE k > n /\ j <= n
      <4>0. j \in 1 .. n
        BY <1>2, <3>3
      <4>1. id[j] < x /\ idN[j] = id[j] /\ id[j] \in Nat /\ x \in Nat
        BY <1>3, <2>1, <2>2, <4>0, IdsNat
      <4>3. idN[k] = x
        BY <2>2, <3>3
      <4>2. QED
        BY <4>1, <4>3
    <3>4. CASE j > n
      <4>1. k > n
        BY <1>2, <2>2, <3>1, <3>4
      <4>2. idN[j] = x /\ idN[k] = x /\ x \in Nat
        BY <2>2, <3>4, <4>1, IdsNat
      <4>3. QED
        BY <4>2
    <3>5. QED
      BY <1>2, <3>1, <3>2, <3>3, <3>4
  <2>5. \A j, k \in 1 .. N : j < k /\ phN[k] = 1 => idN[j] < idN[k]
    <3>1. SUFFICES ASSUME NEW j \in 1 .. N, NEW k \in 1 .. N, j < k, phN[k] = 1
                   PROVE  idN[j] < idN[k]
      OBVIOUS
    <3>2. CASE k <= n
      <4>1. j \in 1 .. n /\ k \in 1 .. n
        BY <1>2, <3>1, <3>2
      <4>2. QED
        BY <2>1, <2>2, <3>1, <4>1
    <3>3. CASE k > n
      <4>0. phN[k] = k - n
        BY <2>2, <3>3
      <4>1. k = n + 1 /\ j \in 1 .. n
        BY <1>0, <1>2, <3>1, <3>3, <4>0
      <4>2. QED
        BY <1>3, <2>2, <3>3, <4>1
    <3>4. QED
      BY <1>2, <3>2, <3>3
  <2>6. ASSUME NEW k \in 1 .. N
        PROVE  /\ k = 1 => phN[k] = 1
               /\ k = N => phN[k] = ResponseChunks
               /\ k < N /\ phN[k] < ResponseChunks => phN[k + 1] = phN[k] + 1 /\ idN[k + 1] = idN[k]
               /\ k < N /\ phN[k] = ResponseChunks => phN[k + 1] = 1
    <3>1. CASE k < n
      <4>1. k \in 1 .. n /\ k + 1 \in 1 .. n
        BY <1>2, <3>1
      <4>2. QED
        BY <1>0, <1>2, <2>1, <2>2, <3>1, <4>1
    <3>2. CASE k = n
      <4>1. k \in 1 .. n /\ ph[k] = ResponseChunks /\ phN[k] = ResponseChunks /\ phN[k + 1] = 1
        BY <1>0, <1>2, <2>1, <2>2, <3>2
      <4>2. k = 1 => phN[k] = 1
        BY <2>1, <2>2, <4>1
      <4>3. QED
        BY <1>0, <1>2, <3>2, <4>1, <4>2
    <3>3. CASE k > n
      <4>1. idN[k] = x /\ phN[k] = k - n
        BY <2>2, <3>3
      <4>2. k < N => idN[k + 1] = x /\ phN[k + 1] = k + 1 - n
        <5>1. k < N => k + 1 \in 1 .. N /\ k + 1 > n
          BY <1>0, <1>2, <3>3
        <5>2. QED
          BY <1>0, <1>2, <2>2, <5>1
      <4>3. QED
        BY <1>0, <1>2, <3>3, <4>1, <4>2
    <3>4. QED
      BY <1>2, <3>1, <3>2, <3>3
  <2>7. QED
    BY <2>2, <2>3, <2>4, <2>5, <2>6 DEF Blocks
<1>6. \A k \in 1 .. n : idN[k] = id[k] /\ phN[k] = ph[k]
  BY <1>0, <1>2
<1>7. \A k \in n + 1 .. N : idN[k] = x
  BY <1>0, <1>2
<1> HIDE DEF idN, phN, b
<1>8. InBuffer(buffer, N, idN, phN)
  <2>1. InBuffer(buffer, n, id, ph)
    BY <1>1 DEF Row
  <2>2. \A k \in 1 .. Len(buffer) : k \in 1 .. n /\ 1 \in 1 .. n
    BY <1>0, <1>2 DEF b
  <2>3. QED
    BY <1>0, <1>2, <1>6, <2>1, <2>2 DEF InBuffer, b
<1>9. InQueue(b, queue, m, at, idN)
  <2>1. InQueue(b, queue, m, at, id)
    BY <1>1 DEF Row, b
  <2>2. \A i \in 1 .. m : b + i \in 1 .. n
    BY <1>0, <1>2
  <2>3. QED
    BY <1>6, <2>1, <2>2 DEF InQueue
<1>10. InRest(b + m, rest, N, idN)
  BY <1>0, <1>2, <1>4, <1>7 DEF InRest
<1>11. QED
  BY <1>5, <1>8, <1>9, <1>10 DEF Row, Stream, b, rest

\* A byte is written to the queue.
LEMMA StreamWrite ==
  ASSUME NEW buffer \in Seq(Ids), NEW queue \in Seq(EncodeEvents), NEW rest \in Seq(EncodeEvents),
         rest # <<>>, Stream(buffer, queue, rest)
  PROVE  Stream(buffer, Append(queue, Head(rest)), Tail(rest))
<1>1. PICK n, m, id, ph, at : Row(buffer, queue, rest, n, m, id, ph, at)
  BY DEF Stream
<1> DEFINE b   == Len(buffer)
           q   == Append(queue, Head(rest))
           r   == Tail(rest)
           atN == [i \in 1 .. m + 1 |-> IF i <= m THEN at[i] ELSE Len(queue) + 1]
<1>0. b \in Nat /\ Len(queue) \in Nat /\ Len(rest) \in Nat \ {0} /\ m \in Nat
  BY <1>1, LenProperties, EmptySeq DEF Row, InQueue
<1>2. /\ Len(q) = Len(queue) + 1 /\ q[Len(queue) + 1] = rest[1]
      /\ \A k \in 1 .. Len(queue) : q[k] = queue[k]
  <2>1. Head(rest) = rest[1] /\ Head(rest) \in EncodeEvents
    BY HeadTailProperties
  <2>2. QED
    BY <2>1, AppendProperties
<1>3. Len(r) = Len(rest) - 1 /\ \A k \in 1 .. Len(r) : r[k] = rest[k + 1]
  BY HeadTailProperties
<1> HIDE DEF b, q, r
<1>4. /\ InRest(b + m, rest, n, id) /\ InQueue(b, queue, m, at, id)
  BY <1>1 DEF Row, b
<1>5. rest[1] = Response(id[b + m + 1])
  BY <1>0, <1>4 DEF InRest
<1>6. InRest(b + (m + 1), r, n, id)
  <2>1. n = b + (m + 1) + Len(r)
    BY <1>0, <1>3, <1>4 DEF InRest
  <2>2. \A k \in 1 .. Len(r) : k + 1 \in 1 .. Len(rest) /\ b + m + (k + 1) = b + (m + 1) + k
    BY <1>0, <1>3
  <2>3. QED
    BY <1>3, <1>4, <2>1, <2>2 DEF InRest
<1>7. InQueue(b, q, m + 1, atN, id)
  <2>1. /\ at \in [1 .. m -> 1 .. Len(queue)]
        /\ \A i \in 1 .. m : queue[at[i]] = Response(id[b + i])
        /\ \A i, j \in 1 .. m : i < j => at[i] < at[j]
        /\ \A k \in 1 .. Len(queue) : queue[k] = TelemFile \/ \E i \in 1 .. m : at[i] = k
    BY <1>4 DEF InQueue
  <2>2. /\ atN \in [1 .. m + 1 -> 1 .. Len(q)]
        /\ \A i \in 1 .. m : i \in 1 .. m + 1 /\ atN[i] = at[i]
        /\ m + 1 \in 1 .. m + 1 /\ atN[m + 1] = Len(queue) + 1
    BY <1>0, <1>2, <2>1
  <2> HIDE DEF atN
  <2>3. ASSUME NEW i \in 1 .. m + 1
        PROVE  q[atN[i]] = Response(id[b + i])
    <3>1. CASE i \in 1 .. m
      BY <1>2, <2>1, <2>2, <3>1
    <3>2. CASE i = m + 1
      <4>1. b + m + 1 = b + i
        BY <1>0, <3>2
      <4>2. QED
        BY <1>2, <1>5, <2>2, <3>2, <4>1
    <3>3. QED
      BY <1>0, <3>1, <3>2
  <2>4. ASSUME NEW i \in 1 .. m + 1, NEW j \in 1 .. m + 1, i < j
        PROVE  atN[i] < atN[j]
    BY <1>0, <2>1, <2>2, <2>4
  <2>5. ASSUME NEW k \in 1 .. Len(q)
        PROVE  q[k] = TelemFile \/ \E i \in 1 .. m + 1 : atN[i] = k
    <3>1. CASE k \in 1 .. Len(queue)
      BY <1>2, <2>1, <2>2, <3>1
    <3>2. CASE k = Len(queue) + 1
      BY <2>2, <3>2
    <3>3. QED
      BY <1>0, <1>2, <3>1, <3>2
  <2>6. QED
    BY <1>0, <2>2, <2>3, <2>4, <2>5 DEF InQueue
<1>8. Row(buffer, q, r, n, m + 1, id, ph, atN)
  BY <1>1, <1>6, <1>7 DEF Row, b
<1>9. QED
  BY <1>8 DEF Stream, q, r

\* A telemetry file to encode is written to it.
LEMMA StreamFile ==
  ASSUME NEW buffer \in Seq(Ids), NEW queue \in Seq(EncodeEvents), NEW rest \in Seq(EncodeEvents),
         Stream(buffer, queue, rest)
  PROVE  Stream(buffer, Append(queue, TelemFile), rest)
<1>1. PICK n, m, id, ph, at : Row(buffer, queue, rest, n, m, id, ph, at)
  BY DEF Stream
<1> DEFINE q == Append(queue, TelemFile)
<1>2. /\ Len(queue) \in Nat /\ Len(q) = Len(queue) + 1 /\ q[Len(queue) + 1] = TelemFile
      /\ \A k \in 1 .. Len(queue) : q[k] = queue[k]
  <2>1. TelemFile \in EncodeEvents
    BY DEF EncodeEvents
  <2>2. QED
    BY <2>1, AppendProperties, LenProperties
<1> HIDE DEF q
<1>3. \A k \in 1 .. Len(q) : k \in 1 .. Len(queue) \/ k = Len(queue) + 1
  BY <1>2
<1>4. 1 .. Len(queue) \subseteq 1 .. Len(q)
  BY <1>2
<1>5. InQueue(Len(buffer), queue, m, at, id)
  BY <1>1 DEF Row
<1>6. InQueue(Len(buffer), q, m, at, id)
  BY <1>2, <1>3, <1>4, <1>5 DEF InQueue
<1>7. QED
  BY <1>1, <1>6 DEF Row, Stream, q

-----------------------------------------------------------------------------
(* What the encoder takes from the stream. *)

\* A queue without its first element.
LEMMA Rest ==
  ASSUME NEW S, NEW q \in Seq(S), q # <<>>
  PROVE  /\ Len(q) \in Nat \ {0} /\ Head(q) = q[1] /\ Head(q) \in S
         /\ Tail(q) \in Seq(S) /\ Len(Tail(q)) = Len(q) - 1
         /\ \A k \in 1 .. Len(Tail(q)) : Tail(q)[k] = q[k + 1]
BY HeadTailProperties, LenProperties, EmptySeq

\* A telemetry file leaves the queue.
LEMMA StreamSkip ==
  ASSUME NEW buffer \in Seq(Ids), NEW queue \in Seq(EncodeEvents), NEW rest \in Seq(EncodeEvents),
         queue # <<>>, Head(queue) = TelemFile, Stream(buffer, queue, rest)
  PROVE  Stream(buffer, Tail(queue), rest)
<1>1. PICK n, m, id, ph, at : Row(buffer, queue, rest, n, m, id, ph, at)
  BY DEF Stream
<1> DEFINE b   == Len(buffer)
           q   == Tail(queue)
           atN == [i \in 1 .. m |-> at[i] - 1]
<1>2. /\ b \in Nat /\ Len(queue) \in Nat \ {0} /\ queue[1] = TelemFile
      /\ Len(q) = Len(queue) - 1 /\ \A k \in 1 .. Len(q) : q[k] = queue[k + 1]
  BY Rest, LenProperties
<1> HIDE DEF b, q
<1>3. InQueue(b, queue, m, at, id) /\ n \in Nat /\ id \in [1 .. n -> Ids] /\ b + m <= n
  <2>1. InQueue(b, queue, m, at, id) /\ n \in Nat /\ id \in [1 .. n -> Ids] /\ n = b + m + Len(rest)
    BY <1>1 DEF Row, Blocks, InRest, b
  <2>2. Len(rest) \in Nat /\ m \in Nat
    BY <2>1, LenProperties DEF InQueue
  <2>3. QED
    BY <1>2, <2>1, <2>2
<1>4. /\ m \in Nat /\ at \in [1 .. m -> 1 .. Len(queue)]
      /\ \A i \in 1 .. m : queue[at[i]] = Response(id[b + i])
      /\ \A i, j \in 1 .. m : i < j => at[i] < at[j]
      /\ \A k \in 1 .. Len(queue) : queue[k] = TelemFile \/ \E i \in 1 .. m : at[i] = k
  BY <1>3 DEF InQueue
<1>5. \A i \in 1 .. m : at[i] # 1
  <2>1. SUFFICES ASSUME NEW i \in 1 .. m, at[i] = 1
                 PROVE  FALSE
    OBVIOUS
  <2>2. queue[1] = Response(id[b + i])
    BY <1>4, <2>1
  <2>3. id[b + i] \in Ids
    BY <1>2, <1>3, <1>4
  <2>4. QED
    BY <1>2, <2>2, <2>3, Responses
<1>6. \A i \in 1 .. m : at[i] - 1 \in 1 .. Len(q) /\ at[i] \in Nat /\ (at[i] - 1) + 1 = at[i]
  <2>1. \A i \in 1 .. m : at[i] \in 1 .. Len(queue)
    BY <1>4
  <2>2. QED
    BY <1>2, <1>5, <2>1
<1>7. atN \in [1 .. m -> 1 .. Len(q)] /\ \A i \in 1 .. m : atN[i] = at[i] - 1
  BY <1>6
<1> HIDE DEF atN
<1>8. \A i \in 1 .. m : q[atN[i]] = Response(id[b + i])
  <2>1. SUFFICES ASSUME NEW i \in 1 .. m
                 PROVE  q[atN[i]] = Response(id[b + i])
    OBVIOUS
  <2>2. q[at[i] - 1] = queue[(at[i] - 1) + 1]
    BY <1>2, <1>6
  <2>3. q[atN[i]] = queue[at[i]]
    BY <1>6, <1>7, <2>2
  <2>4. QED
    BY <1>4, <2>3
<1>9. \A i, j \in 1 .. m : i < j => atN[i] < atN[j]
  BY <1>4, <1>6, <1>7
<1>10. ASSUME NEW k \in 1 .. Len(q)
       PROVE  q[k] = TelemFile \/ \E i \in 1 .. m : atN[i] = k
  <2>1. k + 1 \in 1 .. Len(queue) /\ q[k] = queue[k + 1]
    BY <1>2
  <2>2. CASE queue[k + 1] = TelemFile
    BY <2>1, <2>2
  <2>3. ASSUME NEW i \in 1 .. m, at[i] = k + 1
        PROVE  atN[i] = k
    BY <1>7, <2>3
  <2>4. QED
    BY <1>4, <2>1, <2>2, <2>3
<1>11. Row(buffer, q, rest, n, m, id, ph, atN)
  BY <1>1, <1>4, <1>7, <1>8, <1>9, <1>10 DEF Row, InQueue, b
<1>12. QED
  BY <1>11 DEF Stream, q

\* The first response in the queue is the next byte of the row; once the encoder has it
\* the queue has one less.
LEMMA RowTake ==
  ASSUME NEW buffer \in Seq(Ids), NEW queue \in Seq(EncodeEvents), NEW rest \in Seq(EncodeEvents),
         queue # <<>>, NEW x \in Ids, Head(queue) = Response(x),
         NEW n, NEW m, NEW id, NEW ph, NEW at, Row(buffer, queue, rest, n, m, id, ph, at)
  PROVE  /\ n \in Nat /\ m \in Nat \ {0} /\ Len(buffer) + m <= n
         /\ id[Len(buffer) + 1] = x
         /\ InQueue(Len(buffer) + 1, Tail(queue), m - 1, [i \in 1 .. m - 1 |-> at[i + 1] - 1], id)
<1> DEFINE b   == Len(buffer)
           q   == Tail(queue)
           atN == [i \in 1 .. m - 1 |-> at[i + 1] - 1]
<1>2. /\ b \in Nat /\ Len(queue) \in Nat \ {0} /\ queue[1] = Response(x)
      /\ Len(q) = Len(queue) - 1 /\ \A k \in 1 .. Len(q) : q[k] = queue[k + 1]
  BY Rest, LenProperties
<1> HIDE DEF b, q
<1>3. InQueue(b, queue, m, at, id) /\ n \in Nat /\ id \in [1 .. n -> Ids] /\ b + m <= n
  <2>1. InQueue(b, queue, m, at, id) /\ n \in Nat /\ id \in [1 .. n -> Ids] /\ n = b + m + Len(rest)
    BY DEF Row, Blocks, InRest, b
  <2>2. Len(rest) \in Nat /\ m \in Nat
    BY <2>1, LenProperties DEF InQueue
  <2>3. QED
    BY <1>2, <2>1, <2>2
<1>4. /\ m \in Nat /\ at \in [1 .. m -> 1 .. Len(queue)]
      /\ \A i \in 1 .. m : queue[at[i]] = Response(id[b + i])
      /\ \A i, j \in 1 .. m : i < j => at[i] < at[j]
      /\ \A k \in 1 .. Len(queue) : queue[k] = TelemFile \/ \E i \in 1 .. m : at[i] = k
  BY <1>3 DEF InQueue
<1>5. PICK first \in 1 .. m : at[first] = 1
  <2>1. 1 \in 1 .. Len(queue) /\ queue[1] # TelemFile
    BY <1>2, Responses
  <2>2. QED
    BY <1>4, <2>1
<1>6. first = 1
  <2>1. SUFFICES ASSUME first # 1
                 PROVE  FALSE
    OBVIOUS
  <2>2. 1 \in 1 .. m /\ 1 < first
    BY <1>4, <2>1
  <2>3. at[1] < 1 /\ at[1] \in 1 .. Len(queue)
    BY <1>4, <1>5, <2>2
  <2>4. QED
    BY <1>2, <2>3
<1>7. m \in Nat \ {0} /\ id[b + 1] = x
  <2>1. m \in Nat \ {0} /\ b + 1 \in 1 .. n /\ 1 \in 1 .. m
    BY <1>2, <1>3, <1>4, <1>5
  <2>2. Response(id[b + 1]) = Response(x) /\ id[b + 1] \in Ids
    BY <1>2, <1>3, <1>4, <1>5, <1>6, <2>1
  <2>3. QED
    BY <2>1, <2>2, Responses
<1>8. \A i \in 1 .. m - 1 : /\ i + 1 \in 1 .. m
                            /\ at[i + 1] - 1 \in 1 .. Len(q) /\ at[i + 1] \in Nat
                            /\ (at[i + 1] - 1) + 1 = at[i + 1]
  <2>1. SUFFICES ASSUME NEW i \in 1 .. m - 1
                 PROVE  /\ i + 1 \in 1 .. m
                        /\ at[i + 1] - 1 \in 1 .. Len(q) /\ at[i + 1] \in Nat
                        /\ (at[i + 1] - 1) + 1 = at[i + 1]
    OBVIOUS
  <2>2. i + 1 \in 1 .. m /\ 1 \in 1 .. m /\ 1 < i + 1
    BY <1>4
  <2>3. at[1] < at[i + 1] /\ at[1] = 1 /\ at[i + 1] \in 1 .. Len(queue)
    BY <1>4, <1>5, <1>6, <2>2
  <2>4. QED
    BY <1>2, <2>2, <2>3
<1>9. atN \in [1 .. m - 1 -> 1 .. Len(q)] /\ \A i \in 1 .. m - 1 : atN[i] = at[i + 1] - 1
  BY <1>8
<1> HIDE DEF atN
<1>10. ASSUME NEW i \in 1 .. m - 1
       PROVE  q[atN[i]] = Response(id[(b + 1) + i])
  <2>1. q[atN[i]] = queue[at[i + 1]]
    <3>1. q[at[i + 1] - 1] = queue[(at[i + 1] - 1) + 1]
      BY <1>2, <1>8
    <3>2. QED
      BY <1>8, <1>9, <3>1
  <2>2. queue[at[i + 1]] = Response(id[b + (i + 1)]) /\ b + (i + 1) = (b + 1) + i
    BY <1>2, <1>4, <1>8
  <2>3. QED
    BY <2>1, <2>2
<1>11. ASSUME NEW i \in 1 .. m - 1, NEW j \in 1 .. m - 1, i < j
       PROVE  atN[i] < atN[j]
  <2>1. i + 1 \in 1 .. m /\ j + 1 \in 1 .. m /\ i + 1 < j + 1
    BY <1>4, <1>11
  <2>2. at[i + 1] < at[j + 1]
    BY <1>4, <2>1
  <2>3. at[i + 1] \in Nat /\ at[j + 1] \in Nat
    BY <1>8
  <2>4. atN[i] = at[i + 1] - 1 /\ atN[j] = at[j + 1] - 1
    BY <1>9
  <2>5. QED
    BY <2>2, <2>3, <2>4
<1>12. ASSUME NEW k \in 1 .. Len(q)
       PROVE  q[k] = TelemFile \/ \E i \in 1 .. m - 1 : atN[i] = k
  <2>1. k + 1 \in 1 .. Len(queue) /\ q[k] = queue[k + 1]
    BY <1>2
  <2>2. CASE queue[k + 1] = TelemFile
    BY <2>1, <2>2
  <2>3. ASSUME NEW i \in 1 .. m, at[i] = k + 1
        PROVE  \E j \in 1 .. m - 1 : atN[j] = k
    <3>1. i # 1
      BY <1>5, <1>6, <2>3
    <3>2. i - 1 \in 1 .. m - 1 /\ (i - 1) + 1 = i
      BY <1>4, <3>1
    <3>3. atN[i - 1] = at[i] - 1
      BY <1>9, <3>2
    <3>4. QED
      BY <2>3, <3>2, <3>3
  <2>4. QED
    BY <1>4, <2>1, <2>2, <2>3
<1>13. m - 1 \in Nat
  BY <1>7
<1>14. InQueue(b + 1, q, m - 1, atN, id)
  BY <1>9, <1>10, <1>11, <1>12, <1>13 DEF InQueue
<1>15. QED
  BY <1>3, <1>7, <1>14 DEF b, q, atN

\* ... and as the byte after those in the buffer it is of the same command.
LEMMA RowNext ==
  ASSUME NEW buffer \in Seq(Ids), NEW n \in Nat, NEW id, NEW ph, Blocks(n, id, ph),
         InBuffer(buffer, n, id, ph), Len(buffer) < ResponseChunks, Len(buffer) + 1 <= n
  PROVE  ph[Len(buffer) + 1] = Len(buffer) + 1 /\ id[Len(buffer) + 1] = id[1]
<1> DEFINE b == Len(buffer)
<1>0. b \in Nat
  BY LenProperties
<1> HIDE DEF b
<1>1. CASE b = 0
  BY <1>1 DEF Blocks, b
<1>2. CASE b # 0
  <2>1. b \in 1 .. n /\ b \in 1 .. b /\ b < n
    BY <1>0, <1>2 DEF b
  <2>2. ph[b] = b /\ id[b] = id[1]
    BY <2>1 DEF InBuffer, b
  <2>3. QED
    BY <2>1, <2>2 DEF Blocks, b
<1>3. QED
  BY <1>1, <1>2

\* A byte that does not fill the buffer.
LEMMA StreamCollect ==
  ASSUME NEW buffer \in Seq(Ids), NEW queue \in Seq(EncodeEvents), NEW rest \in Seq(EncodeEvents),
         queue # <<>>, NEW x \in Ids, Head(queue) = Response(x), Len(buffer) < ResponseChunks,
         Stream(buffer, queue, rest)
  PROVE  Stream(Append(buffer, x), Tail(queue), rest)
<1>1. PICK n, m, id, ph, at : Row(buffer, queue, rest, n, m, id, ph, at)
  BY DEF Stream
<1> DEFINE b   == Len(buffer)
           r   == Append(buffer, x)
           atN == [i \in 1 .. m - 1 |-> at[i + 1] - 1]
<1>2. /\ b \in Nat /\ Len(r) = b + 1 /\ r[b + 1] = x /\ \A k \in 1 .. b : r[k] = buffer[k]
  BY AppendProperties, LenProperties
<1>3. /\ n \in Nat /\ m \in Nat \ {0} /\ b + m <= n /\ id[b + 1] = x
      /\ InQueue(b + 1, Tail(queue), m - 1, atN, id)
  BY <1>1, RowTake
<1> HIDE DEF b, r, atN
<1>4. ph[b + 1] = b + 1 /\ id[b + 1] = id[1]
  <2>1. b + 1 <= n
    BY <1>2, <1>3
  <2>2. QED
    BY <1>1, <1>3, <2>1, RowNext DEF Row, b
<1>5. InBuffer(r, n, id, ph)
  <2>1. \A k \in 1 .. b : buffer[k] = id[k] /\ ph[k] = k /\ id[k] = id[1]
    BY <1>1 DEF Row, InBuffer, b
  <2>2. ASSUME NEW k \in 1 .. b + 1
        PROVE  r[k] = id[k] /\ ph[k] = k /\ id[k] = id[1]
    <3>1. CASE k \in 1 .. b
      BY <1>2, <2>1, <3>1
    <3>2. CASE k = b + 1
      BY <1>2, <1>3, <1>4, <3>2
    <3>3. QED
      BY <1>2, <3>1, <3>2
  <2>3. b + 1 <= n
    BY <1>2, <1>3
  <2>4. QED
    BY <1>2, <2>2, <2>3 DEF InBuffer
<1>6. InRest(Len(r) + (m - 1), rest, n, id)
  <2>1. Len(r) + (m - 1) = b + m
    BY <1>2, <1>3
  <2>2. QED
    BY <1>1, <2>1 DEF Row, b
<1>7. Row(r, Tail(queue), rest, n, m - 1, id, ph, atN)
  BY <1>1, <1>2, <1>3, <1>5, <1>6 DEF Row
<1>8. QED
  BY <1>7 DEF Stream, r

\* The byte that fills it: all are of one command, and what is left is of later ones.
LEMMA StreamFull ==
  ASSUME NEW buffer \in Seq(Ids), NEW queue \in Seq(EncodeEvents), NEW rest \in Seq(EncodeEvents),
         queue # <<>>, NEW x \in Ids, Head(queue) = Response(x), Len(buffer) + 1 = ResponseChunks,
         Stream(buffer, queue, rest), NEW none \in Seq(Ids), Len(none) = 0
  PROVE  /\ Stream(none, Tail(queue), rest)
         /\ \A k \in 1 .. Len(buffer) : buffer[k] = x
         /\ x \in Answered(buffer, queue, rest)
         /\ Before({x}, Answered(none, Tail(queue), rest))
<1>1. PICK n, m, id, ph, at : Row(buffer, queue, rest, n, m, id, ph, at)
  BY DEF Stream
<1> DEFINE b   == Len(buffer)
           atN == [i \in 1 .. m - 1 |-> at[i + 1] - 1]
           R   == ResponseChunks
           N   == n - R
           idN == [k \in 1 .. N |-> id[k + R]]
           phN == [k \in 1 .. N |-> ph[k + R]]
<1>2. b \in Nat /\ R \in Nat \ {0} /\ R = b + 1
  BY LenProperties, PipelineAssumption
<1>3. /\ n \in Nat /\ m \in Nat \ {0} /\ b + m <= n /\ id[b + 1] = x
      /\ InQueue(b + 1, Tail(queue), m - 1, atN, id)
  BY <1>1, RowTake
<1>4. N \in Nat /\ \A k \in 1 .. N : k + R \in 1 .. n
  BY <1>2, <1>3
<1>5. (\A k \in 1 .. N : idN[k] = id[k + R] /\ phN[k] = ph[k + R])
  OBVIOUS
<1>6. /\ id \in [1 .. n -> Ids] /\ ph \in [1 .. n -> 1 .. R]
      /\ \A j, k \in 1 .. n : j < k => id[j] <= id[k]
      /\ \A j, k \in 1 .. n : j < k /\ ph[k] = 1 => id[j] < id[k]
      /\ \A k \in 1 .. n : k = n => ph[k] = R
      /\ \A k \in 1 .. n : k < n /\ ph[k] < R => ph[k + 1] = ph[k] + 1 /\ id[k + 1] = id[k]
      /\ \A k \in 1 .. n : k < n /\ ph[k] = R => ph[k + 1] = 1
  BY <1>1 DEF Row, Blocks
<1>7. idN \in [1 .. N -> Ids] /\ phN \in [1 .. N -> 1 .. R]
  BY <1>4, <1>6
<1> HIDE DEF b, atN, N, idN, phN, R
<1>8. R \in 1 .. n /\ ph[R] = R /\ id[R] = id[1] /\ id[R] = x
  <2>1. b + 1 <= n
    BY <1>2, <1>3
  <2>2. ph[b + 1] = b + 1 /\ id[b + 1] = id[1]
    BY <1>1, <1>2, <1>3, <2>1, RowNext DEF Row, b, R
  <2>3. QED
    BY <1>2, <1>3, <2>1, <2>2
<1>9. \A k \in 1 .. b : buffer[k] = x
  BY <1>1, <1>8 DEF Row, InBuffer, b
<1>10. N >= 1 => ph[1 + R] = 1 /\ 1 + R \in 1 .. n /\ R < n
  <2>1. SUFFICES ASSUME N >= 1
                 PROVE  ph[1 + R] = 1 /\ 1 + R \in 1 .. n /\ R < n
    OBVIOUS
  <2>2. R < n /\ 1 + R = R + 1 /\ 1 + R \in 1 .. n
    BY <1>2, <1>3, <2>1 DEF N
  <2>3. QED
    BY <1>6, <1>8, <2>2
<1>11. Blocks(N, idN, phN)
  <2>1. ASSUME NEW j \in 1 .. N, NEW k \in 1 .. N, j < k
        PROVE  idN[j] <= idN[k] /\ (phN[k] = 1 => idN[j] < idN[k])
    <3>0. j \in Nat /\ k \in Nat /\ j + R < k + R
      BY <1>2, <1>4, <2>1
    <3>1. j + R \in 1 .. n /\ k + R \in 1 .. n /\ j + R < k + R
      BY <1>4, <2>1, <3>0
    <3>2. QED
      BY <1>5, <1>6, <3>1
  <2>2. ASSUME NEW k \in 1 .. N
        PROVE  /\ k = 1 => phN[k] = 1
               /\ k = N => phN[k] = R
               /\ k < N /\ phN[k] < R => phN[k + 1] = phN[k] + 1 /\ idN[k + 1] = idN[k]
               /\ k < N /\ phN[k] = R => phN[k + 1] = 1
    <3>1. k = 1 => phN[k] = 1
      <4>1. k = 1 => N >= 1
        BY <1>4
      <4>2. QED
        BY <1>5, <1>10, <4>1
    <3>2. k = N => phN[k] = R
      <4>1. k = N => k + R = n
        BY <1>2, <1>3 DEF N
      <4>2. QED
        BY <1>4, <1>5, <1>6, <4>1
    <3>3. ASSUME k < N
          PROVE  /\ phN[k] < R => phN[k + 1] = phN[k] + 1 /\ idN[k + 1] = idN[k]
                 /\ phN[k] = R => phN[k + 1] = 1
      <4>1. /\ k + 1 \in 1 .. N /\ k + R \in 1 .. n /\ k + R < n /\ (k + 1) + R = (k + R) + 1
        <5>1. k + 1 \in 1 .. N
          BY <1>4, <3>3
        <5>2. QED
          BY <1>2, <1>3, <1>4, <3>3, <5>1 DEF N
      <4>2. /\ phN[k] = ph[k + R] /\ idN[k] = id[k + R]
            /\ phN[k + 1] = ph[(k + R) + 1] /\ idN[k + 1] = id[(k + R) + 1]
        BY <1>5, <4>1
      <4>3. QED
        BY <1>6, <4>1, <4>2
    <3>4. QED
      BY <3>1, <3>2, <3>3
  <2>3. QED
    BY <1>4, <1>7, <2>1, <2>2 DEF Blocks, R
<1>12. InBuffer(none, N, idN, phN)
  BY <1>4 DEF InBuffer
<1>13. InQueue(0, Tail(queue), m - 1, atN, idN)
  <2>1. \A i \in 1 .. m - 1 : 0 + i \in 1 .. N /\ idN[0 + i] = id[(b + 1) + i]
    <3>1. SUFFICES ASSUME NEW i \in 1 .. m - 1
                   PROVE  0 + i \in 1 .. N /\ idN[0 + i] = id[(b + 1) + i]
      OBVIOUS
    <3>2. 0 + i = i /\ i \in 1 .. N /\ i + R = (b + 1) + i
      BY <1>2, <1>3 DEF N
    <3>3. QED
      BY <1>5, <3>2
  <2>2. QED
    BY <1>3, <2>1 DEF InQueue
<1>14. InRest(0 + (m - 1), rest, N, idN)
  <2>1. n = (b + m) + Len(rest) /\ \A k \in 1 .. Len(rest) : rest[k] = Response(id[(b + m) + k])
    BY <1>1 DEF Row, InRest, b
  <2>2. Len(rest) \in Nat
    BY LenProperties
  <2>3. N = 0 + (m - 1) + Len(rest)
    BY <1>2, <1>3, <2>1, <2>2 DEF N
  <2>4. ASSUME NEW k \in 1 .. Len(rest)
        PROVE  idN[0 + (m - 1) + k] = id[(b + m) + k]
    <3>1. 0 + (m - 1) + k \in 1 .. N /\ 0 + (m - 1) + k + R = (b + m) + k
      BY <1>2, <1>3, <2>1, <2>2 DEF N
    <3>2. QED
      BY <1>5, <3>1
  <2>5. QED
    BY <2>1, <2>3, <2>4 DEF InRest
<1>15. Row(none, Tail(queue), rest, N, m - 1, idN, phN, atN)
  BY <1>11, <1>12, <1>13, <1>14 DEF Row
<1>16. x \in Answered(buffer, queue, rest)
  BY <1>1, <1>8, RowIds
<1>17. Before({x}, Answered(none, Tail(queue), rest))
  <2>1. Tail(queue) \in Seq(EncodeEvents)
    BY Rest
  <2>2. ASSUME NEW y \in Answered(none, Tail(queue), rest)
        PROVE  x < y
    <3>1. PICK k \in 1 .. N : y = idN[k]
      <4>1. /\ \A z \in Answered(none, Tail(queue), rest) : \E k \in 1 .. N : z = idN[k]
            /\ \A k \in 1 .. N : idN[k] \in Answered(none, Tail(queue), rest)
        BY ONLY <1>15, <2>1, RowIds, none \in Seq(Ids), rest \in Seq(EncodeEvents), Zenon
      <4>2. QED
        BY <2>2, <4>1
    <3>2. k + R \in 1 .. n /\ y = id[k + R] /\ N >= 1
      BY <1>4, <1>5, <3>1
    <3>3. id[R] < id[1 + R]
      BY <1>2, <1>6, <1>8, <1>10, <3>2
    <3>4. id[1 + R] <= id[k + R]
      <4>1. CASE k = 1
        BY <1>6, <1>10, <3>2, <4>1, IdsNat
      <4>2. CASE k # 1
        <5>1. 1 + R < k + R
          BY <1>2, <1>4, <4>2
        <5>2. QED
          BY <1>6, <1>10, <3>2, <5>1
      <4>3. QED
        BY <4>1, <4>2
    <3>5. id[R] \in Nat /\ id[1 + R] \in Nat /\ id[k + R] \in Nat
      BY <1>6, <1>8, <1>10, <3>2, IdsNat
    <3>6. QED
      BY <1>8, <3>2, <3>3, <3>4, <3>5
  <2>3. QED
    BY <2>2 DEF Before
<1>18. QED
  BY <1>9, <1>15, <1>16, <1>17 DEF Stream, b

-----------------------------------------------------------------------------
(* The pipeline in order. *)

Arriving  == IF cm = "push" THEN FrameIds[rx.frame] ELSE {}
Answering == Answered(cmdResBuffer, encodeQueue, writing["command"])

\* The commands by where they or their responses are, from the last place to the first.
Places == <<IdsIn(AnswerIds, downlinked), IdsIn(PacketIds, transmitQueue), IdsIn(PacketIds, outbox),
            Answering, IdsIn(CommandIds, commandQueue), IdsIn(CommandIds, todo),
            IdsIn(FrameIds, decodeQueue), Arriving, nextId .. MaxCommands>>

\* Every queue is in order,
DownInOrder == InOrder(AnswerIds, downlinked) /\ InOrder(PacketIds, transmitQueue)
               /\ InOrder(PacketIds, outbox)
CommandsInOrder == InOrder(CommandIds, commandQueue) /\ InOrder(CommandIds, todo)
FramesInOrder ==
  /\ InOrder(FrameIds, decodeQueue)
  /\ \A k \in 1 .. Len(decodeQueue) : InOrder(CommandIds, decodeQueue[k].cmds)
  /\ InOrder(CommandIds, rx.frame.cmds)

\* what the command manager writes is a stream, nobody else writes responses,
Streaming ==
  /\ Stream(cmdResBuffer, encodeQueue, writing["command"])
  /\ writing["alarm"] = <<>>
  /\ \A k \in 1 .. Len(writing["telemetry"]) : writing["telemetry"][k] = TelemFile

\* and a packet is of one command.
Whole(q) == \A k \in 1 .. Len(q) : \A j \in 1 .. Len(q[k].data) : q[k].data[j] = q[k].data[1]

Flow == /\ Ordered(Places) /\ DownInOrder /\ CommandsInOrder /\ FramesInOrder
        /\ Streaming /\ Whole(outbox) /\ Whole(transmitQueue)

\* The places, now and after a step.
LEMMA PlacesAre ==
  /\ Places[1] = IdsIn(AnswerIds, downlinked) /\ Places[2] = IdsIn(PacketIds, transmitQueue)
  /\ Places[3] = IdsIn(PacketIds, outbox) /\ Places[4] = Answering
  /\ Places[5] = IdsIn(CommandIds, commandQueue) /\ Places[6] = IdsIn(CommandIds, todo)
  /\ Places[7] = IdsIn(FrameIds, decodeQueue) /\ Places[8] = Arriving
  /\ Places[9] = nextId .. MaxCommands
  /\ Places'[1] = IdsIn(AnswerIds, downlinked') /\ Places'[2] = IdsIn(PacketIds, transmitQueue')
  /\ Places'[3] = IdsIn(PacketIds, outbox') /\ Places'[4] = Answering'
  /\ Places'[5] = IdsIn(CommandIds, commandQueue') /\ Places'[6] = IdsIn(CommandIds, todo')
  /\ Places'[7] = IdsIn(FrameIds, decodeQueue') /\ Places'[8] = Arriving'
  /\ Places'[9] = nextId' .. MaxCommands
BY DEF Places

\* The constants of the model do not change.
LEMMA Fixed ==
  AnswerIds' = AnswerIds /\ PacketIds' = PacketIds /\ CommandIds' = CommandIds /\ FrameIds' = FrameIds
BY DEF AnswerIds, PacketIds, CommandIds, FrameIds, IdsIn, TransmitEvents, Ids, Commands, Frames, Partial

\* A queue is about commands.
LEMMA IdsInTyped ==
  ASSUME NEW S, NEW K \in [S -> SUBSET Ids], NEW q \in Seq(S)
  PROVE  IdsIn(K, q) \subseteq Ids
BY ElementOfSeq DEF IdsIn

\* So is the stream.
LEMMA AnsweredTyped ==
  ASSUME NEW b \in Seq(Ids), NEW q, NEW r
  PROVE  Answered(b, q, r) \subseteq Ids
BY IdsTyped DEF Answered

\* The queues by the kind of what they hold.
LEMMA QueueTypes ==
  ASSUME IInv
  PROVE  /\ downlinked \in Seq(Seq(Ids))
         /\ transmitQueue \in Seq(TransmitEvents) /\ outbox \in Seq(TransmitEvents)
         /\ cmdResBuffer \in Seq(Ids) /\ Len(cmdResBuffer) < ResponseChunks
         /\ encodeQueue \in Seq(EncodeEvents)
         /\ \A p \in Producers : writing[p] \in Seq(EncodeEvents)
         /\ commandQueue \in Seq(Commands) /\ todo \in Seq(Commands)
         /\ decodeQueue \in Seq(Frames \cup {Partial})
         /\ rx.frame \in Frames \cup {Partial} /\ nextId \in 1 .. MaxCommands + 1
         /\ cm = "push" => rx.left \in 1 .. FrameChunks /\ rx.frame \in Frames
         /\ writing \in [Producers -> Seq(EncodeEvents)]
<1>1. rx.frame \in Frames \cup {Partial} /\ downlinked \in Seq(Seq(Ids))
  BY DEF IInv, TypeManager
<1>2. cm = "push" => rx.left \in 1 .. FrameChunks /\ rx.frame \in Frames
  BY DEF IInv, TypeManager, Handlers
<1>3. nextId \in 1 .. MaxCommands + 1
  BY DEF IInv, TypeGround
<1>4. writing \in [Producers -> Seq(EncodeEvents)]
  BY DEF IInv, TypeSources, TypeWriting
<1>5. QED
  BY <1>1, <1>2, <1>3, <1>4 DEF IInv, TypeTransmit, TypeEncoder, TypeOutbox, TypeBuffer, TypeEncode,
     TypeUplink, TypeCommand, TypeTodo, TypeDecode

\* Nine of a kind.
LEMMA Nine ==
  ASSUME NEW S, NEW a \in S, NEW b \in S, NEW c \in S, NEW d \in S, NEW e \in S, NEW f \in S,
         NEW g \in S, NEW h \in S, NEW i \in S
  PROVE  <<a, b, c, d, e, f, g, h, i>> \in [1 .. 9 -> S]
OBVIOUS

\* ... and where commands are there are numbers.
PlacesOk == Places \in [1 .. 9 -> SUBSET Nat]

\* All that is in them has been numbered.
LEMMA PlacesTyped == IInv => PlacesOk
<1> SUFFICES ASSUME IInv
             PROVE  Places \in [1 .. 9 -> SUBSET Nat]
  BY DEF PlacesOk
<1>1. /\ IdsIn(AnswerIds, downlinked) \subseteq Ids /\ IdsIn(PacketIds, transmitQueue) \subseteq Ids
      /\ IdsIn(PacketIds, outbox) \subseteq Ids
  BY QueueTypes, IdsTyped, IdsInTyped
<1>2. /\ IdsIn(CommandIds, commandQueue) \subseteq Ids /\ IdsIn(CommandIds, todo) \subseteq Ids
      /\ IdsIn(FrameIds, decodeQueue) \subseteq Ids
  BY QueueTypes, IdsTyped, IdsInTyped
<1>3. Answering \subseteq Ids
  BY QueueTypes, AnsweredTyped DEF Answering
<1>4. Arriving \subseteq Ids
  BY QueueTypes, IdsTyped DEF Arriving
<1>5. nextId .. MaxCommands \in SUBSET Nat
  BY QueueTypes, PipelineAssumption
<1>6. /\ IdsIn(AnswerIds, downlinked) \in SUBSET Nat /\ IdsIn(PacketIds, transmitQueue) \in SUBSET Nat
      /\ IdsIn(PacketIds, outbox) \in SUBSET Nat /\ Answering \in SUBSET Nat
      /\ IdsIn(CommandIds, commandQueue) \in SUBSET Nat /\ IdsIn(CommandIds, todo) \in SUBSET Nat
      /\ IdsIn(FrameIds, decodeQueue) \in SUBSET Nat /\ Arriving \in SUBSET Nat
  BY <1>1, <1>2, <1>3, <1>4, IdsNat
<1>7. QED
  BY <1>5, <1>6, Nine DEF Places

\* What is in no other sequence than A is in A.
LEMMA AnsweredWithin ==
  ASSUME NEW A, NEW b \in Seq(Ids), NEW q, NEW r,
         \A k \in 1 .. Len(b) : b[k] \in A,
         \A k \in 1 .. Len(q) : \A x \in Ids : q[k] = Response(x) => x \in A,
         \A k \in 1 .. Len(r) : \A x \in Ids : r[k] = Response(x) => x \in A
  PROVE  Answered(b, q, r) \subseteq A
BY DEF Answered, AnswerIds

\* What is in one of the three is in the stream.
LEMMA AnsweredHas ==
  ASSUME NEW b \in Seq(Ids), NEW q, NEW r
  PROVE  /\ \A k \in 1 .. Len(b) : b[k] \in Answered(b, q, r)
         /\ \A k \in 1 .. Len(q) : \A x \in Ids : q[k] = Response(x) => x \in Answered(b, q, r)
         /\ \A k \in 1 .. Len(r) : \A x \in Ids : r[k] = Response(x) => x \in Answered(b, q, r)
BY DEF Answered, AnswerIds

\* Writing a byte adds no command to the stream, nor does a file that comes or goes.
LEMMA AnsweredWrite ==
  ASSUME NEW b \in Seq(Ids), NEW q \in Seq(EncodeEvents), NEW r \in Seq(EncodeEvents), r # <<>>
  PROVE  Answered(b, Append(q, Head(r)), Tail(r)) \subseteq Answered(b, q, r)
<1> DEFINE A == Answered(b, q, r)
           p == Append(q, Head(r))
           s == Tail(r)
<1>1. /\ \A k \in 1 .. Len(b) : b[k] \in A
      /\ \A k \in 1 .. Len(q) : \A x \in Ids : q[k] = Response(x) => x \in A
      /\ \A k \in 1 .. Len(r) : \A x \in Ids : r[k] = Response(x) => x \in A
  BY AnsweredHas
<1>2. /\ Len(r) \in Nat \ {0} /\ Head(r) = r[1] /\ Head(r) \in EncodeEvents /\ Len(s) = Len(r) - 1
      /\ \A k \in 1 .. Len(s) : s[k] = r[k + 1]
  BY Rest
<1>3. /\ Len(q) \in Nat /\ Len(p) = Len(q) + 1 /\ p[Len(q) + 1] = r[1]
      /\ \A k \in 1 .. Len(q) : p[k] = q[k]
  BY <1>2, AppendProperties, LenProperties
<1> HIDE DEF A, p, s
<1>4. ASSUME NEW k \in 1 .. Len(p), NEW x \in Ids, p[k] = Response(x)
      PROVE  x \in A
  <2>1. CASE k \in 1 .. Len(q)
    BY <1>1, <1>3, <1>4, <2>1
  <2>2. CASE k = Len(q) + 1
    <3>1. r[1] = Response(x) /\ 1 \in 1 .. Len(r)
      BY <1>2, <1>3, <1>4, <2>2
    <3>2. QED
      BY <1>1, <3>1
  <2>3. QED
    BY <1>3, <1>4, <2>1, <2>2
<1>5. ASSUME NEW k \in 1 .. Len(s), NEW x \in Ids, s[k] = Response(x)
      PROVE  x \in A
  <2>1. k + 1 \in 1 .. Len(r) /\ r[k + 1] = Response(x)
    BY <1>2, <1>5
  <2>2. QED
    BY <1>1, <2>1
<1>6. Answered(b, p, s) \subseteq A
  BY <1>1, <1>4, <1>5, AnsweredWithin
<1>7. QED
  BY <1>6 DEF A, p, s

\* A file that comes adds none,
LEMMA AnsweredFile ==
  ASSUME NEW b \in Seq(Ids), NEW q \in Seq(EncodeEvents), NEW r \in Seq(EncodeEvents)
  PROVE  Answered(b, Append(q, TelemFile), r) \subseteq Answered(b, q, r)
<1> DEFINE A == Answered(b, q, r)
           p == Append(q, TelemFile)
<1>1. /\ \A k \in 1 .. Len(b) : b[k] \in A
      /\ \A k \in 1 .. Len(q) : \A x \in Ids : q[k] = Response(x) => x \in A
      /\ \A k \in 1 .. Len(r) : \A x \in Ids : r[k] = Response(x) => x \in A
  BY AnsweredHas
<1>2. TelemFile \in EncodeEvents
  BY DEF EncodeEvents
<1>3. /\ Len(q) \in Nat /\ Len(p) = Len(q) + 1 /\ p[Len(q) + 1] = TelemFile
      /\ \A k \in 1 .. Len(q) : p[k] = q[k]
  BY <1>2, AppendProperties, LenProperties
<1> HIDE DEF A, p
<1>4. ASSUME NEW k \in 1 .. Len(p), NEW x \in Ids, p[k] = Response(x)
      PROVE  x \in A
  <2>1. k # Len(q) + 1
    BY <1>3, <1>4, Responses
  <2>2. k \in 1 .. Len(q)
    BY <1>3, <2>1
  <2>3. QED
    BY <1>1, <1>3, <1>4, <2>2
<1>6. Answered(b, p, r) \subseteq A
  BY <1>1, <1>4, AnsweredWithin
<1>7. QED
  BY <1>6 DEF A, p

\* and what leaves the queue none, also when it goes to the buffer.
LEMMA AnsweredTake ==
  ASSUME NEW b \in Seq(Ids), NEW q \in Seq(EncodeEvents), NEW r \in Seq(EncodeEvents), q # <<>>
  PROVE  /\ Answered(b, Tail(q), r) \subseteq Answered(b, q, r)
         /\ \A x \in Ids : Head(q) = Response(x) =>
              Answered(Append(b, x), Tail(q), r) \subseteq Answered(b, q, r)
<1> DEFINE A == Answered(b, q, r)
           s == Tail(q)
<1>1. /\ \A k \in 1 .. Len(b) : b[k] \in A
      /\ \A k \in 1 .. Len(q) : \A x \in Ids : q[k] = Response(x) => x \in A
      /\ \A k \in 1 .. Len(r) : \A x \in Ids : r[k] = Response(x) => x \in A
  BY AnsweredHas
<1>2. /\ Len(q) \in Nat \ {0} /\ Head(q) = q[1] /\ Len(s) = Len(q) - 1
      /\ \A k \in 1 .. Len(s) : s[k] = q[k + 1]
  BY Rest
<1> HIDE DEF A, s
<1>3. ASSUME NEW k \in 1 .. Len(s), NEW x \in Ids, s[k] = Response(x)
      PROVE  x \in A
  <2>1. k + 1 \in 1 .. Len(q) /\ q[k + 1] = Response(x)
    BY <1>2, <1>3
  <2>2. QED
    BY <1>1, <2>1
<1>4. Answered(b, s, r) \subseteq A
  BY <1>1, <1>3, AnsweredWithin
<1>5. ASSUME NEW x \in Ids, Head(q) = Response(x)
      PROVE  Answered(Append(b, x), s, r) \subseteq A
  <2> DEFINE c == Append(b, x)
  <2>1. /\ Len(b) \in Nat /\ c \in Seq(Ids) /\ Len(c) = Len(b) + 1 /\ c[Len(b) + 1] = x
        /\ \A k \in 1 .. Len(b) : c[k] = b[k]
    BY AppendProperties, LenProperties
  <2> HIDE DEF c
  <2>2. x \in A
    <3>1. 1 \in 1 .. Len(q) /\ q[1] = Response(x)
      BY <1>2, <1>5
    <3>2. QED
      BY <1>1, <3>1
  <2>3. ASSUME NEW k \in 1 .. Len(c)
        PROVE  c[k] \in A
    <3>1. k \in 1 .. Len(b) \/ k = Len(b) + 1
      BY <2>1
    <3>2. QED
      BY <1>1, <2>1, <2>2, <3>1
  <2>4. Answered(c, s, r) \subseteq A
    BY <1>1, <1>3, <2>1, <2>3, AnsweredWithin
  <2>5. QED
    BY <2>4 DEF c
<1>6. QED
  BY <1>4, <1>5 DEF A, s

\* An answered command adds itself.
LEMMA AnsweredAnswer ==
  ASSUME NEW b \in Seq(Ids), NEW q \in Seq(EncodeEvents), NEW r, NEW x \in Ids
  PROVE  Answered(b, q, ResponseBytes(x)) \subseteq Answered(b, q, r) \cup {x}
<1> DEFINE A == Answered(b, q, r) \cup {x}
           s == ResponseBytes(x)
<1>1. /\ \A k \in 1 .. Len(b) : b[k] \in A
      /\ \A k \in 1 .. Len(q) : \A y \in Ids : q[k] = Response(y) => y \in A
  BY AnsweredHas
<1>2. Len(s) = ResponseChunks /\ \A k \in 1 .. ResponseChunks : s[k] = Response(x)
  BY PipelineAssumption DEF ResponseBytes
<1>3. x \in A
  OBVIOUS
<1> HIDE DEF A, s
<1>4. ASSUME NEW k \in 1 .. Len(s), NEW y \in Ids, s[k] = Response(y)
      PROVE  y \in A
  BY <1>2, <1>3, <1>4, Responses
<1>5. Answered(b, q, s) \subseteq A
  BY <1>1, <1>4, AnsweredWithin
<1>6. QED
  BY <1>5 DEF A, s

-----------------------------------------------------------------------------
(* Every step keeps it in order. *)

\* The types after a step.
LEMMA TypesNext ==
  ASSUME IInv'
  PROVE  rx'.frame \in Frames \cup {Partial} /\ nextId' \in 1 .. MaxCommands + 1
<1>1. (Frames \cup {Partial})' = Frames \cup {Partial}
  BY DEF Frames, Partial, Commands, Ids
<1>2. rx'.frame \in (Frames \cup {Partial})' /\ nextId' \in 1 .. MaxCommands + 1
  BY DEF IInv, TypeManager, TypeGround
<1>3. QED
  BY <1>1, <1>2

\* The places after it.
LEMMA PlacesTypedNext == IInv' => PlacesOk'
BY PlacesTyped, PTL

\* A step that moves the commands M from one place to the end of the next one,
LEMMA StepMoves ==
  ASSUME IInv, IInv', Ordered(Places), NEW i \in 1 .. 8, NEW j, j = i + 1, NEW M,
         \A k \in {1, 2, 3, 4, 5, 6, 7, 8, 9} : k # i => Places'[k] \subseteq Places[k],
         Places'[i] \subseteq Places[i] \cup M,
         M \subseteq Places[j], Before(M, Places'[j])
  PROVE  Ordered(Places')
<1>1. Places \in [1 .. 9 -> SUBSET Nat] /\ Places' \in [1 .. 9 -> SUBSET Nat]
  BY PlacesTyped, PlacesTypedNext DEF PlacesOk
<1>2. i + 1 \in 1 .. 9 /\ 1 .. 9 = {1, 2, 3, 4, 5, 6, 7, 8, 9}
  OBVIOUS
<1>3. M \in SUBSET Nat
  BY <1>1, <1>2
<1>4. \A k \in 1 .. 9 : k # i => Places'[k] \subseteq Places[k]
  BY <1>2
<1>5. M \subseteq Places[i + 1] /\ Before(M, Places'[i + 1])
  OBVIOUS
<1>6. QED
  BY ONLY <1>1, <1>3, <1>4, <1>5, OrderMoves, i \in 1 .. 8, Ordered(Places),
          Places'[i] \subseteq Places[i] \cup M

\* or none.
LEMMA StepDrops ==
  ASSUME IInv, IInv', Ordered(Places), \A k \in {1, 2, 3, 4, 5, 6, 7, 8, 9} : Places'[k] \subseteq Places[k]
  PROVE  Ordered(Places')
<1>1. Places \in [1 .. 9 -> SUBSET Nat] /\ Places' \in [1 .. 9 -> SUBSET Nat]
  BY PlacesTyped, PlacesTypedNext DEF PlacesOk
<1>2. 1 .. 9 = {1, 2, 3, 4, 5, 6, 7, 8, 9}
  OBVIOUS
<1>3. QED
  BY <1>1, <1>2, OrderDrops

\* What does not change stays in order.
LEMMA Kept ==
  /\ DownInOrder /\ UNCHANGED <<downlinked, transmitQueue, outbox>> => DownInOrder'
  /\ CommandsInOrder /\ UNCHANGED <<commandQueue, todo>> => CommandsInOrder'
  /\ FramesInOrder /\ UNCHANGED <<decodeQueue, rx>> => FramesInOrder'
  /\ Streaming /\ UNCHANGED <<cmdResBuffer, encodeQueue, writing>> => Streaming'
  /\ UNCHANGED <<cmdResBuffer, encodeQueue, writing>> => Answering' = Answering
  /\ UNCHANGED <<cm, rx>> => Arriving' = Arriving
BY Fixed DEF DownInOrder, CommandsInOrder, FramesInOrder, Streaming, Answering, Arriving

\* A frame from the ground has the next numbers.
LEMMA ReadFrameFlow ==
  ASSUME IInv, IInv', Flow, NEW f \in ConnUplinks \cup Uplinks, ReadFrame(f)
  PROVE  Flow'
<1> DEFINE g == [kind |-> f.kind, cmds |-> Numbered(f.cmds)]
           M == FrameIds[g]
           n == Len(f.cmds)
<1>0. /\ UNCHANGED <<downlinked, transmitQueue, outbox, commandQueue, todo, decodeQueue,
                     cmdResBuffer, encodeQueue, writing>>
      /\ nextId' = nextId + n /\ rx'.frame = g /\ cm' = "push" /\ cm = "read"
  BY DEF ReadFrame, uplink, sources, encoder
<1>1. n \in Nat /\ DOMAIN f.cmds = 1 .. n /\ nextId \in Nat /\ MaxCommands \in Nat
  <2>1. f.cmds \in Seq(CommandKinds)
    BY PipelineAssumption
  <2>2. QED
    BY <2>1, LenProperties, QueueTypes, PipelineAssumption
<1>2. /\ DOMAIN g.cmds = 1 .. n
      /\ \A k \in 1 .. n : g.cmds[k].id = nextId + k - 1
  BY <1>1 DEF Numbered
<1>3. g \in Frames \cup {Partial}
  BY <1>0, TypesNext
<1>4. Len(g.cmds) = n
  BY <1>1, <1>2, <1>3, FrameCommands, LenProperties
<1>5. \A k \in 1 .. n : CommandIds[g.cmds[k]] = {nextId + k - 1}
  <2>1. \A k \in 1 .. n : g.cmds[k] \in Commands
    BY <1>3, <1>4, FrameCommands, ElementOfSeq
  <2>2. QED
    BY <1>2, <2>1 DEF CommandIds
<1> HIDE DEF n, g
<1>6. M = IdsIn(CommandIds, g.cmds)
  BY <1>3 DEF FrameIds
<1>7. M \subseteq nextId .. MaxCommands /\ Before(M, nextId' .. MaxCommands)
  <2>1. nextId' \in 1 .. MaxCommands + 1
    BY TypesNext
  <2>2. \A a \in M : a \in nextId .. nextId + n - 1
    <3>1. SUFFICES ASSUME NEW a \in M
                   PROVE  a \in nextId .. nextId + n - 1
      OBVIOUS
    <3>2. PICK k \in 1 .. n : a \in CommandIds[g.cmds[k]]
      BY Zenon, <1>4, <1>6, <3>1 DEF IdsIn
    <3>3. a = nextId + k - 1
      BY Zenon, <1>5, <3>2
    <3>4. QED
      BY <1>1, <3>3
  <2>3. QED
    BY <1>0, <1>1, <2>1, <2>2 DEF Before
<1>8. InOrder(CommandIds, g.cmds)
  <2>1. SUFFICES ASSUME NEW j \in 1 .. n, NEW k \in 1 .. n, j < k
                 PROVE  Before(CommandIds[g.cmds[j]], CommandIds[g.cmds[k]])
    BY <1>4 DEF InOrder
  <2>2. nextId + j - 1 < nextId + k - 1
    BY <1>1, <2>1
  <2>3. QED
    BY <1>5, <2>1, <2>2 DEF Before
<1>9. FramesInOrder'
  BY <1>0, <1>8, Fixed DEF Flow, FramesInOrder
<1>10. Ordered(Places')
  <2>1. Arriving' = M
    BY <1>0, Fixed DEF Arriving
  <2>2. Answering' = Answering
    BY <1>0, Kept
  <2>3. \A k \in {1, 2, 3, 4, 5, 6, 7, 8, 9} : k # 8 => Places'[k] \subseteq Places[k]
    <3>1. nextId' .. MaxCommands \subseteq nextId .. MaxCommands
      BY <1>0, <1>1
    <3>2. QED
      BY <1>0, <2>2, <3>1, PlacesAre
  <2>4. Places'[8] \subseteq Places[8] \cup M /\ M \subseteq Places[9] /\ Before(M, Places'[9])
    BY <1>7, <2>1, PlacesAre
  <2>5. QED
    BY <2>3, <2>4, StepMoves DEF Flow
<1>11. QED
  BY <1>0, <1>9, <1>10, Kept DEF Flow, Whole

-----------------------------------------------------------------------------
(* Frames on their way to the decoder. *)

\* A place that nothing touches.
LEMMA PlacesKept ==
  /\ UNCHANGED downlinked => Places'[1] = Places[1]
  /\ UNCHANGED transmitQueue => Places'[2] = Places[2]
  /\ UNCHANGED outbox => Places'[3] = Places[3]
  /\ UNCHANGED <<cmdResBuffer, encodeQueue, writing>> => Places'[4] = Places[4]
  /\ UNCHANGED commandQueue => Places'[5] = Places[5]
  /\ UNCHANGED todo => Places'[6] = Places[6]
  /\ UNCHANGED decodeQueue => Places'[7] = Places[7]
  /\ UNCHANGED <<cm, rx>> => Places'[8] = Places[8]
  /\ UNCHANGED nextId => Places'[9] = Places[9]
BY Kept, PlacesAre

\* Two places in order.
LEMMA Apart ==
  ASSUME Ordered(Places), NEW i \in 1 .. 9, NEW j \in 1 .. 9, i < j
  PROVE  Before(Places[i], Places[j])
BY DEF Ordered

\* The part of a frame without its end is about nothing.
LEMMA PartialIds == Partial \in Frames \cup {Partial} /\ FrameIds[Partial] = {}
                    /\ InOrder(CommandIds, Partial.cmds)
<1>1. FrameIds[Partial] = IdsIn(CommandIds, Partial.cmds) /\ Partial.cmds = <<>>
  BY DEF FrameIds, Partial
<1>2. QED
  BY <1>1, OrderEmpty

\* The last chunk of a frame takes its commands to the decode queue, any other none.
LEMMA PushChunkFlow ==
  ASSUME IInv, IInv', Flow, PushChunk
  PROVE  Flow'
<1> DEFINE f == IF rx.left = 1 THEN rx.frame ELSE Partial
<1>0. /\ UNCHANGED <<downlinked, transmitQueue, outbox, commandQueue, todo,
                     cmdResBuffer, encodeQueue, writing, nextId>>
      /\ decodeQueue' = Append(decodeQueue, f) /\ rx'.frame = rx.frame
      /\ cm = "push" /\ (cm' = "push" => rx.left # 1)
  <2>1. rx'.frame = rx.frame
    <3>1. rx \in [frame : Frames \cup {Partial}, left : 0 .. FrameChunks]
      BY DEF IInv, TypeManager
    <3>2. QED
      BY <3>1 DEF PushChunk
  <2>2. cm = "push" /\ (cm' = "push" => rx.left # 1)
    BY DEF PushChunk
  <2>3. QED
    BY <2>1, <2>2 DEF PushChunk, sources, encoder, ground
<1>1. /\ decodeQueue \in Seq(Frames \cup {Partial}) /\ f \in Frames \cup {Partial}
      /\ FrameIds \in [Frames \cup {Partial} -> SUBSET Ids]
  BY <1>0, QueueTypes, IdsTyped, PartialIds
<1>2. InOrder(CommandIds, f.cmds) /\ FrameIds[f] \subseteq Places[8]
  BY <1>0, PartialIds, PlacesAre DEF Flow, FramesInOrder, Arriving
<1>3. Before(IdsIn(FrameIds, decodeQueue), FrameIds[f])
  BY <1>2, Apart, PlacesAre DEF Flow, Before
<1> HIDE DEF f
<1>4. /\ InOrder(FrameIds, decodeQueue')
      /\ IdsIn(FrameIds, decodeQueue') = Places[7] \cup FrameIds[f]
  BY <1>0, <1>1, <1>3, OrderAppend, PlacesAre DEF Flow, FramesInOrder
<1>5. FramesInOrder'
  <2>1. /\ Len(decodeQueue) \in Nat /\ Len(decodeQueue') = Len(decodeQueue) + 1
        /\ decodeQueue'[Len(decodeQueue) + 1] = f
        /\ \A k \in 1 .. Len(decodeQueue) : decodeQueue'[k] = decodeQueue[k]
    BY <1>0, <1>1, AppendProperties, LenProperties
  <2>2. ASSUME NEW k \in 1 .. Len(decodeQueue')
        PROVE  InOrder(CommandIds, decodeQueue'[k].cmds)
    <3>1. CASE k \in 1 .. Len(decodeQueue)
      BY <2>1, <3>1 DEF Flow, FramesInOrder
    <3>2. CASE k = Len(decodeQueue) + 1
      BY <1>2, <2>1, <3>2
    <3>3. QED
      BY <2>1, <3>1, <3>2
  <2>3. QED
    BY <1>0, <1>4, <2>2, Fixed DEF Flow, FramesInOrder
<1>6. /\ Places'[7] = Places[7] \cup FrameIds[f] /\ Places'[8] = Arriving'
      /\ \A k \in {1, 2, 3, 4, 5, 6, 9} : Places'[k] = Places[k]
  BY <1>0, <1>4, PlacesKept, PlacesAre
<1>7. Ordered(Places')
  <2>1. CASE rx.left = 1
    <3>1. Places'[8] = {}
      BY <1>0, <1>6, <2>1 DEF Arriving
    <3>2. \A k \in {1, 2, 3, 4, 5, 6, 7, 8, 9} : k # 7 => Places'[k] \subseteq Places[k]
      BY <1>6, <3>1
    <3>3. Before(FrameIds[f], Places'[8])
      BY <3>1 DEF Before
    <3>4. QED
      BY <1>2, <1>6, <3>2, <3>3, StepMoves DEF Flow
  <2>2. CASE rx.left # 1
    <3>1. FrameIds[f] = {}
      BY <2>2, PartialIds DEF f
    <3>2. Arriving' \subseteq Arriving
      BY <1>0, Fixed DEF Arriving
    <3>3. \A k \in {1, 2, 3, 4, 5, 6, 7, 8, 9} : Places'[k] \subseteq Places[k]
      BY <1>6, <3>1, <3>2, PlacesAre
    <3>4. QED
      BY <3>3, StepDrops DEF Flow
  <2>3. QED
    BY <2>1, <2>2
<1>8. QED
  BY <1>0, <1>5, <1>7, Kept DEF Flow, Whole

\* A step that takes a frame from the decode queue leaves the rest in order.
LEMMA FrameTaken ==
  ASSUME IInv, Flow, decodeQueue # <<>>, decodeQueue' = Tail(decodeQueue), UNCHANGED rx
  PROVE  /\ FramesInOrder'
         /\ Head(decodeQueue) \in Frames \cup {Partial}
         /\ InOrder(CommandIds, Head(decodeQueue).cmds)
         /\ IdsIn(CommandIds, Head(decodeQueue).cmds) = FrameIds[Head(decodeQueue)]
         /\ Places'[7] \subseteq Places[7]
         /\ FrameIds[Head(decodeQueue)] \subseteq Places[7]
         /\ Before(FrameIds[Head(decodeQueue)], Places'[7])
<1>1. /\ decodeQueue \in Seq(Frames \cup {Partial})
      /\ FrameIds \in [Frames \cup {Partial} -> SUBSET Ids]
      /\ InOrder(FrameIds, decodeQueue)
  BY QueueTypes, IdsTyped DEF Flow, FramesInOrder
<1>2. /\ Len(decodeQueue) \in Nat \ {0} /\ Head(decodeQueue) = decodeQueue[1]
      /\ Head(decodeQueue) \in Frames \cup {Partial}
      /\ Len(decodeQueue') = Len(decodeQueue) - 1
      /\ \A k \in 1 .. Len(decodeQueue') : decodeQueue'[k] = decodeQueue[k + 1]
  BY <1>1, Rest
<1>3. /\ InOrder(FrameIds, decodeQueue')
      /\ IdsIn(FrameIds, decodeQueue') \subseteq IdsIn(FrameIds, decodeQueue)
      /\ FrameIds[Head(decodeQueue)] \subseteq IdsIn(FrameIds, decodeQueue)
      /\ Before(FrameIds[Head(decodeQueue)], IdsIn(FrameIds, decodeQueue'))
  BY <1>1, OrderTail
<1>4. \A k \in 1 .. Len(decodeQueue) : InOrder(CommandIds, decodeQueue[k].cmds)
  BY DEF Flow, FramesInOrder
<1>5. \A k \in 1 .. Len(decodeQueue') : InOrder(CommandIds, decodeQueue'[k].cmds)
  <2>1. \A k \in 1 .. Len(decodeQueue') : k + 1 \in 1 .. Len(decodeQueue)
    BY <1>2
  <2>2. QED
    BY <1>2, <1>4, <2>1
<1>6. InOrder(CommandIds, Head(decodeQueue).cmds)
  BY <1>2, <1>4
<1>7. FramesInOrder'
  BY <1>3, <1>5, Fixed DEF Flow, FramesInOrder
<1>8. IdsIn(CommandIds, Head(decodeQueue).cmds) = FrameIds[Head(decodeQueue)]
  BY <1>2 DEF FrameIds
<1>9. QED
  BY <1>2, <1>3, <1>6, <1>7, <1>8, PlacesAre

\* A frame that is not decoded is dropped with its commands.
LEMMA DecodeNothingFlow ==
  ASSUME IInv, IInv', Flow, DecodeNothing
  PROVE  Flow'
<1>0. /\ UNCHANGED <<downlinked, transmitQueue, outbox, commandQueue, todo, cm, rx,
                     cmdResBuffer, encodeQueue, writing, nextId>>
      /\ decodeQueue # <<>> /\ decodeQueue' = Tail(decodeQueue)
  BY DEF DecodeNothing, manager, sources, encoder, ground
<1>1. FramesInOrder' /\ Places'[7] \subseteq Places[7]
  BY <1>0, FrameTaken
<1>2. \A k \in {1, 2, 3, 4, 5, 6, 7, 8, 9} : Places'[k] \subseteq Places[k]
  BY <1>0, <1>1, PlacesKept
<1>3. Ordered(Places')
  BY <1>2, StepDrops DEF Flow
<1>4. QED
  BY <1>0, <1>1, <1>3, Kept DEF Flow, Whole

\* A frame is decoded: its commands, or none, are to be passed on.
LEMMA DecodeFlow ==
  ASSUME IInv, IInv', Flow, DecodeCommands \/ DecodeUFrame
  PROVE  Flow'
<1> DEFINE f == Head(decodeQueue)
<1>0. /\ UNCHANGED <<downlinked, transmitQueue, outbox, commandQueue, cm, rx,
                     cmdResBuffer, encodeQueue, writing, nextId>>
      /\ todo = <<>> /\ decodeQueue # <<>> /\ decodeQueue' = Tail(decodeQueue)
      /\ todo' = f.cmds \/ todo' = <<>>
  <2>1. CASE DecodeCommands
    BY <2>1 DEF DecodeCommands, manager, sources, encoder, ground
  <2>2. CASE DecodeUFrame
    <3>1. todo' = f.cmds \/ todo' = <<>>
      BY <2>2 DEF DecodeUFrame
    <3>2. QED
      BY <2>2, <3>1 DEF DecodeUFrame, manager, sources, encoder, ground
  <2>3. QED
    BY <2>1, <2>2
<1>1. /\ FramesInOrder' /\ f \in Frames \cup {Partial}
      /\ InOrder(CommandIds, f.cmds) /\ IdsIn(CommandIds, f.cmds) = FrameIds[f]
      /\ Places'[7] \subseteq Places[7] /\ FrameIds[f] \subseteq Places[7]
      /\ Before(FrameIds[f], Places'[7])
  BY <1>0, FrameTaken
<1> HIDE DEF f
<1>2. InOrder(CommandIds, todo') /\ IdsIn(CommandIds, todo') \subseteq FrameIds[f]
  BY <1>0, <1>1, OrderEmpty
<1>3. CommandsInOrder'
  BY <1>0, <1>2, Fixed DEF Flow, CommandsInOrder
<1>4. \A k \in {1, 2, 3, 4, 5, 6, 7, 8, 9} : k # 6 => Places'[k] \subseteq Places[k]
  BY <1>0, <1>1, PlacesKept
<1>5. Places'[6] \subseteq Places[6] \cup FrameIds[f]
  BY <1>2, PlacesAre
<1>6. Ordered(Places')
  BY <1>1, <1>4, <1>5, StepMoves DEF Flow
<1>7. QED
  BY <1>0, <1>1, <1>3, <1>6, Kept DEF Flow, Whole

\* A command is passed on after those of its frame before it.
LEMMA PassCommandFlow ==
  ASSUME IInv, IInv', Flow, PassCommand
  PROVE  Flow'
<1> DEFINE c == Head(todo)
<1>0. /\ UNCHANGED <<downlinked, transmitQueue, outbox, decodeQueue, cm, rx,
                     cmdResBuffer, encodeQueue, writing, nextId>>
      /\ todo # <<>> /\ todo' = Tail(todo) /\ commandQueue' = Append(commandQueue, c)
  BY DEF PassCommand, manager, sources, encoder, ground
<1>1. /\ todo \in Seq(Commands) /\ commandQueue \in Seq(Commands)
      /\ CommandIds \in [Commands -> SUBSET Ids] /\ c \in Commands
      /\ InOrder(CommandIds, todo) /\ InOrder(CommandIds, commandQueue)
  BY <1>0, QueueTypes, IdsTyped, Rest DEF Flow, CommandsInOrder
<1>2. /\ InOrder(CommandIds, todo') /\ IdsIn(CommandIds, todo') \subseteq IdsIn(CommandIds, todo)
      /\ CommandIds[c] \subseteq IdsIn(CommandIds, todo)
      /\ Before(CommandIds[c], IdsIn(CommandIds, todo'))
  BY <1>0, <1>1, OrderTail
<1>3. Before(IdsIn(CommandIds, commandQueue), CommandIds[c])
  BY <1>2, Apart, PlacesAre DEF Flow, Before
<1> HIDE DEF c
<1>4. /\ InOrder(CommandIds, commandQueue')
      /\ IdsIn(CommandIds, commandQueue') = IdsIn(CommandIds, commandQueue) \cup CommandIds[c]
  BY <1>0, <1>1, <1>3, OrderAppend
<1>5. CommandsInOrder'
  BY <1>2, <1>4, Fixed DEF CommandsInOrder
<1>6. /\ Places'[5] \subseteq Places[5] \cup CommandIds[c]
      /\ CommandIds[c] \subseteq Places[6] /\ Before(CommandIds[c], Places'[6])
      /\ Places'[6] \subseteq Places[6]
  BY <1>2, <1>4, PlacesAre
<1>7. \A k \in {1, 2, 3, 4, 5, 6, 7, 8, 9} : k # 5 => Places'[k] \subseteq Places[k]
  BY <1>0, <1>6, PlacesKept
<1>8. Ordered(Places')
  BY <1>6, <1>7, StepMoves DEF Flow
<1>9. QED
  BY <1>0, <1>5, <1>8, Kept DEF Flow, Whole

-----------------------------------------------------------------------------
(* Commands on their way to be executed, and their answers. *)

\* A handler's event concerns no command.
LEMMA EventFlow ==
  ASSUME IInv, IInv', Flow, PostCompletion \/ HandleEvent
  PROVE  Flow'
<1>0. /\ UNCHANGED <<downlinked, transmitQueue, outbox, commandQueue, todo, decodeQueue, rx,
                     cmdResBuffer, encodeQueue, writing, nextId>>
      /\ cm # "push" /\ cm' # "push"
  <2>1. CASE PostCompletion
    BY <2>1 DEF PostCompletion, uplink, sources, encoder, ground
  <2>2. CASE HandleEvent
    <3>1. cm' # "push"
      BY <2>2 DEF HandleEvent, Entry
    <3>2. QED
      BY <2>2, <3>1 DEF HandleEvent, uplink, sources, encoder, ground
  <2>3. QED
    BY <2>1, <2>2
<1>1. Arriving' = Arriving
  BY <1>0 DEF Arriving
<1>2. \A k \in {1, 2, 3, 4, 5, 6, 7, 8, 9} : Places'[k] \subseteq Places[k]
  BY <1>0, <1>1, PlacesKept, PlacesAre
<1>3. Ordered(Places')
  BY <1>2, StepDrops DEF Flow
<1>4. QED
  BY <1>0, <1>3, Kept DEF Flow, Whole

\* A telemetry file concerns none either.
LEMMA TakeDownlinkReadyFlow ==
  ASSUME IInv, IInv', Flow, TakeDownlinkReady
  PROVE  Flow'
<1>0. /\ UNCHANGED <<downlinked, transmitQueue, outbox, commandQueue, todo, decodeQueue, cm, rx,
                     cmdResBuffer, encodeQueue, nextId>>
      /\ writing' = [writing EXCEPT !["telemetry"] = <<TelemFile>>]
  BY DEF TakeDownlinkReady, manager, uplink, encoder, ground
<1>1. writing \in [Producers -> Seq(EncodeEvents)]
  BY QueueTypes
<1>2. /\ writing'["command"] = writing["command"] /\ writing'["alarm"] = writing["alarm"]
      /\ writing'["telemetry"] = <<TelemFile>>
  BY <1>0, <1>1 DEF Producers
<1>3. \A k \in 1 .. Len(<<TelemFile>>) : <<TelemFile>>[k] = TelemFile
  OBVIOUS
<1>4. Streaming' /\ Answering' = Answering
  BY <1>0, <1>2, <1>3 DEF Flow, Streaming, Answering
<1>5. \A k \in {1, 2, 3, 4, 5, 6, 7, 8, 9} : Places'[k] \subseteq Places[k]
  BY <1>0, <1>4, PlacesKept, PlacesAre
<1>6. Ordered(Places')
  BY <1>5, StepDrops DEF Flow
<1>7. QED
  BY <1>0, <1>4, <1>6, Kept DEF Flow, Whole

\* A command that is executed and answered goes to the end of the stream; one that is
\* refused, or becomes an alarm, is dropped from it.
LEMMA ExecuteCommandFlow ==
  ASSUME IInv, IInv', Flow, ExecuteCommand
  PROVE  Flow'
<1> DEFINE c == Head(commandQueue)
<1>0. /\ UNCHANGED <<downlinked, transmitQueue, outbox, todo, decodeQueue, cm, rx,
                     cmdResBuffer, encodeQueue, nextId>>
      /\ writing["command"] = <<>>
      /\ commandQueue # <<>> /\ commandQueue' = Tail(commandQueue)
  BY DEF ExecuteCommand, manager, encoder, ground
<1>1. /\ commandQueue \in Seq(Commands) /\ c \in Commands /\ c.id \in Ids
      /\ CommandIds \in [Commands -> SUBSET Ids] /\ CommandIds[c] = {c.id}
      /\ writing \in [Producers -> Seq(EncodeEvents)] /\ writing["command"] \in Seq(EncodeEvents)
      /\ cmdResBuffer \in Seq(Ids) /\ encodeQueue \in Seq(EncodeEvents)
  BY <1>0, QueueTypes, IdsTyped, Rest DEF Commands, CommandIds, Producers
<1>2. /\ InOrder(CommandIds, commandQueue')
      /\ IdsIn(CommandIds, commandQueue') \subseteq IdsIn(CommandIds, commandQueue)
      /\ {c.id} \subseteq IdsIn(CommandIds, commandQueue)
      /\ Before({c.id}, IdsIn(CommandIds, commandQueue'))
  <2>1. InOrder(CommandIds, commandQueue)
    BY DEF Flow, CommandsInOrder
  <2>2. /\ InOrder(CommandIds, commandQueue')
        /\ IdsIn(CommandIds, commandQueue') \subseteq IdsIn(CommandIds, commandQueue)
        /\ CommandIds[c] \subseteq IdsIn(CommandIds, commandQueue)
        /\ Before(CommandIds[c], IdsIn(CommandIds, commandQueue'))
    BY <1>0, <1>1, <2>1, OrderTail
  <2> HIDE DEF c
  <2>3. QED
    BY <1>1, <2>2
<1>3. CommandsInOrder'
  BY <1>0, <1>2, Fixed DEF Flow, CommandsInOrder
<1>4. \A k \in {1, 2, 3, 4, 5, 6, 7, 8, 9} : k # 4 => Places'[k] \subseteq Places[k]
  BY <1>0, <1>2, PlacesKept, PlacesAre
<1>5. CASE UNCHANGED writing
  <2>1. \A k \in {1, 2, 3, 4, 5, 6, 7, 8, 9} : Places'[k] \subseteq Places[k]
    BY <1>0, <1>4, <1>5, PlacesKept
  <2>2. Ordered(Places')
    BY <2>1, StepDrops DEF Flow
  <2>3. QED
    BY <1>0, <1>3, <1>5, <2>2, Kept DEF Flow, Whole
<1>6. CASE writing' = [writing EXCEPT !["command"] = ResponseBytes(c.id)]
  <2> HIDE DEF c
  <2>1. /\ writing'["command"] = ResponseBytes(c.id) /\ writing'["alarm"] = writing["alarm"]
        /\ writing'["telemetry"] = writing["telemetry"]
    BY <1>1, <1>6 DEF Producers
  <2>2. Before(Answering, {c.id})
    BY <1>2, Apart, PlacesAre DEF Flow, Before
  <2>3. Stream(cmdResBuffer, encodeQueue, ResponseBytes(c.id))
    <3>1. Len(writing["command"]) = 0
      BY <1>0, EmptyQueue
    <3>2. Stream(cmdResBuffer, encodeQueue, writing["command"])
      BY DEF Flow, Streaming
    <3>3. Before(Answered(cmdResBuffer, encodeQueue, writing["command"]), {c.id})
      BY <2>2 DEF Answering
    <3>4. QED
      BY <1>1, <3>1, <3>2, <3>3, StreamAnswer
  <2>4. Streaming'
    BY <1>0, <2>1, <2>3 DEF Flow, Streaming
  <2>5. Answering' \subseteq Answering \cup {c.id}
    BY <1>0, <1>1, <2>1, AnsweredAnswer DEF Answering
  <2>6. /\ Places'[4] \subseteq Places[4] \cup {c.id} /\ {c.id} \subseteq Places[5]
        /\ Before({c.id}, Places'[5])
    BY <1>2, <2>5, PlacesAre
  <2>7. Ordered(Places')
    BY <1>4, <2>6, StepMoves DEF Flow
  <2>8. QED
    BY <1>0, <1>3, <2>4, <2>7, Kept DEF Flow, Whole
<1>7. QED
  BY <1>5, <1>6 DEF ExecuteCommand

\* Bytes are written to the encode queue in the order of the stream.
LEMMA WriteEncodeQueueFlow ==
  ASSUME IInv, IInv', Flow, NEW p \in Producers, WriteEncodeQueue(p)
  PROVE  Flow'
<1>0. /\ UNCHANGED <<downlinked, transmitQueue, outbox, commandQueue, todo, decodeQueue, cm, rx,
                     cmdResBuffer, nextId>>
      /\ writing[p] # <<>> /\ encodeQueue' = Append(encodeQueue, Head(writing[p]))
      /\ writing' = [writing EXCEPT ![p] = Tail(@)]
  BY DEF WriteEncodeQueue, manager, uplink, encoder, ground
<1>1. /\ writing \in [Producers -> Seq(EncodeEvents)] /\ writing["command"] \in Seq(EncodeEvents)
      /\ writing["telemetry"] \in Seq(EncodeEvents)
      /\ cmdResBuffer \in Seq(Ids) /\ encodeQueue \in Seq(EncodeEvents)
  BY QueueTypes DEF Producers
<1>2. Streaming
  BY DEF Flow
<1>3. Streaming' /\ Answering' \subseteq Answering
  <2>1. CASE p = "command"
    <3>1. /\ writing["command"] # <<>> /\ encodeQueue' = Append(encodeQueue, Head(writing["command"]))
          /\ writing'["command"] = Tail(writing["command"])
          /\ writing'["alarm"] = writing["alarm"] /\ writing'["telemetry"] = writing["telemetry"]
      BY <1>0, <1>1, <2>1 DEF Producers
    <3>2. Stream(cmdResBuffer, encodeQueue', writing'["command"])
      BY <1>1, <1>2, <3>1, StreamWrite DEF Streaming
    <3>3. Answered(cmdResBuffer, encodeQueue', writing'["command"]) \subseteq Answering
      BY <1>1, <3>1, AnsweredWrite DEF Answering
    <3>4. Streaming'
      BY <1>0, <1>2, <3>1, <3>2 DEF Streaming
    <3>5. Answering' = Answered(cmdResBuffer, encodeQueue', writing'["command"])
      BY <1>0, Fixed DEF Answering, Answered
    <3>6. QED
      BY <3>3, <3>4, <3>5
  <2>2. CASE p = "telemetry"
    <3>1. /\ writing["telemetry"] # <<>>
          /\ encodeQueue' = Append(encodeQueue, Head(writing["telemetry"]))
          /\ writing'["telemetry"] = Tail(writing["telemetry"])
          /\ writing'["alarm"] = writing["alarm"] /\ writing'["command"] = writing["command"]
      BY <1>0, <1>1, <2>2 DEF Producers
    <3> DEFINE w == writing["telemetry"]
               v == Tail(w)
    <3>2. /\ Len(w) \in Nat \ {0} /\ Head(w) = w[1] /\ Len(v) = Len(w) - 1
          /\ \A k \in 1 .. Len(v) : v[k] = w[k + 1]
      BY <1>1, <3>1, Rest
    <3>3. \A k \in 1 .. Len(w) : w[k] = TelemFile
      BY <1>2 DEF Streaming
    <3>4. writing'["telemetry"] = v /\ encodeQueue' = Append(encodeQueue, Head(w))
      BY <3>1
    <3> HIDE DEF w, v
    <3>5. Head(w) = TelemFile /\ \A k \in 1 .. Len(v) : v[k] = TelemFile
      BY <3>2, <3>3
    <3>6. encodeQueue' = Append(encodeQueue, TelemFile)
      BY <3>4, <3>5
    <3>7. Stream(cmdResBuffer, encodeQueue', writing["command"])
      BY <1>1, <1>2, <3>6, StreamFile DEF Streaming
    <3>8. Answered(cmdResBuffer, encodeQueue', writing["command"]) \subseteq Answering
      BY <1>1, <3>6, AnsweredFile DEF Answering
    <3>9. Streaming'
      BY <1>0, <1>2, <3>1, <3>4, <3>5, <3>7 DEF Streaming
    <3>10. Answering' = Answered(cmdResBuffer, encodeQueue', writing["command"])
      BY <1>0, <3>1, Fixed DEF Answering, Answered
    <3>11. QED
      BY <3>8, <3>9, <3>10
  <2>3. p # "alarm"
    BY <1>0, <1>2 DEF Streaming
  <2>4. QED
    BY <2>1, <2>2, <2>3 DEF Producers
<1>4. \A k \in {1, 2, 3, 4, 5, 6, 7, 8, 9} : Places'[k] \subseteq Places[k]
  BY <1>0, <1>3, PlacesKept, PlacesAre
<1>5. Ordered(Places')
  BY <1>4, StepDrops DEF Flow
<1>6. QED
  BY <1>0, <1>3, <1>5, Kept DEF Flow, Whole

-----------------------------------------------------------------------------
(* Packets on their way to the ground. *)

\* What a packet is about, and that an end is about nothing.
LEMMA PacketIdsAre ==
  /\ \A p \in TransmitEvents : p.data \in Seq(Ids) /\ PacketIds[p] = AnswerIds[p.data]
  /\ End \in TransmitEvents /\ PacketIds[End] = {}
  /\ \A d \in Seq(Ids) : Packet(d) \in TransmitEvents /\ PacketIds[Packet(d)] = AnswerIds[d]
<1>1. \A p \in TransmitEvents : p.data \in Seq(Ids) /\ PacketIds[p] = AnswerIds[p.data]
  BY DEF TransmitEvents, PacketIds
<1>2. End \in TransmitEvents /\ End.data = <<>>
  <2>1. End \in TransmitEvents
    BY PacketType, EmptyQueue
  <2>2. QED
    BY <2>1 DEF End
<1>3. AnswerIds[<<>>] = {}
  BY EmptyQueue DEF AnswerIds
<1>4. PacketIds[End] = {}
  BY <1>1, <1>2, <1>3
<1>5. \A d \in Seq(Ids) : Packet(d) \in TransmitEvents /\ Packet(d).data = d
  BY PacketType DEF Packet
<1>6. QED
  BY <1>1, <1>2, <1>4, <1>5

\* A full buffer of one command's response becomes packets of that command.
LEMMA ResponsePackets ==
  ASSUME NEW d \in Seq(Ids), NEW x \in Ids, \A k \in 1 .. Len(d) : d[k] = x
  PROVE  /\ InOrder(PacketIds, <<Packet(d), End>>)
         /\ IdsIn(PacketIds, <<Packet(d), End>>) \subseteq {x}
         /\ Whole(<<Packet(d), End>>)
<1> DEFINE p == Packet(d)
           q == <<p, End>>
<1>1. PacketIds[p] = AnswerIds[d] /\ PacketIds[End] = {} /\ p.data = d /\ End.data = <<>>
  BY PacketIdsAre DEF Packet, End
<1>2. PacketIds[p] \subseteq {x}
  BY <1>1 DEF AnswerIds
<1>3. Len(d) \in Nat /\ Len(<<>>) = 0
  BY LenProperties, EmptyQueue
<1> HIDE DEF p
<1>4. Len(q) = 2 /\ q[1] = p /\ q[2] = End
  OBVIOUS
<1> HIDE DEF q
<1>5. \A k \in 1 .. Len(q) : k = 1 \/ k = 2
  BY <1>4
<1>6. InOrder(PacketIds, q)
  <2>1. \A j, k \in 1 .. Len(q) : j < k => PacketIds[q[k]] = {}
    BY <1>1, <1>4, <1>5
  <2>2. QED
    BY <2>1 DEF InOrder, Before
<1>7. IdsIn(PacketIds, q) \subseteq {x}
  BY <1>1, <1>2, <1>4, <1>5 DEF IdsIn
<1>8. Whole(q)
  <2>1. ASSUME NEW k \in 1 .. Len(q), NEW j \in 1 .. Len(q[k].data)
        PROVE  q[k].data[j] = q[k].data[1]
    <3>1. q[k].data = d
      <4>1. CASE k = 1
        BY <1>1, <1>4, <4>1
      <4>2. CASE k = 2
        <5>1. Len(q[k].data) = 0
          BY <1>1, <1>3, <1>4, <4>2
        <5>2. QED
          BY <2>1, <5>1
      <4>3. QED
        BY <1>5, <4>1, <4>2
    <3>2. j \in 1 .. Len(d) /\ 1 \in 1 .. Len(d)
      BY <1>3, <2>1, <3>1
    <3>3. QED
      BY <3>1, <3>2
  <2>2. QED
    BY <2>1 DEF Whole
<1>9. QED
  BY <1>6, <1>7, <1>8 DEF p, q

\* The packets of a file are about no command.
LEMMA FilePackets ==
  ASSUME NEW q, NEW n \in Nat, q = [k \in 1 .. n + 1 |-> IF k <= n THEN Packet(<<>>) ELSE End]
  PROVE  InOrder(PacketIds, q) /\ IdsIn(PacketIds, q) = {} /\ Whole(q)
<1>1. AnswerIds[<<>>] = {} /\ Len(<<>>) = 0 /\ <<>> \in Seq(Ids)
  BY EmptyQueue DEF AnswerIds
<1>2. /\ Packet(<<>>) \in TransmitEvents /\ End \in TransmitEvents
      /\ PacketIds[Packet(<<>>)] = {} /\ PacketIds[End] = {}
      /\ Packet(<<>>).data = <<>> /\ End.data = <<>>
  BY <1>1, PacketIdsAre DEF Packet, End
<1>3. q \in [1 .. n + 1 -> TransmitEvents] /\ n + 1 \in Nat
  BY <1>2
<1>4. Len(q) = n + 1
  BY <1>3, Listed
<1>5. \A k \in 1 .. Len(q) : PacketIds[q[k]] = {} /\ q[k].data = <<>>
  BY <1>2, <1>4
<1>6. InOrder(PacketIds, q) /\ IdsIn(PacketIds, q) = {}
  <2>1. InOrder(PacketIds, q)
    BY <1>5 DEF InOrder, Before
  <2>2. \A e \in IdsIn(PacketIds, q) : FALSE
    BY <1>5 DEF IdsIn
  <2>3. QED
    BY <2>1, <2>2
<1>7. Whole(q)
  BY <1>1, <1>5 DEF Whole
<1>8. QED
  BY <1>6, <1>7

\* The encoder collects a byte, or sends off what is one whole response.
LEMMA EncodeResponseFlow ==
  ASSUME IInv, IInv', Flow, EncodeResponse
  PROVE  Flow'
<1> DEFINE bytes == Append(cmdResBuffer, Head(encodeQueue).id)
           rest  == writing["command"]
<1>0. /\ UNCHANGED <<downlinked, transmitQueue, commandQueue, todo, decodeQueue, cm, rx, writing,
                     nextId>>
      /\ outbox = <<>> /\ encodeQueue # <<>> /\ encodeQueue' = Tail(encodeQueue)
  BY DEF EncodeResponse, manager, uplink, sources, ground
<1>1. /\ cmdResBuffer \in Seq(Ids) /\ encodeQueue \in Seq(EncodeEvents)
      /\ rest \in Seq(EncodeEvents) /\ Len(cmdResBuffer) < ResponseChunks
      /\ Head(encodeQueue) \in EncodeEvents /\ Len(cmdResBuffer) \in Nat /\ ResponseChunks \in Nat
  BY <1>0, QueueTypes, Rest, LenProperties, PipelineAssumption DEF Producers
<1>2. PICK x \in Ids : Head(encodeQueue) = Response(x)
  BY <1>1 DEF EncodeResponse, EncodeEvents, TelemFile
<1>3. bytes = Append(cmdResBuffer, x)
  BY <1>2 DEF Response
<1>4. /\ Len(bytes) = Len(cmdResBuffer) + 1 /\ bytes \in Seq(Ids) /\ bytes[Len(cmdResBuffer) + 1] = x
      /\ \A k \in 1 .. Len(cmdResBuffer) : bytes[k] = cmdResBuffer[k]
  BY <1>1, <1>3, AppendProperties
<1>5. Stream(cmdResBuffer, encodeQueue, rest) /\ Streaming
  BY DEF Flow, Streaming
<1>6. Answered(cmdResBuffer', encodeQueue', rest') = Answering' /\ rest' = rest
  BY <1>0 DEF Answering
<1>7. CASE ~Filled(bytes)
  <2>1. cmdResBuffer' = bytes /\ UNCHANGED outbox
    BY <1>7 DEF EncodeResponse
  <2> HIDE DEF bytes, rest
  <2>2. Stream(cmdResBuffer', encodeQueue', rest)
    BY <1>0, <1>1, <1>2, <1>3, <1>5, <2>1, StreamCollect
  <2>3. Streaming'
    BY <1>0, <1>5, <2>2 DEF Streaming, rest
  <2>4. Answering' \subseteq Answering
    <3>1. Answered(Append(cmdResBuffer, x), Tail(encodeQueue), rest)
            \subseteq Answered(cmdResBuffer, encodeQueue, rest)
      BY <1>0, <1>1, <1>2, AnsweredTake
    <3>2. Answering' = Answered(Append(cmdResBuffer, x), Tail(encodeQueue), rest)
      BY <1>0, <1>3, <1>6, <2>1, Fixed DEF Answered
    <3>3. QED
      BY <3>1, <3>2 DEF Answering, rest
  <2>5. \A k \in {1, 2, 3, 4, 5, 6, 7, 8, 9} : Places'[k] \subseteq Places[k]
    BY <1>0, <2>1, <2>4, PlacesKept, PlacesAre
  <2>6. Ordered(Places')
    BY <2>5, StepDrops DEF Flow
  <2>7. QED
    BY <1>0, <2>1, <2>3, <2>6, Kept DEF Flow, Whole
<1>8. CASE Filled(bytes)
  <2>1. cmdResBuffer' = <<>> /\ outbox' = <<Packet(bytes), End>>
    BY <1>8 DEF EncodeResponse, ResponseDownlink
  <2> HIDE DEF bytes, rest
  <2>2. Len(cmdResBuffer) + 1 = ResponseChunks
    BY <1>1, <1>4, <1>8 DEF Filled
  <2>3. cmdResBuffer' \in Seq(Ids) /\ Len(cmdResBuffer') = 0
    BY <2>1, EmptyQueue
  <2>4. /\ Stream(cmdResBuffer', Tail(encodeQueue), rest)
        /\ \A k \in 1 .. Len(cmdResBuffer) : cmdResBuffer[k] = x
        /\ x \in Answered(cmdResBuffer, encodeQueue, rest)
        /\ Before({x}, Answered(cmdResBuffer', Tail(encodeQueue), rest))
    BY <1>0, <1>1, <1>2, <1>5, <2>2, <2>3, StreamFull
  <2>5. Streaming'
    BY <1>0, <1>5, <2>4 DEF Streaming, rest
  <2>6. \A k \in 1 .. Len(bytes) : bytes[k] = x
    BY <1>1, <1>4, <2>4
  <2>7. /\ InOrder(PacketIds, outbox') /\ IdsIn(PacketIds, outbox') \subseteq {x}
        /\ Whole(outbox')
    BY <1>4, <2>1, <2>6, ResponsePackets
  <2>8. DownInOrder'
    BY <1>0, <2>7, Fixed DEF Flow, DownInOrder
  <2>9. Answered(cmdResBuffer', Tail(encodeQueue), rest) = Answering'
    BY <1>0, <1>6, Fixed DEF Answered
  <2>10. Answering' \subseteq Answering
    <3>1. Answered(cmdResBuffer, Tail(encodeQueue), rest) \subseteq Answering
      BY <1>0, <1>1, AnsweredTake DEF Answering, rest
    <3>2. \A k \in 1 .. Len(Tail(encodeQueue)) : \A y \in Ids :
            Tail(encodeQueue)[k] = Response(y) => y \in Answering
      BY <1>1, <3>1, AnsweredHas
    <3>3. \A k \in 1 .. Len(rest) : \A y \in Ids : rest[k] = Response(y) => y \in Answering
      BY <1>1, <3>1, AnsweredHas
    <3>4. Answered(cmdResBuffer', Tail(encodeQueue), rest) \subseteq Answering
      <4>1. \A k \in 1 .. Len(cmdResBuffer') : cmdResBuffer'[k] \in Answering
        BY <2>3
      <4>2. QED
        BY <2>3, <3>2, <3>3, <4>1, AnsweredWithin
    <3>5. QED
      BY <2>9, <3>4
  <2>11. \A k \in {1, 2, 3, 4, 5, 6, 7, 8, 9} : k # 3 => Places'[k] \subseteq Places[k]
    BY <1>0, <2>10, PlacesKept, PlacesAre
  <2>12. /\ Places'[3] \subseteq Places[3] \cup {x} /\ {x} \subseteq Places[4]
         /\ Before({x}, Places'[4])
    BY <2>4, <2>7, <2>9, PlacesAre DEF Answering, rest
  <2>13. Ordered(Places')
    BY <2>11, <2>12, StepMoves DEF Flow
  <2>14. Whole(transmitQueue')
    BY <1>0 DEF Flow
  <2>15. QED
    BY <1>0, <2>5, <2>7, <2>8, <2>13, <2>14, Kept DEF Flow
<1>9. QED
  BY <1>7, <1>8

\* A telemetry file leaves the stream as packets about no command.
LEMMA EncodeFileFlow ==
  ASSUME IInv, IInv', Flow, EncodeFile
  PROVE  Flow'
<1> DEFINE rest == writing["command"]
<1>0. /\ UNCHANGED <<downlinked, transmitQueue, commandQueue, todo, decodeQueue, cm, rx, writing,
                     cmdResBuffer, nextId>>
      /\ encodeQueue # <<>> /\ encodeQueue' = Tail(encodeQueue) /\ Head(encodeQueue) = TelemFile
  BY DEF EncodeFile, manager, uplink, sources, ground
<1>1. /\ cmdResBuffer \in Seq(Ids) /\ encodeQueue \in Seq(EncodeEvents)
      /\ rest \in Seq(EncodeEvents)
  BY QueueTypes DEF Producers
<1>2. InOrder(PacketIds, outbox') /\ IdsIn(PacketIds, outbox') = {} /\ Whole(outbox')
  <2>1. PICK n \in 0 .. MaxFilePackets :
          outbox' = [k \in 1 .. n + 1 |-> IF k <= n THEN Packet(<<>>) ELSE End]
    BY DEF EncodeFile
  <2>2. n \in Nat
    BY PipelineAssumption
  <2>3. QED
    BY <2>1, <2>2, FilePackets
<1>3. DownInOrder'
  BY <1>0, <1>2, Fixed DEF Flow, DownInOrder
<1>4. Stream(cmdResBuffer, encodeQueue', rest)
  BY <1>0, <1>1, StreamSkip DEF Flow, Streaming
<1>5. Streaming'
  BY <1>0, <1>4 DEF Flow, Streaming
<1>6. Answering' \subseteq Answering
  <2>1. Answered(cmdResBuffer, Tail(encodeQueue), rest) \subseteq Answering
    BY <1>0, <1>1, AnsweredTake DEF Answering
  <2>2. Answering' = Answered(cmdResBuffer, Tail(encodeQueue), rest)
    BY <1>0, Fixed DEF Answering, Answered
  <2>3. QED
    BY <2>1, <2>2
<1>7. \A k \in {1, 2, 3, 4, 5, 6, 7, 8, 9} : Places'[k] \subseteq Places[k]
  BY <1>0, <1>2, <1>6, PlacesKept, PlacesAre
<1>8. Ordered(Places')
  BY <1>7, StepDrops DEF Flow
<1>9. Whole(transmitQueue')
  BY <1>0 DEF Flow
<1>10. QED
  BY <1>0, <1>2, <1>3, <1>5, <1>8, <1>9, Kept DEF Flow

\* A packet goes into the transmit queue after those before it,
LEMMA SendTransmitFlow ==
  ASSUME IInv, IInv', Flow, SendTransmit
  PROVE  Flow'
<1> DEFINE p == Head(outbox)
<1>0. /\ UNCHANGED <<downlinked, commandQueue, todo, decodeQueue, cm, rx, writing, encodeQueue,
                     cmdResBuffer, nextId>>
      /\ outbox # <<>> /\ outbox' = Tail(outbox) /\ transmitQueue' = Append(transmitQueue, p)
  BY DEF SendTransmit, manager, uplink, sources, ground
<1>1. /\ outbox \in Seq(TransmitEvents) /\ transmitQueue \in Seq(TransmitEvents)
      /\ PacketIds \in [TransmitEvents -> SUBSET Ids]
      /\ InOrder(PacketIds, outbox) /\ InOrder(PacketIds, transmitQueue)
  BY QueueTypes, IdsTyped DEF Flow, DownInOrder
<1>2. /\ Len(outbox) \in Nat \ {0} /\ p = outbox[1] /\ p \in TransmitEvents
      /\ Len(outbox') = Len(outbox) - 1
      /\ \A k \in 1 .. Len(outbox') : outbox'[k] = outbox[k + 1]
  BY <1>0, <1>1, Rest
<1>3. /\ InOrder(PacketIds, outbox')
      /\ IdsIn(PacketIds, outbox') \subseteq IdsIn(PacketIds, outbox)
      /\ PacketIds[p] \subseteq IdsIn(PacketIds, outbox)
      /\ Before(PacketIds[p], IdsIn(PacketIds, outbox'))
  BY <1>0, <1>1, OrderTail
<1>4. Before(IdsIn(PacketIds, transmitQueue), PacketIds[p])
  BY <1>3, Apart, PlacesAre DEF Flow, Before
<1>5. /\ Len(transmitQueue) \in Nat /\ Len(transmitQueue') = Len(transmitQueue) + 1
      /\ transmitQueue'[Len(transmitQueue) + 1] = p
      /\ \A k \in 1 .. Len(transmitQueue) : transmitQueue'[k] = transmitQueue[k]
  BY <1>0, <1>1, <1>2, AppendProperties, LenProperties
<1> HIDE DEF p
<1>6. /\ InOrder(PacketIds, transmitQueue')
      /\ IdsIn(PacketIds, transmitQueue') = IdsIn(PacketIds, transmitQueue) \cup PacketIds[p]
  BY <1>0, <1>1, <1>2, <1>4, OrderAppend
<1>7. DownInOrder'
  BY <1>0, <1>3, <1>6, Fixed DEF Flow, DownInOrder
<1>8. Whole(outbox) /\ Whole(transmitQueue)
  BY DEF Flow
<1>9. Whole(outbox')
  <2>1. \A k \in 1 .. Len(outbox') : k + 1 \in 1 .. Len(outbox)
    BY <1>2
  <2>2. QED
    BY <1>2, <1>8, <2>1 DEF Whole
<1>10. Whole(transmitQueue')
  <2>1. \A k \in 1 .. Len(transmitQueue') :
          \/ k \in 1 .. Len(transmitQueue) /\ transmitQueue'[k] = transmitQueue[k]
          \/ transmitQueue'[k] = outbox[1] /\ 1 \in 1 .. Len(outbox)
    BY <1>2, <1>5
  <2>2. QED
    BY <1>8, <2>1 DEF Whole
<1>11. \A k \in {1, 2, 3, 4, 5, 6, 7, 8, 9} : k # 2 => Places'[k] \subseteq Places[k]
  BY <1>0, <1>3, PlacesKept, PlacesAre
<1>12. /\ Places'[2] \subseteq Places[2] \cup PacketIds[p] /\ PacketIds[p] \subseteq Places[3]
       /\ Before(PacketIds[p], Places'[3])
  BY <1>3, <1>6, PlacesAre
<1>13. Ordered(Places')
  BY <1>11, <1>12, StepMoves DEF Flow
<1>14. QED
  BY <1>0, <1>7, <1>9, <1>10, <1>13, Kept DEF Flow

\* and from there to the ground.
LEMMA DownlinkFlow ==
  ASSUME IInv, IInv', Flow, Downlink
  PROVE  Flow'
<1> DEFINE p == Head(transmitQueue)
<1>0. /\ UNCHANGED <<outbox, commandQueue, todo, decodeQueue, rx, writing, encodeQueue,
                     cmdResBuffer, nextId>>
      /\ cm # "push" /\ cm' # "push"
      /\ transmitQueue # <<>> /\ transmitQueue' = Tail(transmitQueue)
      /\ UNCHANGED downlinked \/ downlinked' = Append(downlinked, p.data)
  <2>1. cm # "push" /\ cm' # "push"
    BY DEF Downlink
  <2>2. QED
    BY <2>1 DEF Downlink, uplink, sources, encoder, ground
<1>1. /\ transmitQueue \in Seq(TransmitEvents) /\ downlinked \in Seq(Seq(Ids))
      /\ PacketIds \in [TransmitEvents -> SUBSET Ids] /\ AnswerIds \in [Seq(Ids) -> SUBSET Ids]
      /\ InOrder(AnswerIds, downlinked) /\ InOrder(PacketIds, transmitQueue)
  BY QueueTypes, IdsTyped DEF Flow, DownInOrder
<1>2. /\ Len(transmitQueue) \in Nat \ {0} /\ p = transmitQueue[1] /\ p \in TransmitEvents
      /\ Len(transmitQueue') = Len(transmitQueue) - 1
      /\ \A k \in 1 .. Len(transmitQueue') : transmitQueue'[k] = transmitQueue[k + 1]
  BY <1>0, <1>1, Rest
<1>3. /\ InOrder(PacketIds, transmitQueue')
      /\ IdsIn(PacketIds, transmitQueue') \subseteq IdsIn(PacketIds, transmitQueue)
      /\ PacketIds[p] \subseteq IdsIn(PacketIds, transmitQueue)
      /\ Before(PacketIds[p], IdsIn(PacketIds, transmitQueue'))
  BY <1>0, <1>1, OrderTail
<1>4. p.data \in Seq(Ids) /\ PacketIds[p] = AnswerIds[p.data]
  BY <1>2, PacketIdsAre
<1>5. Before(IdsIn(AnswerIds, downlinked), AnswerIds[p.data])
  BY <1>3, <1>4, Apart, PlacesAre DEF Flow, Before
<1> HIDE DEF p
<1>6. /\ InOrder(AnswerIds, downlinked')
      /\ IdsIn(AnswerIds, downlinked') \subseteq IdsIn(AnswerIds, downlinked) \cup PacketIds[p]
  <2>1. CASE UNCHANGED downlinked
    BY <1>1, <2>1
  <2>2. CASE downlinked' = Append(downlinked, p.data)
    <3> DEFINE d == p.data
    <3>1. d \in Seq(Ids) /\ Before(IdsIn(AnswerIds, downlinked), AnswerIds[d])
      BY <1>4, <1>5
    <3> HIDE DEF d
    <3> DEFINE S == Seq(Ids)
    <3>0. downlinked \in Seq(S) /\ AnswerIds \in [S -> SUBSET Ids] /\ d \in S
      BY <1>1, <3>1
    <3> HIDE DEF S
    <3>2. /\ InOrder(AnswerIds, Append(downlinked, d))
          /\ IdsIn(AnswerIds, Append(downlinked, d)) = IdsIn(AnswerIds, downlinked) \cup AnswerIds[d]
      BY <1>1, <3>0, <3>1, OrderAppend
    <3>3. QED
      BY <1>4, <2>2, <3>2 DEF d
  <2>3. QED
    BY <1>0, <2>1, <2>2
<1>7. DownInOrder'
  BY <1>0, <1>3, <1>6, Fixed DEF Flow, DownInOrder
<1>8. Whole(outbox') /\ Whole(transmitQueue')
  <2>1. \A k \in 1 .. Len(transmitQueue') : k + 1 \in 1 .. Len(transmitQueue)
    BY <1>2
  <2>2. QED
    BY <1>0, <1>2, <2>1 DEF Flow, Whole
<1>9. Arriving' = Arriving
  BY <1>0 DEF Arriving
<1>10. \A k \in {1, 2, 3, 4, 5, 6, 7, 8, 9} : k # 1 => Places'[k] \subseteq Places[k]
  BY <1>0, <1>3, <1>9, PlacesKept, PlacesAre
<1>11. /\ Places'[1] \subseteq Places[1] \cup PacketIds[p] /\ PacketIds[p] \subseteq Places[2]
       /\ Before(PacketIds[p], Places'[2])
  BY <1>3, <1>6, PlacesAre
<1>12. Ordered(Places')
  BY <1>10, <1>11, StepMoves DEF Flow
<1>13. QED
  BY <1>0, <1>7, <1>8, <1>12, Kept DEF Flow

-----------------------------------------------------------------------------
\* At the start there is no command anywhere.
LEMMA FlowInit == ASSUME Init PROVE Flow
<1>1. /\ downlinked = <<>> /\ transmitQueue = <<>> /\ outbox = <<>> /\ commandQueue = <<>>
      /\ todo = <<>> /\ decodeQueue = <<>> /\ cmdResBuffer = <<>> /\ encodeQueue = <<>>
      /\ cm # "push" /\ rx.frame = Partial /\ nextId = 1
      /\ writing = [p \in Producers |-> <<>>]
  BY DEF Init
<1>2. writing["command"] = <<>> /\ writing["alarm"] = <<>> /\ writing["telemetry"] = <<>>
  BY <1>1 DEF Producers
<1>3. Len(<<>>) = 0
  BY EmptyQueue
<1>4. Answering = {}
  <2>1. Len(cmdResBuffer) = 0 /\ Len(encodeQueue) = 0 /\ Len(writing["command"]) = 0
    BY <1>1, <1>2, <1>3
  <2>2. cmdResBuffer \in Seq(Ids)
    BY <1>1, EmptyQueue
  <2>3. Answering \subseteq {}
    <3> DEFINE A == {}
    <3>1. /\ \A k \in 1 .. Len(cmdResBuffer) : cmdResBuffer[k] \in A
          /\ \A k \in 1 .. Len(encodeQueue) : \A x \in Ids : encodeQueue[k] = Response(x) => x \in A
          /\ \A k \in 1 .. Len(writing["command"]) : \A x \in Ids :
               writing["command"][k] = Response(x) => x \in A
      BY <2>1
    <3> HIDE DEF A
    <3>2. Answered(cmdResBuffer, encodeQueue, writing["command"]) \subseteq A
      BY <2>2, <3>1, AnsweredWithin
    <3>3. QED
      BY <3>2 DEF Answering, A
  <2>4. QED
    BY <2>3
<1>5. /\ \A k \in {1, 2, 3, 4, 5, 6, 7, 8} : Places[k] = {}
      /\ Places[9] = 1 .. MaxCommands
  BY <1>1, <1>4, OrderEmpty, PlacesAre DEF Arriving
<1>6. Ordered(Places)
  <2>1. \A i, j \in 1 .. 9 : i < j => i \in {1, 2, 3, 4, 5, 6, 7, 8}
    OBVIOUS
  <2>2. QED
    BY <1>5, <2>1 DEF Ordered, Before
<1>7. DownInOrder /\ CommandsInOrder
  BY <1>1, OrderEmpty DEF DownInOrder, CommandsInOrder
<1>8. FramesInOrder
  <2>1. Len(decodeQueue) = 0
    BY <1>1, <1>3
  <2>2. QED
    BY <1>1, <2>1, OrderEmpty, PartialIds DEF FramesInOrder
<1>9. Streaming
  <2>1. Len(writing["telemetry"]) = 0
    BY <1>2, <1>3
  <2>2. QED
    BY <1>1, <1>2, <2>1, StreamEmpty DEF Streaming
<1>10. Whole(outbox) /\ Whole(transmitQueue)
  <2>1. Len(outbox) = 0 /\ Len(transmitQueue) = 0
    BY <1>1, <1>3
  <2>2. QED
    BY <2>1 DEF Whole
<1>11. QED
  BY <1>6, <1>7, <1>8, <1>9, <1>10 DEF Flow

\* A step that changes nothing keeps it.
LEMMA FlowStutters ==
  ASSUME IInv, IInv', Flow, UNCHANGED vars
  PROVE  Flow'
<1>1. UNCHANGED <<downlinked, transmitQueue, outbox, commandQueue, todo, decodeQueue, cm, rx,
                  cmdResBuffer, encodeQueue, writing, nextId>>
  BY DEF vars
<1>2. \A k \in {1, 2, 3, 4, 5, 6, 7, 8, 9} : Places'[k] \subseteq Places[k]
  BY <1>1, PlacesKept
<1>3. Ordered(Places')
  BY <1>2, StepDrops DEF Flow
<1>4. QED
  BY <1>1, <1>3, Kept DEF Flow, Whole

\* Only the alarm manager, which answers too, can mix the stream.
SInv == ~alarmAnswered => Flow

\* Every step keeps the order, or is the alarm manager's.
LEMMA FlowNext ==
  ASSUME IInv, IInv', SInv, [Next]_vars
  PROVE  SInv'
<1> SUFFICES ASSUME ~alarmAnswered'
             PROVE  Flow'
  BY Zenon DEF SInv
<1>1. CASE \E f \in ConnUplinks \cup Uplinks : ReadFrame(f)
  <2>1. PICK f \in ConnUplinks \cup Uplinks : ReadFrame(f)
    BY <1>1
  <2>2. UNCHANGED alarmAnswered
    BY <2>1 DEF ReadFrame, sources
  <2>3. Flow
    BY <2>2, Zenon DEF SInv
  <2>4. QED
    BY <2>1, <2>3, ReadFrameFlow
<1>2. CASE CommsManager
  <2>1. UNCHANGED alarmAnswered
    BY <1>2 DEF CommsManager, PushChunk, PostCompletion, HandleEvent, Downlink, sources
  <2>2. Flow
    BY <2>1, Zenon DEF SInv
  <2>3. QED
    BY <1>2, <2>2, PushChunkFlow, EventFlow, DownlinkFlow DEF CommsManager
<1>3. CASE Decoder
  <2>1. UNCHANGED alarmAnswered
    BY <1>3 DEF Decoder, DecodeNothing, DecodeCommands, DecodeUFrame, PassCommand, sources
  <2>2. Flow
    BY <2>1, Zenon DEF SInv
  <2>3. QED
    BY <1>3, <2>2, DecodeNothingFlow, DecodeFlow, PassCommandFlow DEF Decoder
<1>4. CASE ExecuteCommand
  <2>1. UNCHANGED alarmAnswered
    BY <1>4 DEF ExecuteCommand
  <2>2. Flow
    BY <2>1, Zenon DEF SInv
  <2>3. QED
    BY <1>4, <2>2, ExecuteCommandFlow
<1>5. CASE ExecuteAlarm
  <2>1. alarmAnswered' = TRUE
    BY <1>5 DEF ExecuteAlarm
  <2>2. QED
    BY <2>1, Zenon
<1>6. CASE TakeDownlinkReady
  <2>1. UNCHANGED alarmAnswered
    BY <1>6 DEF TakeDownlinkReady
  <2>2. Flow
    BY <2>1, Zenon DEF SInv
  <2>3. QED
    BY <1>6, <2>2, TakeDownlinkReadyFlow
<1>7. CASE \E p \in Producers : WriteEncodeQueue(p)
  <2>1. PICK p \in Producers : WriteEncodeQueue(p)
    BY <1>7
  <2>2. UNCHANGED alarmAnswered
    BY <2>1 DEF WriteEncodeQueue
  <2>3. Flow
    BY <2>2, Zenon DEF SInv
  <2>4. QED
    BY <2>1, <2>3, WriteEncodeQueueFlow
<1>8. CASE Encoder
  <2>1. UNCHANGED alarmAnswered
    BY <1>8 DEF Encoder, EncodeResponse, EncodeFile, SendTransmit, sources
  <2>2. Flow
    BY <2>1, Zenon DEF SInv
  <2>3. QED
    BY <1>8, <2>2, EncodeResponseFlow, EncodeFileFlow, SendTransmitFlow DEF Encoder
<1>9. CASE UNCHANGED vars
  <2>1. UNCHANGED alarmAnswered
    BY <1>9 DEF vars
  <2>2. Flow
    BY <2>1, Zenon DEF SInv
  <2>3. QED
    BY <1>9, <2>2, FlowStutters
<1>10. QED
  BY <1>1, <1>2, <1>3, <1>4, <1>5, <1>6, <1>7, <1>8, <1>9 DEF Next

\* The pipeline is in order until the alarm manager has answered.
LEMMA FlowCorrect == Spec => [](IInv /\ SInv)
<1>1. Init => IInv /\ SInv
  <2>1. SUFFICES ASSUME Init PROVE IInv /\ SInv
    OBVIOUS
  <2>2. IInv
    BY <2>1, InvInit
  <2>3. Flow
    BY <2>1, FlowInit
  <2>4. QED
    BY <2>2, <2>3, Zenon DEF SInv
<1>2. IInv /\ SInv /\ [Next]_vars => (IInv /\ SInv)'
  <2>1. IInv /\ [Next]_vars => IInv'
    BY InvNext
  <2>2. QED
    BY <2>1, FlowNext
<1>3. QED
  BY <1>1, <1>2, PTL DEF Spec

\* Every packet on its way to the ground is of one command, whatever the lengths of the
\* queues and of the responses, until the alarm manager answers a command.
THEOREM WholePacketsCorrect == Spec => []WholePackets
<1>1. IInv /\ SInv => WholePackets
  <2> SUFFICES ASSUME IInv, SInv, ~alarmAnswered,
                      NEW p \in Packets, NEW j \in DOMAIN p.data
               PROVE  p.data[j] = p.data[1]
    BY Zenon DEF WholePackets
  <2>1. Whole(outbox) /\ Whole(transmitQueue)
    <3>1. Flow
      BY Zenon DEF SInv
    <3>2. QED
      BY <3>1 DEF Flow
  <2>2. outbox \in Seq(TransmitEvents) /\ transmitQueue \in Seq(TransmitEvents)
    BY QueueTypes
  <2>3. DOMAIN outbox = 1 .. Len(outbox) /\ DOMAIN transmitQueue = 1 .. Len(transmitQueue)
    BY <2>2, LenProperties
  <2>4. p \in TransmitEvents /\ \A i \in 1 .. Len(p.data) : p.data[i] = p.data[1]
    <3>1. CASE \E k \in 1 .. Len(outbox) : p = outbox[k]
      BY <2>1, <2>2, <3>1, ElementOfSeq DEF Whole
    <3>2. CASE \E k \in 1 .. Len(transmitQueue) : p = transmitQueue[k]
      BY <2>1, <2>2, <3>2, ElementOfSeq DEF Whole
    <3>3. QED
      BY <2>3, <3>1, <3>2 DEF Packets
  <2>5. DOMAIN p.data = 1 .. Len(p.data)
    BY <2>4, PacketIdsAre, LenProperties
  <2>6. QED
    BY <2>4, <2>5
<1>2. QED
  BY <1>1, FlowCorrect, PTL

\* Responses reach the ground in the order of their commands, through all five queues
\* and whatever their lengths, until the alarm manager answers a command.
THEOREM AnsweredInOrderCorrect == Spec => []AnsweredInOrder
<1>1. IInv /\ SInv => AnsweredInOrder
  <2> SUFFICES ASSUME IInv, SInv, ~alarmAnswered,
                      NEW j \in DOMAIN downlinked, NEW k \in DOMAIN downlinked, j < k,
                      downlinked[j] # <<>>, downlinked[k] # <<>>
               PROVE  downlinked[j][1] < downlinked[k][1]
    BY Zenon DEF AnsweredInOrder
  <2>1. InOrder(AnswerIds, downlinked)
    <3>1. Flow
      BY Zenon DEF SInv
    <3>2. QED
      BY <3>1 DEF Flow, DownInOrder
  <2> DEFINE S == Seq(Ids)
  <2>2. downlinked \in Seq(S)
    BY QueueTypes
  <2>3. \A d \in S : d # <<>> => d[1] \in AnswerIds[d]
    <3>1. \A d \in S : d # <<>> => Len(d) \in Nat \ {0}
      BY Rest
    <3>2. QED
      BY <3>1 DEF AnswerIds
  <2> HIDE DEF S
  <2>4. DOMAIN downlinked = 1 .. Len(downlinked)
    BY <2>2, LenProperties
  <2>5. downlinked[j] \in S /\ downlinked[k] \in S
    BY <2>2, <2>4, ElementOfSeq
  <2>6. Before(AnswerIds[downlinked[j]], AnswerIds[downlinked[k]])
    BY <2>1, <2>4 DEF InOrder
  <2>7. QED
    BY <2>3, <2>5, <2>6 DEF Before
<1>2. QED
  BY <1>1, FlowCorrect, PTL

-----------------------------------------------------------------------------
(* Counting in queues. *)

\* How often a sequence holds an element of S.
At(s, S)    == {k \in DOMAIN s : s[k] \in S}
Times(s, S) == Cardinality(At(s, S))

LEMMA TimesEmpty == \A S : Times(<<>>, S) = 0
<1>1. SUFFICES ASSUME NEW S
               PROVE  Times(<<>>, S) = 0
  OBVIOUS
<1>2. DOMAIN <<>> = {}
  <2>1. <<>> \in Seq({}) /\ Len(<<>>) = 0
    BY EmptySeq
  <2>2. DOMAIN <<>> = 1 .. 0
    BY <2>1, LenProperties
  <2>3. QED
    BY <2>2
<1>3. At(<<>>, S) = {}
  BY <1>2 DEF At
<1>4. QED
  BY <1>3, FS_EmptySet DEF Times

LEMMA TimesTyped ==
  ASSUME NEW X, NEW s \in Seq(X), NEW S
  PROVE  IsFiniteSet(At(s, S)) /\ Times(s, S) \in Nat
<1>1. Len(s) \in Nat /\ DOMAIN s = 1 .. Len(s)
  BY LenProperties
<1>2. IsFiniteSet(1 .. Len(s))
  BY <1>1, FS_Interval
<1>3. At(s, S) \subseteq 1 .. Len(s)
  BY <1>1 DEF At
<1>4. IsFiniteSet(At(s, S))
  BY <1>2, <1>3, FS_Subset
<1>5. QED
  BY <1>4, FS_CardinalityType DEF Times

\* A send adds one, if it is one of them,
LEMMA TimesAppend ==
  ASSUME NEW X, NEW s \in Seq(X), NEW x \in X, NEW S
  PROVE  Times(Append(s, x), S) = Times(s, S) + (IF x \in S THEN 1 ELSE 0)
<1> DEFINE n == Len(s)
           r == Append(s, x)
           P == At(s, S)
           Q == At(r, S)
<1>1. /\ n \in Nat /\ DOMAIN s = 1 .. n /\ r \in Seq(X) /\ Len(r) = n + 1
      /\ \A j \in 1 .. n : r[j] = s[j]
      /\ r[n + 1] = x
  BY AppendProperties, LenProperties
<1>2. DOMAIN r = 1 .. n + 1
  BY <1>1, LenProperties
<1>3. IsFiniteSet(P) /\ Cardinality(P) \in Nat
  BY TimesTyped DEF Times
<1>4. n + 1 \notin P
  BY <1>1 DEF At
<1>5. Q = IF x \in S THEN P \cup {n + 1} ELSE P
  <2>1. \A j : j \in Q <=> j \in 1 .. n + 1 /\ r[j] \in S
    BY <1>2 DEF At
  <2>2. \A j : j \in P <=> j \in 1 .. n /\ s[j] \in S
    BY <1>1 DEF At
  <2>3. 1 .. n + 1 = (1 .. n) \cup {n + 1}
    BY <1>1
  <2>4. QED
    BY <1>1, <2>1, <2>2, <2>3
<1> HIDE DEF n, r, P, Q
<1>6. Cardinality(Q) = Cardinality(P) + (IF x \in S THEN 1 ELSE 0)
  <2>1. Cardinality(P \cup {n + 1}) = Cardinality(P) + 1
    BY <1>3, <1>4, FS_AddElement
  <2>2. QED
    BY <1>3, <1>5, <2>1
<1>7. QED
  BY <1>6 DEF P, Q, r, Times

\* and a receive takes it away.
LEMMA TimesTail ==
  ASSUME NEW X, NEW s \in Seq(X), s # <<>>, NEW S
  PROVE  /\ Times(Tail(s), S) \in Nat
         /\ Times(s, S) = Times(Tail(s), S) + (IF Head(s) \in S THEN 1 ELSE 0)
<1> DEFINE r == Tail(s)
           n == Len(r)
           P == At(r, S)
           Q == At(s, S)
           f == [j \in P |-> j + 1]
           R == Q \ {1}
<1>1. /\ r \in Seq(X) /\ n \in Nat /\ Len(s) = n + 1
      /\ \A j \in 1 .. n : r[j] = s[j + 1]
      /\ Head(s) = s[1]
  BY HeadTailProperties, LenProperties, EmptySeq
<1>2. DOMAIN r = 1 .. n /\ DOMAIN s = 1 .. n + 1
  BY <1>1, LenProperties
<1>3. IsFiniteSet(P) /\ Cardinality(P) \in Nat /\ IsFiniteSet(Q) /\ Cardinality(Q) \in Nat
  BY <1>1, TimesTyped DEF Times
<1>4. /\ \A j : j \in Q <=> j \in 1 .. n + 1 /\ s[j] \in S
      /\ \A j : j \in P <=> j \in 1 .. n /\ s[j + 1] \in S
  BY <1>1, <1>2 DEF At
<1> HIDE DEF r, n, P, Q
<1>5. f \in [P -> R]
  BY <1>1, <1>4
<1>6. \A i, j \in P : f[i] = f[j] => i = j
  BY <1>1, <1>4
<1>7. \A k \in R : \E j \in P : f[j] = k
  <2>1. TAKE k \in R
  <2>2. k \in 2 .. n + 1 /\ s[k] \in S
    BY <1>1, <1>4
  <2>3. k - 1 \in 1 .. n /\ (k - 1) + 1 = k
    BY <1>1, <2>2
  <2>4. k - 1 \in P
    BY <1>4, <2>2, <2>3
  <2>5. QED
    BY <2>3, <2>4
<1>8. ExistsBijection(P, R)
  <2>1. f \in Bijection(P, R)
    BY <1>5, <1>6, <1>7 DEF Bijection, Injection, Surjection, IsInjective
  <2>2. QED
    BY <2>1 DEF ExistsBijection
<1>9. Cardinality(R) = Cardinality(P)
  BY <1>3, <1>8, FS_Bijection
<1>10. 1 \in Q <=> Head(s) \in S
  BY <1>1, <1>4
<1>11. Cardinality(Q) = Cardinality(P) + (IF Head(s) \in S THEN 1 ELSE 0)
  <2>1. CASE 1 \in Q
    <3>1. Cardinality(R) = Cardinality(Q) - 1
      BY <1>3, <2>1, FS_RemoveElement
    <3>2. QED
      BY <1>3, <1>9, <1>10, <2>1, <3>1
  <2>2. CASE 1 \notin Q
    <3>1. Cardinality(R) = Cardinality(Q)
      BY <1>3, <2>2, FS_RemoveElement
    <3>2. QED
      BY <1>3, <1>9, <1>10, <2>2, <3>1
  <2>3. QED
    BY <2>1, <2>2
<1>12. QED
  BY <1>3, <1>11 DEF P, Q, r, Times

-----------------------------------------------------------------------------
(* Room for the events of the comms manager. *)

\* The U frames that wait for the decoder.
UFrames == {f \in Frames : f.kind \in {"conn", "ack", "disc"}}
Pending == Times(decodeQueue, UFrames)

\* Two places in the event queue are enough besides one for each of them: at most eight of
\* them, with the lengths in the code.
Few == Pending + 2 <= CommsQueueLength

Messages        == {"CONN_RECEIVED", "ACK_RECEIVED", "DISC_RECEIVED"}
OnlyMessages(q) == \A k \in 1 .. Len(q) : q[k] \in Messages

\* The manager never leaves the loop of uplink and downlink once it is connected.
InLoop == commsState \in {"AWAITING_CONN", "SENDING_ACK", "UPLINKING", "DOWNLINKING"}

\* The p-th event is the one a handler ended with, and the only one that is not from
\* the decoder.  What came after it fits with two places left, and all of it fits.
CompletedAt(p) ==
  /\ commsState # "AWAITING_CONN"
  /\ commsQueue[p] = Completion(commsState)
  /\ \A k \in 1 .. Len(commsQueue) : k # p => commsQueue[k] \in Messages
  /\ Len(commsQueue) + Pending <= CommsQueueLength
  /\ (Len(commsQueue) - p) + Pending + 2 <= CommsQueueLength

\* A handler that has not ended has two places left, one once it has pushed a frame.
Spare(n) == OnlyMessages(commsQueue) /\ Len(commsQueue) + Pending + n <= CommsQueueLength

EventInv ==
  /\ InLoop
  /\ cm \in {"read", "push"} => commsState \in {"AWAITING_CONN", "UPLINKING"}
  /\ cm \in {"read", "push", "downlink"} => Spare(2)
  /\ cm = "post" => commsState # "AWAITING_CONN" /\ Spare(1)
  /\ cm = "idle" => \/ commsState = "AWAITING_CONN" /\ Spare(1)
                    \/ \E p \in 1 .. Len(commsQueue) : CompletedAt(p)

\* The transitions that matter in the loop.
LEMMA LoopTransitions ==
  ASSUME InLoop, NEW e
  PROVE  /\ commsState = "AWAITING_CONN" /\ e \in Messages =>
              NextStates(e) \subseteq {"SENDING_ACK"}
         /\ commsState # "AWAITING_CONN" /\ e \in Messages => NextStates(e) = {}
         /\ commsState # "AWAITING_CONN" /\ e = Completion(commsState) =>
              NextStates(e) = {IF commsState = "UPLINKING" THEN "DOWNLINKING" ELSE "UPLINKING"}
<1>1. \A t \in Transitions : t[1] = "AWAITING_CONN" /\ t[2] \in Messages => t[3] = "SENDING_ACK"
  BY DEF Transitions, Messages
<1>2. \A t \in Transitions : t[1] \in {"SENDING_ACK", "UPLINKING", "DOWNLINKING"} => t[2] \notin Messages
  BY DEF Transitions, Messages
<1>3. /\ <<"SENDING_ACK", "ACK_SENT", "UPLINKING">> \in Transitions
      /\ <<"UPLINKING", "UPLINK_FINISHED", "DOWNLINKING">> \in Transitions
      /\ <<"DOWNLINKING", "DOWNLINK_FINISHED", "UPLINKING">> \in Transitions
  BY DEF Transitions
<1>4. /\ \A t \in Transitions : t[1] = "SENDING_ACK" /\ t[2] = "ACK_SENT" => t[3] = "UPLINKING"
      /\ \A t \in Transitions : t[1] = "UPLINKING" /\ t[2] = "UPLINK_FINISHED" => t[3] = "DOWNLINKING"
      /\ \A t \in Transitions : t[1] = "DOWNLINKING" /\ t[2] = "DOWNLINK_FINISHED" => t[3] = "UPLINKING"
  BY DEF Transitions
<1>5. /\ Completion("SENDING_ACK") = "ACK_SENT"
      /\ Completion("UPLINKING") = "UPLINK_FINISHED"
      /\ Completion("DOWNLINKING") = "DOWNLINK_FINISHED"
  BY DEF Completion
<1>6. \A s : s \in NextStates(e) <=> \E t \in Transitions : t[1] = commsState /\ t[2] = e /\ t[3] = s
  BY DEF NextStates
<1>7. CASE commsState = "AWAITING_CONN"
  BY <1>1, <1>6, <1>7
<1>8. CASE commsState \in {"SENDING_ACK", "UPLINKING", "DOWNLINKING"}
  <2> DEFINE next == IF commsState = "UPLINKING" THEN "DOWNLINKING" ELSE "UPLINKING"
  <2>1. e \in Messages => NextStates(e) = {}
    BY <1>2, <1>6, <1>8
  <2>2. <<commsState, Completion(commsState), next>> \in Transitions
    BY <1>3, <1>5, <1>8
  <2>3. \A t \in Transitions : t[1] = commsState /\ t[2] = Completion(commsState) => t[3] = next
    BY <1>4, <1>5, <1>8
  <2> HIDE DEF next
  <2>4. e = Completion(commsState) => NextStates(e) = {next}
    BY <1>6, <2>2, <2>3
  <2>5. QED
    BY <1>8, <2>1, <2>4 DEF next
<1>9. QED
  BY <1>7, <1>8 DEF InLoop

\* What the queues are made of.
LEMMA EventTypes ==
  ASSUME IInv
  PROVE  /\ commsQueue \in Seq(CommsEvents) /\ Len(commsQueue) \in Nat
         /\ decodeQueue \in Seq(Frames \cup {Partial}) /\ Pending \in Nat
         /\ CommsQueueLength \in Nat
<1>1. commsQueue \in Seq(CommsEvents) /\ decodeQueue \in Seq(Frames \cup {Partial})
  BY DEF IInv, TypeComms, TypeUplink, TypeDecode
<1>2. QED
  BY <1>1, LenProperties, TimesTyped, PipelineAssumption DEF Pending

\* The model counts the same frames.
LEMMA FewIs == ASSUME IInv PROVE FewUFrames <=> Few
<1> DEFINE Is(f) == f.kind \in {"conn", "ack", "disc"}
<1>1. decodeQueue \in Seq(Frames \cup {Partial})
  BY EventTypes
<1>2. \A f \in Frames \cup {Partial} : f \in UFrames <=> Is(f)
  BY DEF UFrames, Partial
<1>3. At(decodeQueue, UFrames) = {k \in DOMAIN decodeQueue : Is(decodeQueue[k])}
  <2>1. \A k \in DOMAIN decodeQueue : decodeQueue[k] \in Frames \cup {Partial}
    BY <1>1, LenProperties, ElementOfSeq
  <2> HIDE DEF Is
  <2>2. QED
    BY <1>2, <2>1 DEF At
<1>4. FewUFrames <=> Cardinality({k \in DOMAIN decodeQueue : Is(decodeQueue[k])}) + 2 <= CommsQueueLength
  BY DEF FewUFrames, Count, IsUFrame
<1>5. QED
  <2> HIDE DEF Is
  <2>1. QED
    BY <1>3, <1>4 DEF Few, Pending, Times

\* An event put into the queue is the last.
LEMMA EventAdded ==
  ASSUME IInv, NEW e \in CommsEvents, commsQueue' = Append(commsQueue, e)
  PROVE  /\ Len(commsQueue') = Len(commsQueue) + 1
         /\ commsQueue'[Len(commsQueue) + 1] = e
         /\ \A k \in 1 .. Len(commsQueue) : commsQueue'[k] = commsQueue[k]
BY EventTypes, AppendProperties

\* Taking the first leaves the others one place further ahead.
LEMMA EventHandled ==
  ASSUME IInv, commsQueue # <<>>, commsQueue' = Tail(commsQueue)
  PROVE  /\ Len(commsQueue) \in Nat \ {0} /\ Len(commsQueue') = Len(commsQueue) - 1
         /\ Head(commsQueue) = commsQueue[1]
         /\ \A k \in 1 .. Len(commsQueue) - 1 : commsQueue'[k] = commsQueue[k + 1]
BY EventTypes, HeadTailProperties, EmptySeq

\* Where nothing happens to the queues and the handler.
LEMMA EventsUntouched ==
  ASSUME EventInv, UNCHANGED <<commsState, cm, commsQueue, decodeQueue>>
  PROVE  EventInv'
<1>1. Pending' = Pending
  BY DEF Pending, UFrames, Frames, Commands, Ids
<1>2. \A n : Spare(n)' <=> Spare(n)
  BY <1>1 DEF Spare, OnlyMessages
<1>3. \A p : CompletedAt(p)' <=> CompletedAt(p)
  BY <1>1 DEF CompletedAt, Completion
<1>4. QED
  BY <1>2, <1>3 DEF EventInv, InLoop

\* The frames that wait are a number after a step, too.
PendingOk == Pending \in Nat
LEMMA PendingNext == IInv' => PendingOk'
<1>1. IInv => PendingOk
  BY EventTypes DEF PendingOk
<1>2. QED
  BY <1>1, PTL

\* Where the manager does nothing and the frames that wait do not grow.
LEMMA EventsDecoded ==
  ASSUME IInv, IInv', EventInv, UNCHANGED <<commsState, cm, commsQueue>>, Pending' <= Pending
  PROVE  EventInv'
<1>1. Pending \in Nat /\ Pending' \in Nat /\ Len(commsQueue) \in Nat /\ CommsQueueLength \in Nat
  BY EventTypes, PendingNext DEF PendingOk
<1>2. \A n \in {1, 2} : Spare(n) => Spare(n)'
  BY <1>1 DEF Spare, OnlyMessages
<1>3. \A p \in 1 .. Len(commsQueue) : CompletedAt(p) => CompletedAt(p)'
  BY <1>1 DEF CompletedAt, Completion
<1>4. QED
  BY <1>2, <1>3 DEF EventInv, InLoop

\* The frames that wait, after a send to the decoder and after a receive.
LEMMA PendingPushed ==
  ASSUME IInv, NEW f \in Frames \cup {Partial}, decodeQueue' = Append(decodeQueue, f)
  PROVE  Pending' = Pending + (IF f \in UFrames THEN 1 ELSE 0)
<1>1. UFrames' = UFrames
  BY DEF UFrames, Frames, Commands, Ids
<1>2. QED
  BY <1>1, EventTypes, TimesAppend DEF Pending

LEMMA PendingTaken ==
  ASSUME IInv, decodeQueue # <<>>, decodeQueue' = Tail(decodeQueue)
  PROVE  Pending' \in Nat /\ Pending = Pending' + (IF Head(decodeQueue) \in UFrames THEN 1 ELSE 0)
<1>1. UFrames' = UFrames
  BY DEF UFrames, Frames, Commands, Ids
<1>2. QED
  BY <1>1, EventTypes, TimesTail DEF Pending

LEMMA PushChunkEvents ==
  ASSUME IInv, EventInv, PushChunk
  PROVE  EventInv'
<1>1. /\ Pending \in Nat /\ Len(commsQueue) \in Nat /\ CommsQueueLength \in Nat
      /\ rx.left \in Nat \ {0} /\ rx.frame \in Frames
  BY EventTypes, PipelineAssumption DEF PushChunk, IInv, TypeManager, Handlers
<1>2. Partial \notin UFrames
  BY DEF Partial, UFrames
<1>3. /\ Pending' <= Pending + 1
      /\ rx.left > 1 => Pending' = Pending
  <2>1. CASE rx.left = 1
    BY <1>1, <2>1, PendingPushed DEF PushChunk
  <2>2. CASE rx.left > 1
    BY <1>1, <1>2, <2>2, PendingPushed DEF PushChunk
  <2>3. QED
    BY <1>1, <2>1, <2>2
<1>4. UNCHANGED <<commsState, commsQueue>> /\ Spare(2) /\ commsState \in {"AWAITING_CONN", "UPLINKING"}
  BY DEF PushChunk, EventInv
<1>5. Pending' \in Nat
  BY <1>1, <1>2, PendingPushed DEF PushChunk
<1>6. Spare(1)' /\ (rx.left > 1 => Spare(2)')
  BY <1>1, <1>3, <1>4, <1>5 DEF Spare, OnlyMessages
<1>7. QED
  BY <1>1, <1>4, <1>6 DEF PushChunk, EventInv, InLoop

LEMMA PostCompletionEvents ==
  ASSUME IInv, EventInv, Few, PostCompletion
  PROVE  EventInv'
<1> DEFINE n == Len(commsQueue)
           e == Completion(commsState)
<1>1. /\ Pending \in Nat /\ n \in Nat /\ CommsQueueLength \in Nat
      /\ OnlyMessages(commsQueue) /\ n + Pending + 1 <= CommsQueueLength
      /\ commsState # "AWAITING_CONN" /\ e \in CommsEvents
  BY EventTypes DEF PostCompletion, EventInv, Spare, IInv, TypeManager, Handlers
<1>2. commsQueue' = Append(commsQueue, e)
  BY <1>1 DEF PostCompletion, SentToCommsQueue
<1>3. /\ Len(commsQueue') = n + 1 /\ commsQueue'[n + 1] = e
      /\ \A k \in 1 .. n : commsQueue'[k] = commsQueue[k]
  BY <1>1, <1>2, EventAdded
<1>4. Pending' = Pending /\ UNCHANGED commsState
  BY DEF PostCompletion, Pending, UFrames, Frames, Commands, Ids, manager, uplink
<1>5. Completion(commsState)' = e
  BY <1>4 DEF Completion
<1>6. PICK p \in Nat : p = n + 1
  BY <1>1
<1>7. CompletedAt(p)'
  <2>1. \A k \in 1 .. n + 1 : k # p => commsQueue'[k] \in Messages
    <3>1. TAKE k \in 1 .. n + 1
    <3>2. HAVE k # p
    <3>3. k \in 1 .. n
      BY <1>1, <1>6, <3>2
    <3>4. QED
      BY <1>1, <1>3, <3>3 DEF OnlyMessages
  <2>2. /\ (n + 1) + Pending' <= CommsQueueLength
        /\ ((n + 1) - p) + Pending' + 2 <= CommsQueueLength
    BY <1>1, <1>4, <1>6 DEF Few
  <2>3. QED
    BY <1>1, <1>3, <1>4, <1>5, <1>6, <2>1, <2>2 DEF CompletedAt
<1>8. p \in 1 .. Len(commsQueue')
  BY <1>1, <1>3, <1>6
<1> HIDE DEF n
<1>9. QED
  BY <1>1, <1>4, <1>7, <1>8 DEF PostCompletion, EventInv, InLoop

LEMMA HandleEventEvents ==
  ASSUME IInv, EventInv, HandleEvent
  PROVE  EventInv'
<1> DEFINE q == commsQueue
           n == Len(commsQueue)
           e == Head(commsQueue)
<1>1. /\ Pending \in Nat /\ CommsQueueLength \in Nat /\ InLoop
      /\ n \in Nat \ {0} /\ Len(commsQueue') = n - 1 /\ e = q[1]
      /\ \A k \in 1 .. n - 1 : commsQueue'[k] = q[k + 1]
  BY EventTypes, EventHandled DEF HandleEvent, EventInv
<1>2. Pending' = Pending
  BY DEF HandleEvent, Pending, UFrames, Frames, Commands, Ids, uplink
<1>3. CASE commsState = "AWAITING_CONN"
  <2>1. OnlyMessages(q) /\ n + Pending + 1 <= CommsQueueLength
    BY <1>3 DEF HandleEvent, EventInv, CompletedAt, Spare
  <2>2. e \in Messages /\ OnlyMessages(commsQueue') /\ Spare(1)' /\ Spare(2)'
    BY <1>1, <1>2, <2>1 DEF OnlyMessages, Spare
  <2>3. \/ commsState' = "SENDING_ACK" /\ cm' = Entry("SENDING_ACK")
        \/ UNCHANGED <<commsState, cm>>
    BY <1>1, <1>3, <2>2, LoopTransitions DEF HandleEvent
  <2>4. Entry("SENDING_ACK") = "post"
    BY DEF Entry
  <2>5. QED
    BY <1>3, <2>2, <2>3, <2>4 DEF HandleEvent, EventInv, InLoop
<1>4. CASE commsState # "AWAITING_CONN"
  <2>1. PICK p \in 1 .. n : CompletedAt(p)
    BY <1>4 DEF HandleEvent, EventInv
  <2>2. CASE p = 1
    <3>1. e = Completion(commsState)
      BY <1>1, <2>1, <2>2 DEF CompletedAt
    <3>2. \E s \in {"UPLINKING", "DOWNLINKING"} : commsState' = s /\ cm' = Entry(s)
      BY <1>1, <1>4, <3>1, LoopTransitions DEF HandleEvent
    <3>3. OnlyMessages(commsQueue')
      BY <1>1, <2>1, <2>2 DEF CompletedAt, OnlyMessages
    <3>4. Spare(2)'
      BY <1>1, <1>2, <2>1, <2>2, <3>3 DEF CompletedAt, Spare
    <3>5. Entry("UPLINKING") = "read" /\ Entry("DOWNLINKING") = "downlink"
      BY DEF Entry
    <3>6. QED
      BY <3>2, <3>4, <3>5 DEF EventInv, InLoop
  <2>3. CASE p # 1
    <3>1. e \in Messages
      BY <1>1, <2>1, <2>3 DEF CompletedAt
    <3>2. UNCHANGED <<commsState, cm>>
      BY <1>1, <1>4, <3>1, LoopTransitions DEF HandleEvent
    <3>3. p - 1 \in 1 .. n - 1 /\ (p - 1) + 1 = p
      BY <1>1, <2>3
    <3>4. Completion(commsState)' = Completion(commsState)
      BY <3>2 DEF Completion
    <3>5. \A k \in 1 .. n - 1 : k # p - 1 => commsQueue'[k] \in Messages
      BY <1>1, <2>1, <3>3 DEF CompletedAt
    <3>6. CompletedAt(p - 1)'
      BY <1>1, <1>2, <1>4, <2>1, <3>2, <3>3, <3>4, <3>5 DEF CompletedAt
    <3> HIDE DEF n
    <3>7. QED
      BY <1>1, <3>2, <3>3, <3>6 DEF HandleEvent, EventInv, InLoop
  <2>4. QED
    BY <2>2, <2>3
<1>5. QED
  BY <1>3, <1>4

LEMMA DecodeUFrameEvents ==
  ASSUME IInv, EventInv, DecodeUFrame
  PROVE  EventInv'
<1> DEFINE n == Len(commsQueue)
           e == Received(Head(decodeQueue).kind)
<1>1. /\ Pending \in Nat /\ n \in Nat /\ CommsQueueLength \in Nat
      /\ Head(decodeQueue) \in Frames \cup {Partial}
  BY EventTypes, DecodeTaken DEF DecodeUFrame
<1>2. Head(decodeQueue) \in UFrames
  <2>1. Head(decodeQueue) # Partial
    BY DEF DecodeUFrame, Partial
  <2>2. QED
    BY <1>1, <2>1 DEF DecodeUFrame, UFrames
<1>3. e \in CommsEvents /\ e \in Messages
  <2>1. Head(decodeQueue).kind \in {"conn", "ack", "disc"}
    BY DEF DecodeUFrame
  <2>2. QED
    BY <2>1, ReceivedTypes DEF Received, Messages
<1>4. Pending' \in Nat /\ Pending = Pending' + 1
  BY <1>2, PendingTaken DEF DecodeUFrame
<1>5. n < CommsQueueLength
  BY <1>1, <1>4 DEF EventInv, Spare, CompletedAt, IInv, TypeManager
<1>6. commsQueue' = Append(commsQueue, e)
  BY <1>5 DEF DecodeUFrame, SentToCommsQueue
<1>7. /\ Len(commsQueue') = n + 1 /\ commsQueue'[n + 1] = e
      /\ \A k \in 1 .. n : commsQueue'[k] = commsQueue[k]
  BY <1>3, <1>6, EventAdded
<1>8. UNCHANGED <<commsState, cm>>
  BY DEF DecodeUFrame, manager
<1>9. \A i \in {1, 2} : Spare(i) => Spare(i)'
  <2>1. OnlyMessages(commsQueue) => \A k \in 1 .. n + 1 : commsQueue'[k] \in Messages
    <3>1. \A k \in 1 .. n + 1 : k \in 1 .. n \/ k = n + 1
      BY <1>1
    <3>2. QED
      BY <1>3, <1>7, <3>1 DEF OnlyMessages
  <2>2. (n + 1) + Pending' = n + Pending
    BY <1>1, <1>4
  <2>3. QED
    BY <1>7, <2>1, <2>2 DEF Spare, OnlyMessages
<1>10. \A p \in 1 .. n : CompletedAt(p) => CompletedAt(p)' /\ p \in 1 .. Len(commsQueue')
  <2>1. Completion(commsState)' = Completion(commsState)
    BY <1>8 DEF Completion
  <2>2. SUFFICES ASSUME NEW p \in 1 .. n, CompletedAt(p)
                 PROVE  CompletedAt(p)' /\ p \in 1 .. Len(commsQueue')
    OBVIOUS
  <2>3. \A k \in 1 .. n + 1 : k # p => commsQueue'[k] \in Messages
    <3>1. \A k \in 1 .. n + 1 : k \in 1 .. n \/ k = n + 1
      BY <1>1
    <3>2. QED
      BY <1>3, <1>7, <2>2, <3>1 DEF CompletedAt
  <2>4. (n + 1) + Pending' = n + Pending /\ ((n + 1) - p) + Pending' = (n - p) + Pending
    BY <1>1, <1>4
  <2>5. p \in 1 .. n + 1 /\ commsQueue'[p] = commsQueue[p]
    BY <1>1, <1>7
  <2>6. QED
    BY <1>7, <1>8, <2>1, <2>2, <2>3, <2>4, <2>5 DEF CompletedAt
<1> HIDE DEF n
<1>11. QED
  BY <1>8, <1>9, <1>10 DEF EventInv, InLoop, n

\* Every step keeps the room.
LEMMA EventsNext ==
  ASSUME IInv, IInv', EventInv, Few, [Next]_vars
  PROVE  EventInv'
<1>1. CASE \E f \in ConnUplinks \cup Uplinks : ReadFrame(f)
  <2>1. PICK f \in ConnUplinks \cup Uplinks : ReadFrame(f)
    BY <1>1
  <2>2. cm = "read" /\ cm' = "push" /\ UNCHANGED <<commsState, commsQueue, decodeQueue>>
    BY <2>1 DEF ReadFrame, uplink
  <2>3. Pending' = Pending
    BY <2>2 DEF Pending, UFrames, Frames, Commands, Ids
  <2>4. Spare(2) => Spare(2)'
    BY <2>2, <2>3 DEF Spare, OnlyMessages
  <2>5. QED
    BY <2>2, <2>4 DEF EventInv, InLoop
<1>2. CASE CommsManager
  <2>1. CASE Downlink
    <3>1. /\ cm = "downlink" /\ cm' \in {"downlink", "post"}
          /\ UNCHANGED <<commsState, commsQueue, decodeQueue>>
      BY <2>1 DEF Downlink, uplink
    <3>2. commsState = "DOWNLINKING"
      BY <3>1 DEF IInv, TypeManager, Handlers
    <3>3. Pending' = Pending /\ Pending \in Nat /\ Len(commsQueue) \in Nat /\ CommsQueueLength \in Nat
      BY <3>1, EventTypes DEF Pending, UFrames, Frames, Commands, Ids
    <3>4. Spare(2) => Spare(2)' /\ Spare(1)'
      BY <3>1, <3>3 DEF Spare, OnlyMessages
    <3>5. QED
      BY <3>1, <3>2, <3>4 DEF EventInv, InLoop
  <2>2. QED
    BY <1>2, <2>1, PushChunkEvents, PostCompletionEvents, HandleEventEvents DEF CommsManager
<1>3. CASE Decoder
  <2>1. CASE DecodeNothing \/ DecodeCommands
    <3>1. Pending' <= Pending
      BY <2>1, PendingTaken DEF DecodeNothing, DecodeCommands
    <3>2. QED
      BY <2>1, <3>1, EventsDecoded DEF DecodeNothing, DecodeCommands, manager
  <2>2. CASE PassCommand
    BY <2>2, EventsUntouched DEF PassCommand, manager
  <2>3. QED
    BY <1>3, <2>1, <2>2, DecodeUFrameEvents DEF Decoder
<1>4. CASE ExecuteCommand
  BY <1>4, EventsUntouched DEF ExecuteCommand, manager
<1>5. CASE ExecuteAlarm
  BY <1>5, EventsUntouched DEF ExecuteAlarm, manager, uplink
<1>6. CASE TakeDownlinkReady
  BY <1>6, EventsUntouched DEF TakeDownlinkReady, manager, uplink
<1>7. CASE \E p \in Producers : WriteEncodeQueue(p)
  BY <1>7, EventsUntouched DEF WriteEncodeQueue, manager, uplink
<1>8. CASE Encoder
  BY <1>8, EventsUntouched DEF Encoder, EncodeResponse, EncodeFile, SendTransmit, manager, uplink
<1>9. CASE UNCHANGED vars
  BY <1>9, EventsUntouched DEF vars
<1>10. QED
  BY <1>1, <1>2, <1>3, <1>4, <1>5, <1>6, <1>7, <1>8, <1>9 DEF Next

\* As long as it was never crowded, few U frames wait.
Uncrowded == ~crowded => FewUFrames

\* ... and there is room for the events.
Room == ~crowded => EventInv

LEMMA UncrowdedInit == Init => Uncrowded
BY Zenon DEF Init, Uncrowded

FewOk == FewUFrames <=> Few
LEMMA FewNext == IInv' => FewOk'
<1>1. IInv => FewOk
  BY FewIs DEF FewOk
<1>2. QED
  BY <1>1, PTL

LEMMA UncrowdedNext ==
  ASSUME IInv, IInv', TypeCrowded, Uncrowded, [Next]_vars
  PROVE  Uncrowded'
<1>1. CASE Push
  BY Zenon, <1>1 DEF Push, Uncrowded
<1>2. CASE NoPush
  <2>1. SUFFICES ASSUME ~crowded'
                 PROVE  FewUFrames'
    BY Zenon DEF Uncrowded
  <2>2. Few
    BY Zenon, <1>2, <2>1, FewIs DEF Uncrowded, NoPush
  <2>3. Pending' <= Pending
    <3>1. CASE decodeQueue' = decodeQueue
      <4>1. Pending' = Pending
        BY <3>1 DEF Pending, UFrames, Frames, Commands, Ids
      <4>2. QED
        BY <4>1, EventTypes
    <3>2. CASE decodeQueue # <<>> /\ decodeQueue' = Tail(decodeQueue)
      BY <3>2, PendingTaken
    <3>3. QED
      BY Zenon, <1>2, <3>1, <3>2 DEF NoPush
  <2>4. Pending' \in Nat /\ Pending \in Nat /\ CommsQueueLength \in Nat
    BY EventTypes, PendingNext DEF PendingOk
  <2>5. Few'
    <3>1. Pending + 2 <= CommsQueueLength
      BY <2>2 DEF Few
    <3>2. PICK p \in Nat, q \in Nat : p = Pending /\ q = Pending'
      BY Zenon, <2>4
    <3>3. q <= p /\ p + 2 <= CommsQueueLength
      BY Zenon, <2>3, <3>1, <3>2
    <3>4. q + 2 <= CommsQueueLength
      BY <2>4, <3>3
    <3>5. QED
      BY Zenon, <3>2, <3>4 DEF Few
  <2>6. QED
    BY Zenon, <2>5, FewNext DEF FewOk
<1>3. QED
  BY Zenon, <1>1, <1>2, CrowdedNext

\* The room there is, as long as few U frames wait.
LEMMA EventsCorrect == Spec => [](IInv /\ Uncrowded /\ Room)
<1>1. Init => IInv /\ Room
  <2>1. SUFFICES ASSUME Init
                 PROVE  IInv /\ (FewUFrames => EventInv)
    BY UncrowdedInit DEF Uncrowded, Room
  <2>2. IInv
    BY <2>1, InvInit
  <2>3. /\ Len(commsQueue) = 0 /\ Pending \in Nat /\ CommsQueueLength \in Nat
        /\ commsState = "AWAITING_CONN" /\ cm = "read"
    BY <2>1, <2>2, EventTypes, EmptyQueue DEF Init
  <2>4. FewUFrames => Spare(2)
    BY <2>1, <2>2, <2>3, FewIs DEF Spare, OnlyMessages, Few
  <2>5. QED
    BY <2>2, <2>3, <2>4 DEF EventInv, InLoop
<1>2. IInv /\ TypeCrowded /\ Uncrowded /\ [Next]_vars => IInv' /\ Uncrowded'
  BY InvNext, UncrowdedNext
<1>3. IInv /\ IInv' /\ Uncrowded /\ Room /\ [Next]_vars => Room'
  <2>1. SUFFICES ASSUME IInv, IInv', Uncrowded, Room, [Next]_vars, ~crowded'
                 PROVE  EventInv'
    BY Zenon DEF Room
  <2>2. ~crowded
    BY Zenon, <2>1, CrowdedNext DEF Push, NoPush
  <2>3. EventInv /\ FewUFrames
    BY Zenon, <2>1, <2>2 DEF Room, Uncrowded
  <2>4. Few
    BY <2>1, <2>3, FewIs
  <2>5. QED
    BY <2>1, <2>3, <2>4, EventsNext
<1>4. QED
  BY <1>1, <1>2, <1>3, UncrowdedInit, CrowdedTyped, PTL DEF Spec

\* No event is dropped, for queues and frames of every length and any sequence of frames,
\* until more U frames wait for the decoder at a time than the event queue has places,
\* less two.
THEOREM EventsFitCorrect == Spec => []EventsFit
<1>1. IInv /\ Room => EventsFit
  <2>1. SUFFICES ASSUME IInv, ~crowded => EventInv, ~crowded,
                        \/ cm = "post"
                        \/ /\ todo = <<>> /\ decodeQueue # <<>>
                           /\ Head(decodeQueue).kind \in {"conn", "ack", "disc"}
                 PROVE  Len(commsQueue) < CommsQueueLength
    BY Zenon DEF EventsFit, Room, IsUFrame
  <2>0. EventInv
    BY Zenon, <2>1
  <2>2. Len(commsQueue) \in Nat /\ Pending \in Nat /\ CommsQueueLength \in Nat
    BY <2>1, EventTypes
  <2>3. CASE cm = "post"
    BY <2>0, <2>2, <2>3 DEF EventInv, Spare
  <2>4. CASE decodeQueue # <<>> /\ Head(decodeQueue).kind \in {"conn", "ack", "disc"}
    <3>1. Head(decodeQueue) \in UFrames
      <4>1. Head(decodeQueue) \in Frames \cup {Partial}
        BY <2>1, <2>4, EventTypes, HeadTailProperties
      <4>2. Head(decodeQueue) # Partial
        BY <2>4 DEF Partial
      <4>3. QED
        BY <2>4, <4>1, <4>2 DEF UFrames
    <3>2. Pending >= 1
      <4>1. Times(Tail(decodeQueue), UFrames) \in Nat
            /\ Pending = Times(Tail(decodeQueue), UFrames) + 1
        BY <2>1, <2>4, <3>1, EventTypes, TimesTail DEF Pending
      <4>2. QED
        BY <4>1
    <3>3. QED
      BY <2>0, <2>1, <2>2, <3>2 DEF EventInv, Spare, CompletedAt, IInv, TypeManager
  <2>5. QED
    BY <2>1, <2>3, <2>4
<1>2. QED
  BY <1>1, EventsCorrect, PTL

-----------------------------------------------------------------------------
(* Counting the bytes in packets. *)

\* The bytes of a packet that are of command id, and where in a sequence of packets.
InData(d, id) == {j \in 1 .. ResponseChunks : j \in DOMAIN d /\ d[j] = id}
InAll(ps, id) ==
  {at \in (DOMAIN ps) \X (1 .. ResponseChunks) : at[2] \in DOMAIN ps[at[1]] /\ ps[at[1]][at[2]] = id}
OfData(d, id) == Cardinality(InData(d, id))
OfAll(ps, id) == Cardinality(InAll(ps, id))

\* Pairs with the same first element are as many as their second elements.
LEMMA PairsWithFirst ==
  ASSUME NEW i, NEW S, IsFiniteSet(S)
  PROVE  IsFiniteSet({i} \X S) /\ Cardinality({i} \X S) = Cardinality(S)
<1> DEFINE f == [j \in S |-> <<i, j>>]
           T == {i} \X S
<1>1. f \in [S -> T]
  OBVIOUS
<1>2. \A j, k \in S : f[j] = f[k] => j = k
  OBVIOUS
<1>3. \A t \in T : \E j \in S : f[j] = t
  <2>1. TAKE t \in T
  <2>2. t[2] \in S /\ t = <<i, t[2]>>
    OBVIOUS
  <2>3. QED
    BY <2>2
<1>4. ExistsBijection(S, T)
  <2> HIDE DEF f, T
  <2>1. f \in Bijection(S, T)
    BY <1>1, <1>2, <1>3 DEF Bijection, Injection, Surjection, IsInjective
  <2>2. QED
    BY <2>1 DEF ExistsBijection
<1>5. QED
  BY <1>4, FS_Bijection

LEMMA InDataFinite ==
  ASSUME NEW d, NEW id
  PROVE  IsFiniteSet(InData(d, id)) /\ OfData(d, id) \in Nat
<1>1. IsFiniteSet(1 .. ResponseChunks)
  BY PipelineAssumption, FS_Interval
<1>2. InData(d, id) \subseteq 1 .. ResponseChunks
  BY DEF InData
<1>3. IsFiniteSet(InData(d, id))
  BY <1>1, <1>2, FS_Subset
<1>4. QED
  BY <1>3, FS_CardinalityType DEF OfData

LEMMA InAllFinite ==
  ASSUME NEW X, NEW ps \in Seq(X), NEW id
  PROVE  IsFiniteSet(InAll(ps, id)) /\ OfAll(ps, id) \in Nat
<1>1. IsFiniteSet(1 .. ResponseChunks) /\ IsFiniteSet(1 .. Len(ps))
  BY PipelineAssumption, FS_Interval, LenProperties
<1>2. IsFiniteSet((1 .. Len(ps)) \X (1 .. ResponseChunks))
  BY <1>1, FS_Product
<1>3. InAll(ps, id) \subseteq (1 .. Len(ps)) \X (1 .. ResponseChunks)
  BY LenProperties DEF InAll
<1>4. IsFiniteSet(InAll(ps, id))
  BY <1>2, <1>3, FS_Subset
<1>5. QED
  BY <1>4, FS_CardinalityType DEF OfAll

\* A packet put behind others adds its bytes,
LEMMA AllAppend ==
  ASSUME NEW X, NEW ps \in Seq(X), NEW d \in X, NEW id
  PROVE  OfAll(Append(ps, d), id) = OfAll(ps, id) + OfData(d, id)
<1> DEFINE n == Len(ps)
           r == Append(ps, d)
           C == 1 .. ResponseChunks
           P == InAll(ps, id)
           Q == InAll(r, id)
           D == InData(d, id)
           N == {n + 1} \X D
<1>1. /\ n \in Nat /\ DOMAIN ps = 1 .. n /\ r \in Seq(X) /\ Len(r) = n + 1
      /\ \A j \in 1 .. n : r[j] = ps[j]
      /\ r[n + 1] = d
  BY AppendProperties, LenProperties
<1>2. DOMAIN r = 1 .. n + 1
  BY <1>1, LenProperties
<1>3. IsFiniteSet(P) /\ IsFiniteSet(D) /\ IsFiniteSet(N) /\ Cardinality(N) = Cardinality(D)
  BY InAllFinite, InDataFinite, PairsWithFirst
<1>4. /\ \A at : at \in Q <=> at \in (1 .. n + 1) \X C /\ at[2] \in DOMAIN r[at[1]] /\ r[at[1]][at[2]] = id
      /\ \A at : at \in P <=> at \in (1 .. n) \X C /\ at[2] \in DOMAIN ps[at[1]] /\ ps[at[1]][at[2]] = id
      /\ \A j : j \in D <=> j \in C /\ j \in DOMAIN d /\ d[j] = id
  BY <1>1, <1>2 DEF InAll, InData
<1> HIDE DEF n, r, C, P, Q, D
<1>5. Q = P \cup N
  <2>1. \A at \in Q : at \in P \cup N
    <3>1. TAKE at \in Q
    <3>2. at = <<at[1], at[2]>> /\ at[1] \in 1 .. n + 1 /\ at[2] \in C
      BY <1>4
    <3>3. CASE at[1] = n + 1
      <4>1. at[2] \in D
        BY <1>1, <1>4, <3>2, <3>3
      <4>2. QED
        BY <3>2, <3>3, <4>1
    <3>4. CASE at[1] # n + 1
      <4>1. at[1] \in 1 .. n
        BY <1>1, <3>2, <3>4
      <4>2. at \in (1 .. n) \X C
        BY <3>2, <4>1
      <4>3. QED
        BY <1>1, <1>4, <4>1, <4>2
    <3>5. QED
      BY <3>3, <3>4
  <2>2. \A at \in P : at \in Q
    <3>1. TAKE at \in P
    <3>2. at = <<at[1], at[2]>> /\ at[1] \in 1 .. n /\ at[2] \in C
      BY <1>4
    <3>3. at[1] \in 1 .. n + 1
      BY <1>1, <3>2
    <3>4. at \in (1 .. n + 1) \X C
      BY <3>2, <3>3
    <3>5. QED
      BY <1>1, <1>4, <3>2, <3>4
  <2>3. \A at \in N : at \in Q
    <3>1. TAKE at \in N
    <3>2. at = <<at[1], at[2]>> /\ at[1] = n + 1 /\ at[2] \in D
      OBVIOUS
    <3>3. n + 1 \in 1 .. n + 1 /\ at[2] \in C
      BY <1>1, <1>4, <3>2
    <3>4. at \in (1 .. n + 1) \X C
      BY <3>2, <3>3
    <3>5. QED
      BY <1>1, <1>4, <3>2, <3>4
  <2>4. QED
    BY <2>1, <2>2, <2>3
<1>6. P \cap N = {}
  <2>1. \A at \in P : at[1] \in 1 .. n
    BY <1>4
  <2>2. \A at \in N : at[1] = n + 1
    OBVIOUS
  <2>3. n + 1 \notin 1 .. n
    BY <1>1
  <2>4. QED
    BY <2>1, <2>2, <2>3
<1> HIDE DEF N
<1>7. Cardinality(Q) = Cardinality(P) + Cardinality(D)
  <2>1. Cardinality(P \cup N) = Cardinality(P) + Cardinality(N) - Cardinality(P \cap N)
    BY <1>3, FS_Union
  <2>2. Cardinality(P \cap N) = 0
    BY <1>6, FS_EmptySet
  <2>3. Cardinality(P) \in Nat /\ Cardinality(N) \in Nat
    BY <1>3, FS_CardinalityType
  <2>4. QED
    BY <1>3, <1>5, <2>1, <2>2, <2>3
<1>8. QED
  BY <1>7 DEF P, Q, D, r, OfAll, OfData

\* and the first one taken away takes its own.
LEMMA AllTail ==
  ASSUME NEW X, NEW ps \in Seq(X), ps # <<>>, NEW id
  PROVE  /\ OfAll(Tail(ps), id) \in Nat
         /\ OfAll(ps, id) = OfAll(Tail(ps), id) + OfData(Head(ps), id)
<1> DEFINE r == Tail(ps)
           n == Len(r)
           d == Head(ps)
           C == 1 .. ResponseChunks
           P == InAll(r, id)
           Q == InAll(ps, id)
           D == InData(d, id)
           N == {1} \X D
           M == {at \in Q : at[1] # 1}
           f == [at \in P |-> <<at[1] + 1, at[2]>>]
<1>1. /\ r \in Seq(X) /\ n \in Nat /\ Len(ps) = n + 1
      /\ \A j \in 1 .. n : r[j] = ps[j + 1]
      /\ d = ps[1]
  BY HeadTailProperties, LenProperties, EmptySeq
<1>2. DOMAIN r = 1 .. n /\ DOMAIN ps = 1 .. n + 1
  BY <1>1, LenProperties
<1>3. IsFiniteSet(P) /\ IsFiniteSet(D) /\ IsFiniteSet(N) /\ Cardinality(N) = Cardinality(D)
  BY <1>1, InAllFinite, InDataFinite, PairsWithFirst
<1>4. /\ \A at : at \in P <=> at \in (1 .. n) \X C /\ at[2] \in DOMAIN r[at[1]] /\ r[at[1]][at[2]] = id
      /\ \A at : at \in Q <=> at \in (1 .. n + 1) \X C /\ at[2] \in DOMAIN ps[at[1]] /\ ps[at[1]][at[2]] = id
      /\ \A j : j \in D <=> j \in C /\ j \in DOMAIN d /\ d[j] = id
  BY <1>1, <1>2 DEF InAll, InData
<1> HIDE DEF n, r, d, C, P, Q, D
<1>5. f \in [P -> M]
  <2>1. SUFFICES ASSUME NEW at \in P
                 PROVE  <<at[1] + 1, at[2]>> \in M
    OBVIOUS
  <2>2. at[1] \in 1 .. n /\ at[2] \in C /\ at[2] \in DOMAIN r[at[1]] /\ r[at[1]][at[2]] = id
    BY <1>4
  <2>3. at[1] + 1 \in 1 .. n + 1 /\ at[1] + 1 # 1 /\ r[at[1]] = ps[at[1] + 1]
    BY <1>1, <2>2
  <2>4. <<at[1] + 1, at[2]>> \in Q
    BY <1>4, <2>2, <2>3
  <2>5. QED
    BY <2>3, <2>4
<1>6. \A x, y \in P : f[x] = f[y] => x = y
  <2>1. SUFFICES ASSUME NEW x \in P, NEW y \in P, f[x] = f[y]
                 PROVE  x = y
    OBVIOUS
  <2>2. x = <<x[1], x[2]>> /\ y = <<y[1], y[2]>> /\ x[1] \in Int /\ y[1] \in Int
    BY <1>1, <1>4
  <2>3. x[1] + 1 = y[1] + 1 /\ x[2] = y[2]
    BY <2>1
  <2>4. QED
    BY <2>2, <2>3
<1>7. \A at \in M : \E x \in P : f[x] = at
  <2>1. SUFFICES ASSUME NEW at \in M
                 PROVE  \E x \in P : f[x] = at
    OBVIOUS
  <2>2. /\ at = <<at[1], at[2]>> /\ at[1] \in 1 .. n + 1 /\ at[1] # 1 /\ at[2] \in C
        /\ at[2] \in DOMAIN ps[at[1]] /\ ps[at[1]][at[2]] = id
    BY <1>4
  <2>3. at[1] - 1 \in 1 .. n /\ (at[1] - 1) + 1 = at[1]
    BY <1>1, <2>2
  <2> DEFINE x == <<at[1] - 1, at[2]>>
  <2>4. r[at[1] - 1] = ps[at[1]]
    BY <1>1, <2>3
  <2>5. x \in P
    BY <1>4, <2>2, <2>3, <2>4
  <2>6. f[x] = at
    BY <2>2, <2>3, <2>5
  <2>7. QED
    BY <2>5, <2>6
<1>8. IsFiniteSet(M) /\ Cardinality(M) = Cardinality(P)
  <2> HIDE DEF f, M
  <2>1. f \in Bijection(P, M)
    BY <1>5, <1>6, <1>7 DEF Bijection, Injection, Surjection, IsInjective
  <2>2. ExistsBijection(P, M)
    BY <2>1 DEF ExistsBijection
  <2>3. QED
    BY <1>3, <2>2, FS_Bijection
<1>9. Q = M \cup N
  <2>1. \A at \in N : at \in Q
    <3>1. TAKE at \in N
    <3>2. at = <<at[1], at[2]>> /\ at[1] = 1 /\ at[2] \in D
      OBVIOUS
    <3>3. 1 \in 1 .. n + 1 /\ at[2] \in C
      BY <1>1, <1>4, <3>2
    <3>4. at \in (1 .. n + 1) \X C
      BY <3>2, <3>3
    <3>5. QED
      BY <1>1, <1>4, <3>2, <3>4
  <2>2. \A at \in Q : at[1] = 1 => at \in N
    <3>1. SUFFICES ASSUME NEW at \in Q, at[1] = 1
                   PROVE  at \in N
      OBVIOUS
    <3>2. at = <<at[1], at[2]>> /\ at[2] \in D
      BY <1>1, <1>4, <3>1
    <3>3. QED
      BY <3>1, <3>2
  <2>3. QED
    BY <2>1, <2>2
<1>10. M \cap N = {}
  OBVIOUS
<1> HIDE DEF N, M
<1>11. Cardinality(Q) = Cardinality(P) + Cardinality(D) /\ Cardinality(P) \in Nat
  <2>1. Cardinality(M \cup N) = Cardinality(M) + Cardinality(N) - Cardinality(M \cap N)
    BY <1>3, <1>8, FS_Union
  <2>2. Cardinality(M \cap N) = 0
    BY <1>10, FS_EmptySet
  <2>3. Cardinality(P) \in Nat /\ Cardinality(N) \in Nat
    BY <1>3, FS_CardinalityType
  <2>4. QED
    BY <1>3, <1>8, <1>9, <2>1, <2>2, <2>3
<1>12. QED
  BY <1>11 DEF P, Q, D, r, d, OfAll, OfData

\* A full packet is counted as a sequence of bytes.
LEMMA FullData ==
  ASSUME NEW d \in Seq(Ids), Len(d) = ResponseChunks, NEW id
  PROVE  OfData(d, id) = Times(d, {id})
<1>1. DOMAIN d = 1 .. ResponseChunks
  BY LenProperties
<1>2. InData(d, id) = At(d, {id})
  BY <1>1 DEF InData, At
<1>3. QED
  BY <1>2 DEF OfData, Times

\* One without data holds none.
LEMMA EmptyData == \A id : OfData(<<>>, id) = 0
<1>1. DOMAIN <<>> = {}
  <2>1. <<>> \in Seq({}) /\ Len(<<>>) = 0
    BY EmptySeq
  <2>2. DOMAIN <<>> = 1 .. 0
    BY <2>1, LenProperties
  <2>3. QED
    BY <2>2
<1>2. \A id : InData(<<>>, id) = {}
  BY <1>1 DEF InData
<1>3. QED
  BY <1>2, FS_EmptySet DEF OfData

LEMMA AllEmpty == \A id : OfAll(<<>>, id) = 0
<1>1. DOMAIN <<>> = {}
  <2>1. <<>> \in Seq({}) /\ Len(<<>>) = 0
    BY EmptySeq
  <2>2. DOMAIN <<>> = 1 .. 0
    BY <2>1, LenProperties
  <2>3. QED
    BY <2>2
<1>2. \A id : InAll(<<>>, id) = {}
  BY <1>1 DEF InAll
<1>3. QED
  BY <1>2, FS_EmptySet DEF OfAll

-----------------------------------------------------------------------------
(* No command and no byte of a response is lost. *)

\* The frames NothingLost is about: those with commands decode, and no command is refused.
AnsweredFrames ==
  \A f \in ConnUplinks \cup Uplinks :
    /\ \A k \in DOMAIN f.cmds : f.cmds[k] # "refused"
    /\ f.cmds # <<>> => f.kind \in {"data", "disc"}

\* What such frames bring: commands with numbers of their own.
AnsweredCommands == {c \in Commands : c.kind # "refused"}
GoodFrames ==
  {f \in Frames \cup {Partial} :
     /\ f.cmds \in Seq(AnsweredCommands)
     /\ \A j, k \in 1 .. Len(f.cmds) : f.cmds[j].id = f.cmds[k].id => j = k
     /\ f.cmds # <<>> => f.kind \in {"data", "disc"}}

Good ==
  /\ rx.frame \in GoodFrames
  /\ decodeQueue \in Seq(GoodFrames)
  /\ todo \in Seq(AnsweredCommands)
  /\ commandQueue \in Seq(AnsweredCommands)
  /\ writing["telemetry"] \in Seq({TelemFile})

\* Where a command can wait,
Of(id)       == {c \in Commands : c.id = id}
Carrying(id) == {f \in Frames \cup {Partial} : \E k \in DOMAIN f.cmds : f.cmds[k].id = id}

One(p) == IF p THEN 1 ELSE 0

WaitsOf(id) ==
  One(cm = "push" /\ rx.frame \in Carrying(id)) + Times(decodeQueue, Carrying(id))
  + Times(todo, Of(id)) + Times(commandQueue, Of(id)) + One(id \in alarms)

\* and where the bytes of its response can be: before the encoder, and in packets.
WrittenOf(id) ==
  Times(writing["command"], {Response(id)}) + Times(writing["alarm"], {Response(id)})
  + Times(encodeQueue, {Response(id)}) + Times(cmdResBuffer, {id})

DataOf(q) == [k \in DOMAIN q |-> q[k].data]
PackedOf(id) ==
  OfAll(DataOf(outbox), id) + OfAll(DataOf(transmitQueue), id) + OfAll(downlinked, id)

\* A number that was given waits or has been answered, one that was not is nowhere.
Accounted ==
  \A id \in Ids :
    IF id < nextId
    THEN \/ WaitsOf(id) = 1 /\ WrittenOf(id) = 0 /\ PackedOf(id) = 0
         \/ WaitsOf(id) = 0 /\ WrittenOf(id) + PackedOf(id) = ResponseChunks
    ELSE WaitsOf(id) = 0 /\ WrittenOf(id) = 0 /\ PackedOf(id) = 0

\* These sets do not depend on the state.
LEMMA FixedSets ==
  /\ \A id : Of(id)' = Of(id) /\ Carrying(id)' = Carrying(id)
  /\ GoodFrames' = GoodFrames /\ AnsweredCommands' = AnsweredCommands
  /\ ResponseChunks \in Nat \ {0} /\ Ids \subseteq Nat
BY PipelineAssumption DEF Of, Carrying, GoodFrames, AnsweredCommands, Frames, Commands, Ids

\* What packets hold: after a send,
LEMMA PacketSent ==
  ASSUME NEW q \in Seq(TransmitEvents), NEW p \in TransmitEvents, NEW id
  PROVE  /\ OfAll(DataOf(q), id) \in Nat
         /\ OfAll(DataOf(Append(q, p)), id) = OfAll(DataOf(q), id) + OfData(p.data, id)
<1> DEFINE S == Seq(Ids)
           n == Len(q)
           r == Append(q, p)
<1>1. \A e \in TransmitEvents : e.data \in S
  BY DEF TransmitEvents
<1>2. /\ n \in Nat /\ DOMAIN q = 1 .. n /\ r \in Seq(TransmitEvents) /\ Len(r) = n + 1
      /\ \A j \in 1 .. n : r[j] = q[j]
      /\ r[n + 1] = p
  BY AppendProperties, LenProperties
<1>3. DOMAIN r = 1 .. n + 1
  BY <1>2, LenProperties
<1>4. \A j \in 1 .. n : q[j] \in TransmitEvents
  BY ElementOfSeq
<1> HIDE DEF S, n, r
<1>5. DataOf(q) \in [1 .. n -> S]
  BY <1>1, <1>2, <1>4 DEF DataOf
<1>6. DataOf(q) \in Seq(S) /\ Len(DataOf(q)) = n
  BY <1>2, <1>5, Listed
<1>7. DataOf(r) = Append(DataOf(q), p.data)
  <2> DEFINE a == DataOf(r)
             b == Append(DataOf(q), p.data)
  <2>1. b \in Seq(S) /\ Len(b) = n + 1 /\ b[n + 1] = p.data /\ \A j \in 1 .. n : b[j] = DataOf(q)[j]
    BY <1>1, <1>6, AppendProperties
  <2>2. \A j \in 1 .. n + 1 : a[j] = r[j].data
    BY <1>3 DEF DataOf
  <2>3. \A j \in 1 .. n + 1 : r[j] \in TransmitEvents
    BY <1>2, ElementOfSeq
  <2>4. a \in [1 .. n + 1 -> S]
    BY <1>1, <1>3, <2>3 DEF DataOf
  <2>5. n + 1 \in Nat
    BY <1>2
  <2>6. a \in Seq(S) /\ Len(a) = n + 1
    BY <2>4, <2>5, Listed
  <2>7. \A j \in 1 .. n : b[j] = q[j].data
    BY <1>2, <2>1 DEF DataOf
  <2> HIDE DEF a, b
  <2>8. \A j \in 1 .. n + 1 : j \in 1 .. n \/ j = n + 1
    BY <1>2
  <2>9. \A j \in 1 .. Len(a) : a[j] = b[j]
    BY <1>2, <2>1, <2>2, <2>6, <2>7, <2>8
  <2>10. a = b
    BY <2>1, <2>6, <2>9, SeqEqual
  <2>11. QED
    BY <2>10 DEF a, b
<1>8. OfAll(DataOf(q), id) \in Nat
  BY <1>6, InAllFinite
<1>9. OfAll(Append(DataOf(q), p.data), id) = OfAll(DataOf(q), id) + OfData(p.data, id)
  BY <1>1, <1>6, AllAppend
<1>10. QED
  BY <1>7, <1>8, <1>9 DEF r

\* and after a receive.
LEMMA PacketTaken ==
  ASSUME NEW q \in Seq(TransmitEvents), q # <<>>, NEW id
  PROVE  /\ OfAll(DataOf(Tail(q)), id) \in Nat
         /\ OfAll(DataOf(q), id) = OfAll(DataOf(Tail(q)), id) + OfData(Head(q).data, id)
<1> DEFINE S == Seq(Ids)
           r == Tail(q)
           n == Len(r)
<1>1. \A e \in TransmitEvents : e.data \in S
  BY DEF TransmitEvents
<1>2. /\ r \in Seq(TransmitEvents) /\ n \in Nat /\ Len(q) = n + 1
      /\ \A j \in 1 .. n : r[j] = q[j + 1]
      /\ Head(q) = q[1]
  BY HeadTailProperties, LenProperties, EmptySeq
<1>3. DOMAIN r = 1 .. n /\ DOMAIN q = 1 .. n + 1
  BY <1>2, LenProperties
<1>4. /\ \A j \in 1 .. n + 1 : q[j] \in TransmitEvents
      /\ \A j \in 1 .. n : r[j] \in TransmitEvents
  BY <1>2, ElementOfSeq
<1> HIDE DEF S, n, r
<1>5. DataOf(q) \in [1 .. n + 1 -> S] /\ DataOf(r) \in [1 .. n -> S] /\ n + 1 \in Nat
  BY <1>1, <1>2, <1>3, <1>4 DEF DataOf
<1>6. /\ DataOf(q) \in Seq(S) /\ Len(DataOf(q)) = n + 1
      /\ DataOf(r) \in Seq(S) /\ Len(DataOf(r)) = n
  BY <1>2, <1>5, Listed
<1>7. DataOf(q) # <<>>
  BY <1>2, <1>6, EmptySeq
<1>8. Tail(DataOf(q)) = DataOf(r) /\ Head(DataOf(q)) = Head(q).data
  <2> DEFINE a == Tail(DataOf(q))
             b == DataOf(r)
  <2>1. /\ a \in Seq(S) /\ Len(a) = Len(DataOf(q)) - 1 /\ Head(DataOf(q)) = DataOf(q)[1]
        /\ \A j \in 1 .. Len(DataOf(q)) - 1 : a[j] = DataOf(q)[j + 1]
    BY <1>6, <1>7, HeadTailProperties
  <2>2. /\ \A j \in 1 .. n + 1 : DataOf(q)[j] = q[j].data
        /\ \A j \in 1 .. n : b[j] = r[j].data
    BY <1>3 DEF DataOf
  <2> HIDE DEF a
  <2>3. Len(a) = n /\ \A j \in 1 .. n : a[j] = DataOf(q)[j + 1]
    BY <1>2, <1>6, <2>1
  <2>4. \A j \in 1 .. n : j + 1 \in 1 .. n + 1
    BY <1>2
  <2>5. \A j \in 1 .. n : a[j] = b[j]
    BY <1>2, <2>2, <2>3, <2>4
  <2>6. 1 \in 1 .. n + 1
    BY <1>2
  <2>7. a = b
    BY <1>6, <2>1, <2>3, <2>5, SeqEqual
  <2>8. QED
    BY <1>2, <2>1, <2>2, <2>6, <2>7 DEF a
<1>9. OfAll(DataOf(r), id) \in Nat
  BY <1>6, InAllFinite
<1>10. OfAll(DataOf(q), id) = OfAll(Tail(DataOf(q)), id) + OfData(Head(DataOf(q)), id)
  BY <1>6, <1>7, AllTail
<1>11. QED
  BY <1>8, <1>9, <1>10 DEF r

\* The types of the queues once more.
LEMMA Queues ==
  ASSUME IInv
  PROVE  /\ rx.frame \in Frames \cup {Partial}
         /\ decodeQueue \in Seq(Frames \cup {Partial})
         /\ todo \in Seq(Commands) /\ commandQueue \in Seq(Commands)
         /\ \A p \in Producers : writing[p] \in Seq(EncodeEvents)
         /\ writing \in [Producers -> Seq(EncodeEvents)]
         /\ encodeQueue \in Seq(EncodeEvents)
         /\ cmdResBuffer \in Seq(Ids) /\ Len(cmdResBuffer) < ResponseChunks
         /\ outbox \in Seq(TransmitEvents) /\ transmitQueue \in Seq(TransmitEvents)
         /\ downlinked \in Seq(Seq(Ids)) /\ alarms \subseteq Ids
BY DEF IInv, TypeManager, TypeUplink, TypeDecode, TypeTodo, TypeCommand, TypeSources, TypeWriting,
       TypeAlarms, TypeEncode, TypeEncoder, TypeBuffer, TypeOutbox, TypeTransmit

\* Every summand is a number.
CountsOk ==
  \A id \in Ids :
    /\ Times(decodeQueue, Carrying(id)) \in Nat /\ Times(todo, Of(id)) \in Nat
    /\ Times(commandQueue, Of(id)) \in Nat
    /\ Times(writing["command"], {Response(id)}) \in Nat
    /\ Times(writing["alarm"], {Response(id)}) \in Nat
    /\ Times(encodeQueue, {Response(id)}) \in Nat /\ Times(cmdResBuffer, {id}) \in Nat
    /\ OfAll(DataOf(outbox), id) \in Nat /\ OfAll(DataOf(transmitQueue), id) \in Nat
    /\ OfAll(downlinked, id) \in Nat
    /\ WaitsOf(id) \in Nat /\ WrittenOf(id) \in Nat /\ PackedOf(id) \in Nat

LEMMA Counts == IInv => CountsOk
<1>1. SUFFICES ASSUME IInv, NEW id \in Ids
               PROVE  /\ Times(decodeQueue, Carrying(id)) \in Nat /\ Times(todo, Of(id)) \in Nat
                      /\ Times(commandQueue, Of(id)) \in Nat
                      /\ Times(writing["command"], {Response(id)}) \in Nat
                      /\ Times(writing["alarm"], {Response(id)}) \in Nat
                      /\ Times(encodeQueue, {Response(id)}) \in Nat /\ Times(cmdResBuffer, {id}) \in Nat
                      /\ OfAll(DataOf(outbox), id) \in Nat /\ OfAll(DataOf(transmitQueue), id) \in Nat
                      /\ OfAll(downlinked, id) \in Nat
                      /\ WaitsOf(id) \in Nat /\ WrittenOf(id) \in Nat /\ PackedOf(id) \in Nat
  BY DEF CountsOk
<1>2. Times(decodeQueue, Carrying(id)) \in Nat
  BY <1>1, Queues, TimesTyped
<1>3. Times(todo, Of(id)) \in Nat /\ Times(commandQueue, Of(id)) \in Nat
  BY <1>1, Queues, TimesTyped
<1>4. Times(writing["command"], {Response(id)}) \in Nat /\ Times(writing["alarm"], {Response(id)}) \in Nat
  <2>1. writing["command"] \in Seq(EncodeEvents) /\ writing["alarm"] \in Seq(EncodeEvents)
    BY <1>1, Queues DEF Producers
  <2>2. QED
    BY <2>1, TimesTyped
<1>5. Times(encodeQueue, {Response(id)}) \in Nat
  BY <1>1, Queues, TimesTyped
<1>6. Times(cmdResBuffer, {id}) \in Nat
  BY <1>1, Queues, TimesTyped
<1>7. \A q \in Seq(TransmitEvents) : OfAll(DataOf(q), id) \in Nat
  <2>1. TAKE q \in Seq(TransmitEvents)
  <2>2. End \in TransmitEvents
    BY EmptyQueue DEF End, TransmitEvents
  <2>3. QED
    BY <2>2, PacketSent
<1>8. OfAll(DataOf(outbox), id) \in Nat /\ OfAll(DataOf(transmitQueue), id) \in Nat
  BY <1>1, <1>7, Queues
<1>9. OfAll(downlinked, id) \in Nat
  BY <1>1, Queues, InAllFinite
<1>10. \A p : One(p) \in Nat
  BY DEF One
<1>11. WaitsOf(id) \in Nat /\ WrittenOf(id) \in Nat /\ PackedOf(id) \in Nat
  BY <1>2, <1>3, <1>4, <1>5, <1>6, <1>8, <1>9, <1>10 DEF WaitsOf, WrittenOf, PackedOf
<1>12. QED
  BY <1>2, <1>3, <1>4, <1>5, <1>6, <1>8, <1>9, <1>11

LEMMA CountsNext == IInv' => CountsOk'
BY Counts, PTL

\* A step that moves commands on, and bytes.
LEMMA AccountedMoved ==
  ASSUME Accounted, UNCHANGED nextId,
         \A id \in Ids : WaitsOf(id)' = WaitsOf(id)
                         /\ WrittenOf(id)' = WrittenOf(id) /\ PackedOf(id)' = PackedOf(id)
  PROVE  Accounted'
<1>1. Ids' = Ids
  BY DEF Ids
<1>2. QED
  BY <1>1 DEF Accounted

\* A step that packs bytes, or takes them from the packets it has packed.
LEMMA AccountedPacked ==
  ASSUME IInv, IInv', Accounted, UNCHANGED nextId,
         \A id \in Ids : WaitsOf(id)' = WaitsOf(id)
                         /\ WrittenOf(id)' + PackedOf(id)' = WrittenOf(id) + PackedOf(id)
  PROVE  Accounted'
<1>1. Ids' = Ids
  BY DEF Ids
<1>2. \A id \in Ids : /\ WrittenOf(id) \in Nat /\ PackedOf(id) \in Nat
                      /\ WrittenOf(id)' \in Nat /\ PackedOf(id)' \in Nat
  BY <1>1, Counts, CountsNext DEF CountsOk
<1>3. QED
  BY <1>1, <1>2 DEF Accounted

\* A step that answers command j.
LEMMA AccountedAnswered ==
  ASSUME IInv, IInv', Accounted, UNCHANGED nextId, NEW j \in Ids,
         \A id \in Ids : WaitsOf(id) = WaitsOf(id)' + One(id = j),
         \A id \in Ids : WrittenOf(id)' = WrittenOf(id) + (IF id = j THEN ResponseChunks ELSE 0),
         \A id \in Ids : PackedOf(id)' = PackedOf(id)
  PROVE  Accounted'
<1>1. Ids' = Ids
  BY DEF Ids
<1>2. \A id \in Ids : /\ WaitsOf(id) \in Nat /\ WrittenOf(id) \in Nat /\ PackedOf(id) \in Nat
                      /\ WaitsOf(id)' \in Nat
  BY <1>1, Counts, CountsNext DEF CountsOk
<1>3. SUFFICES ASSUME NEW id \in Ids
               PROVE  IF id < nextId
                      THEN \/ WaitsOf(id)' = 1 /\ WrittenOf(id)' = 0 /\ PackedOf(id)' = 0
                           \/ WaitsOf(id)' = 0 /\ WrittenOf(id)' + PackedOf(id)' = ResponseChunks
                      ELSE WaitsOf(id)' = 0 /\ WrittenOf(id)' = 0 /\ PackedOf(id)' = 0
  BY <1>1 DEF Accounted
<1>4. IF id < nextId
      THEN \/ WaitsOf(id) = 1 /\ WrittenOf(id) = 0 /\ PackedOf(id) = 0
           \/ WaitsOf(id) = 0 /\ WrittenOf(id) + PackedOf(id) = ResponseChunks
      ELSE WaitsOf(id) = 0 /\ WrittenOf(id) = 0 /\ PackedOf(id) = 0
  BY DEF Accounted
<1>5. ResponseChunks \in Nat
  BY FixedSets
<1>6. CASE id = j
  <2>1. WaitsOf(id) = WaitsOf(id)' + 1 /\ WrittenOf(id)' = WrittenOf(id) + ResponseChunks
        /\ PackedOf(id)' = PackedOf(id)
    BY <1>6 DEF One
  <2>2. WaitsOf(id) # 0
    BY <1>2, <2>1
  <2>3. id < nextId /\ WaitsOf(id) = 1 /\ WrittenOf(id) = 0 /\ PackedOf(id) = 0
    BY <1>4, <2>2
  <2>4. WaitsOf(id)' = 0
    BY <1>2, <2>1, <2>3
  <2>5. WrittenOf(id)' + PackedOf(id)' = ResponseChunks
    BY <1>5, <2>1, <2>3
  <2>6. QED
    BY <2>3, <2>4, <2>5
<1>7. CASE id # j
  <2>1. WaitsOf(id) = WaitsOf(id)' + 0 /\ WrittenOf(id)' = WrittenOf(id) + 0
        /\ PackedOf(id)' = PackedOf(id)
    BY <1>7 DEF One
  <2>2. QED
    BY <1>2, <1>4, <2>1
<1>8. QED
  BY <1>6, <1>7

\* What does not change waits where it was.
LEMMA Unmoved ==
  /\ UNCHANGED <<cm, rx, decodeQueue, todo, commandQueue, alarms>> => \A id : WaitsOf(id)' = WaitsOf(id)
  /\ UNCHANGED <<writing, encodeQueue, cmdResBuffer>> => \A id : WrittenOf(id)' = WrittenOf(id)
  /\ UNCHANGED <<outbox, transmitQueue, downlinked>> => \A id : PackedOf(id)' = PackedOf(id)
  /\ Good /\ UNCHANGED <<rx, decodeQueue, todo, commandQueue, writing>> => Good'
<1>1. \A id : Response(id)' = Response(id)
  BY DEF Response
<1>2. UNCHANGED <<cm, rx, decodeQueue, todo, commandQueue, alarms>> => \A id : WaitsOf(id)' = WaitsOf(id)
  BY FixedSets DEF WaitsOf
<1>3. UNCHANGED <<writing, encodeQueue, cmdResBuffer>> => \A id : WrittenOf(id)' = WrittenOf(id)
  BY <1>1 DEF WrittenOf
<1>4. UNCHANGED <<outbox, transmitQueue, downlinked>> => \A id : PackedOf(id)' = PackedOf(id)
  BY DEF PackedOf
<1>5. Good /\ UNCHANGED <<rx, decodeQueue, todo, commandQueue, writing>> => Good'
  BY FixedSets DEF Good, TelemFile
<1>6. QED
  BY <1>2, <1>3, <1>4, <1>5

\* The good ones are frames and commands.
LEMMA GoodAre ==
  /\ AnsweredCommands \subseteq Commands
  /\ GoodFrames \subseteq Frames \cup {Partial}
  /\ Partial \in GoodFrames
  /\ \A f \in GoodFrames : f.cmds \in Seq(AnsweredCommands) /\ (f.cmds # <<>> => f.kind \in {"data", "disc"})
<1>1. Partial \in GoodFrames
  <2>1. Partial.cmds = <<>> /\ <<>> \in Seq(AnsweredCommands) /\ Len(<<>>) = 0
    BY EmptySeq DEF Partial
  <2>2. \A j \in 1 .. Len(Partial.cmds) : FALSE
    BY <2>1
  <2>3. Partial \in Frames \cup {Partial} /\ Partial.cmds \in Seq(AnsweredCommands)
    BY <2>1
  <2>4. QED
    BY <2>1, <2>2, <2>3 DEF GoodFrames
<1>2. QED
  BY <1>1 DEF AnsweredCommands, GoodFrames

\* A frame has a command once or not at all.
LEMMA CarriedOnce ==
  ASSUME NEW f \in GoodFrames, NEW id
  PROVE  Times(f.cmds, Of(id)) = One(f \in Carrying(id))
<1> DEFINE s == f.cmds
           n == Len(s)
           P == At(s, Of(id))
<1>1. /\ s \in Seq(Commands) /\ f \in Frames \cup {Partial}
      /\ \A j, k \in 1 .. n : s[j].id = s[k].id => j = k
  <2>1. s \in Seq(AnsweredCommands)
    BY DEF GoodFrames
  <2>2. s \in Seq(Commands)
    BY <2>1, GoodAre, SeqMonotonic
  <2>3. QED
    BY <2>2 DEF GoodFrames
<1>2. DOMAIN s = 1 .. n /\ \A k \in 1 .. n : s[k] \in Commands
  BY <1>1, LenProperties, ElementOfSeq
<1>3. \A k : k \in P <=> k \in 1 .. n /\ s[k].id = id
  BY <1>2 DEF At, Of
<1>4. f \in Carrying(id) <=> \E k \in 1 .. n : s[k].id = id
  BY <1>1, <1>2 DEF Carrying
<1> HIDE DEF s, n, P
<1>5. CASE f \in Carrying(id)
  <2>1. PICK k \in 1 .. n : s[k].id = id
    BY <1>4, <1>5
  <2>2. P = {k}
    BY <1>1, <1>3, <2>1
  <2>3. Cardinality(P) = 1
    BY <2>2, FS_Singleton
  <2>4. QED
    BY <1>5, <2>3 DEF One, Times, P, s
<1>6. CASE f \notin Carrying(id)
  <2>1. P = {}
    BY <1>3, <1>4, <1>6
  <2>2. Cardinality(P) = 0
    BY <2>1, FS_EmptySet
  <2>3. QED
    BY <1>6, <2>2 DEF One, Times, P, s
<1>7. QED
  BY <1>5, <1>6

\* A frame without commands carries none.
LEMMA CarriesNone ==
  ASSUME NEW f, f.cmds = <<>>, NEW id
  PROVE  f \notin Carrying(id)
<1>1. <<>> \in Seq({}) /\ Len(<<>>) = 0
  BY EmptySeq
<1>2. DOMAIN <<>> = 1 .. 0
  BY <1>1, LenProperties
<1>3. QED
  BY <1>2 DEF Carrying

-----------------------------------------------------------------------------
(* The way of a frame to the command manager. *)

\* The numbers a frame gets are the next ones.
LEMMA NewNumbers ==
  ASSUME AnsweredFrames, IInv, NEW f \in ConnUplinks \cup Uplinks, nextId + Len(f.cmds) <= MaxCommands + 1
  PROVE  LET g == [kind |-> f.kind, cmds |-> Numbered(f.cmds)]
         IN  /\ g \in GoodFrames
             /\ Len(f.cmds) \in Nat
             /\ \A id \in Ids : g \in Carrying(id) <=> id >= nextId /\ id < nextId + Len(f.cmds)
<1> DEFINE s == f.cmds
           t == Numbered(s)
           n == Len(s)
           g == [kind |-> f.kind, cmds |-> t]
<1>1. /\ f.kind \in FrameKinds /\ s \in Seq(CommandKinds)
  BY PipelineAssumption
<1>2. n \in Nat /\ DOMAIN s = 1 .. n /\ nextId \in Nat \ {0} /\ Ids = 1 .. MaxCommands /\ MaxCommands \in Nat
  BY <1>1, LenProperties, PipelineAssumption DEF IInv, TypeGround, Ids
<1>3. t \in Seq(Commands) /\ g \in Frames
  <2>1. t \in Seq(Commands)
    BY <1>1, NumberedTypes DEF IInv, TypeGround
  <2>2. QED
    BY <1>1, <2>1 DEF Frames
<1>4. t = [k \in 1 .. n |-> [id |-> nextId + k - 1, kind |-> s[k]]]
  BY <1>2 DEF Numbered
<1>5. \A k \in 1 .. n : t[k].id = nextId + k - 1 /\ t[k].kind = s[k]
  BY <1>4
<1>6. Len(t) = n
  <2>1. DOMAIN t = 1 .. n /\ DOMAIN t = 1 .. Len(t) /\ Len(t) \in Nat
    BY <1>3, <1>4, LenProperties
  <2>2. QED
    BY <1>2, <2>1
<1>7. t \in Seq(AnsweredCommands)
  <2>1. \A k \in 1 .. n : t[k] \in Commands
    BY <1>3, <1>6, ElementOfSeq
  <2>2. \A k \in 1 .. n : s[k] # "refused"
    BY <1>2 DEF AnsweredFrames
  <2>3. \A k \in 1 .. n : t[k] \in AnsweredCommands
    BY <1>5, <2>1, <2>2 DEF AnsweredCommands
  <2>4. t \in [1 .. n -> AnsweredCommands]
    <3>1. DOMAIN t = 1 .. n /\ t = [k \in 1 .. n |-> t[k]]
      BY <1>4
    <3> HIDE DEF t
    <3>2. QED
      BY <2>3, <3>1
  <2> HIDE DEF t
  <2>5. QED
    BY <1>2, <2>4, Listed
<1>8. t # <<>> => g.kind \in {"data", "disc"}
  <2>1. s = <<>> => n = 0
    BY EmptySeq
  <2>2. n = 0 => t = <<>>
    BY <1>3, <1>6, EmptySeq
  <2>3. QED
    BY <2>1, <2>2 DEF AnsweredFrames
<1>9. g \in GoodFrames
  <2>1. g.cmds = t /\ g \in Frames \cup {Partial}
    BY <1>3
  <2>2. \A j, k \in 1 .. n : t[j].id = t[k].id => j = k
    BY <1>2, <1>5
  <2> HIDE DEF g, t
  <2>3. QED
    BY <1>6, <1>7, <1>8, <2>1, <2>2 DEF GoodFrames
<1>10. ASSUME NEW id \in Ids
       PROVE  g \in Carrying(id) <=> id >= nextId /\ id < nextId + n
  <2>1. g \in Carrying(id) <=> \E k \in 1 .. n : t[k].id = id
    <3>1. g.cmds = t /\ g \in Frames \cup {Partial} /\ DOMAIN t = 1 .. n
      BY <1>3, <1>4
    <3> HIDE DEF g, t
    <3>2. QED
      BY <3>1 DEF Carrying
  <2>2. (\E k \in 1 .. n : t[k].id = id) <=> \E k \in 1 .. n : nextId + k - 1 = id
    BY <1>5
  <2>3. (\E k \in 1 .. n : nextId + k - 1 = id) <=> id >= nextId /\ id < nextId + n
    <3>1. ASSUME id >= nextId, id < nextId + n
          PROVE  \E k \in 1 .. n : nextId + k - 1 = id
      <4>1. id - nextId + 1 \in 1 .. n /\ nextId + (id - nextId + 1) - 1 = id
        BY <1>2, <3>1
      <4>2. QED
        BY <4>1
    <3>2. ASSUME NEW k \in 1 .. n, nextId + k - 1 = id
          PROVE  id >= nextId /\ id < nextId + n
      BY <1>2, <3>2
    <3>3. QED
      BY <3>1, <3>2
  <2>4. QED
    BY <2>1, <2>2, <2>3
<1>11. QED
  BY <1>2, <1>9, <1>10

LEMMA ReadFrameKept ==
  ASSUME AnsweredFrames, IInv, IInv', Good, Accounted, NEW f \in ConnUplinks \cup Uplinks, ReadFrame(f)
  PROVE  Good' /\ Accounted'
<1> DEFINE g == [kind |-> f.kind, cmds |-> Numbered(f.cmds)]
           n == Len(f.cmds)
<1>1. /\ g \in GoodFrames /\ n \in Nat
      /\ \A id \in Ids : g \in Carrying(id) <=> id >= nextId /\ id < nextId + n
  BY NewNumbers DEF ReadFrame
<1>2. /\ rx'.frame = g /\ cm = "read" /\ cm' = "push" /\ nextId' = nextId + n
      /\ UNCHANGED <<decodeQueue, todo, commandQueue, alarms, writing, encodeQueue, cmdResBuffer,
                     outbox, transmitQueue, downlinked>>
  BY DEF ReadFrame, uplink, sources, encoder
<1>3. Good'
  BY <1>1, <1>2, FixedSets DEF Good, TelemFile
<1> HIDE DEF g, n
<1>4. \A id : WrittenOf(id)' = WrittenOf(id) /\ PackedOf(id)' = PackedOf(id)
  BY <1>2, Unmoved
<1>5. \A id \in Ids : WaitsOf(id)' = WaitsOf(id) + One(id >= nextId /\ id < nextId + n)
  <2>1. SUFFICES ASSUME NEW id \in Ids
                 PROVE  WaitsOf(id)' = WaitsOf(id) + One(id >= nextId /\ id < nextId + n)
    OBVIOUS
  <2>2. One(cm = "push" /\ rx.frame \in Carrying(id)) = 0
    BY <1>2 DEF One
  <2>3. One(cm = "push" /\ rx.frame \in Carrying(id))' = One(id >= nextId /\ id < nextId + n)
    BY <1>1, <1>2, FixedSets DEF One
  <2>4. /\ Times(decodeQueue, Carrying(id))' = Times(decodeQueue, Carrying(id))
        /\ Times(todo, Of(id))' = Times(todo, Of(id))
        /\ Times(commandQueue, Of(id))' = Times(commandQueue, Of(id))
        /\ One(id \in alarms)' = One(id \in alarms)
    BY <1>2, FixedSets
  <2>5. /\ Times(decodeQueue, Carrying(id)) \in Nat /\ Times(todo, Of(id)) \in Nat
        /\ Times(commandQueue, Of(id)) \in Nat
    BY Counts DEF CountsOk
  <2>6. One(id \in alarms) \in Nat /\ One(id >= nextId /\ id < nextId + n) \in Nat
    BY DEF One
  <2>7. QED
    BY <2>2, <2>3, <2>4, <2>5, <2>6 DEF WaitsOf
<1>6. Accounted'
  <2>1. Ids' = Ids /\ Ids \subseteq Nat /\ nextId \in Nat
    BY PipelineAssumption DEF Ids, IInv, TypeGround
  <2>2. SUFFICES ASSUME NEW id \in Ids
                 PROVE  IF id < nextId'
                        THEN \/ WaitsOf(id)' = 1 /\ WrittenOf(id)' = 0 /\ PackedOf(id)' = 0
                             \/ WaitsOf(id)' = 0 /\ WrittenOf(id)' + PackedOf(id)' = ResponseChunks
                        ELSE WaitsOf(id)' = 0 /\ WrittenOf(id)' = 0 /\ PackedOf(id)' = 0
    BY <2>1 DEF Accounted
  <2>3. IF id < nextId
        THEN \/ WaitsOf(id) = 1 /\ WrittenOf(id) = 0 /\ PackedOf(id) = 0
             \/ WaitsOf(id) = 0 /\ WrittenOf(id) + PackedOf(id) = ResponseChunks
        ELSE WaitsOf(id) = 0 /\ WrittenOf(id) = 0 /\ PackedOf(id) = 0
    BY DEF Accounted
  <2>4. CASE id < nextId
    <3>1. WaitsOf(id)' = WaitsOf(id) + 0
      BY <1>5, <2>1, <2>4 DEF One
    <3>2. id < nextId'
      BY <1>1, <1>2, <2>1, <2>4
    <3>3. QED
      BY <1>4, <2>3, <2>4, <3>1, <3>2
  <2>5. CASE id >= nextId /\ id < nextId + n
    <3>1. WaitsOf(id)' = WaitsOf(id) + 1
      BY <1>5, <2>5 DEF One
    <3>2. id < nextId' /\ ~(id < nextId)
      BY <1>1, <1>2, <2>1, <2>5
    <3>3. QED
      BY <1>4, <2>3, <3>1, <3>2
  <2>6. CASE id >= nextId + n
    <3>1. ~(id < nextId) /\ ~(id < nextId + n)
      BY <1>1, <2>1, <2>6
    <3>2. WaitsOf(id)' = WaitsOf(id) + 0
      BY <1>5, <3>1 DEF One
    <3>3. QED
      BY <1>2, <1>4, <2>3, <3>1, <3>2
  <2>7. QED
    BY <1>1, <2>1, <2>4, <2>5, <2>6
<1>7. QED
  BY <1>3, <1>6

\* Where the summands of a command that waits are numbers, only the ones that change count.
LEMMA WaitsParts ==
  ASSUME IInv, IInv', NEW id \in Ids
  PROVE  /\ Times(decodeQueue, Carrying(id)) \in Nat /\ Times(decodeQueue', Carrying(id)) \in Nat
         /\ Times(todo, Of(id)) \in Nat /\ Times(todo', Of(id)) \in Nat
         /\ Times(commandQueue, Of(id)) \in Nat /\ Times(commandQueue', Of(id)) \in Nat
         /\ \A p : One(p) \in Nat
         /\ WaitsOf(id)' =
              One(cm' = "push" /\ rx'.frame \in Carrying(id)) + Times(decodeQueue', Carrying(id))
              + Times(todo', Of(id)) + Times(commandQueue', Of(id)) + One(id \in alarms')
<1>1. Ids' = Ids /\ Of(id)' = Of(id) /\ Carrying(id)' = Carrying(id)
  BY FixedSets DEF Ids
<1>2. /\ Times(decodeQueue, Carrying(id)) \in Nat /\ Times(decodeQueue', Carrying(id)) \in Nat
      /\ Times(todo, Of(id)) \in Nat /\ Times(todo', Of(id)) \in Nat
      /\ Times(commandQueue, Of(id)) \in Nat /\ Times(commandQueue', Of(id)) \in Nat
  BY <1>1, Counts, CountsNext DEF CountsOk
<1>3. \A p : One(p) \in Nat
  BY DEF One
<1>4. WaitsOf(id)' =
        One(cm' = "push" /\ rx'.frame \in Carrying(id)) + Times(decodeQueue', Carrying(id))
        + Times(todo', Of(id)) + Times(commandQueue', Of(id)) + One(id \in alarms')
  BY <1>1 DEF WaitsOf, One
<1>5. QED
  BY <1>2, <1>3, <1>4

\* The bytes are where they were: commands only.
LEMMA OnlyWaits ==
  ASSUME Accounted,
         UNCHANGED <<writing, encodeQueue, cmdResBuffer, outbox, transmitQueue, downlinked, nextId>>,
         \A id \in Ids : WaitsOf(id)' = WaitsOf(id)
  PROVE  Accounted'
BY Unmoved, AccountedMoved

\* The last chunk takes the frame with it.
LEMMA PushChunkKept ==
  ASSUME IInv, IInv', Good, Accounted, PushChunk
  PROVE  Good' /\ Accounted'
<1>1. /\ cm = "push" /\ rx.left \in Nat \ {0}
      /\ UNCHANGED <<todo, commandQueue, alarms, writing, encodeQueue, cmdResBuffer, outbox,
                     transmitQueue, downlinked, nextId>>
  BY PipelineAssumption DEF PushChunk, IInv, TypeManager, Handlers, sources, encoder, ground
<1>2. rx'.frame = rx.frame
  BY DEF PushChunk, IInv, TypeManager
<1>3. rx.frame \in GoodFrames /\ Partial \in GoodFrames /\ decodeQueue \in Seq(GoodFrames)
  BY GoodAre DEF Good
<1>4. Good'
  <2>1. decodeQueue' \in Seq(GoodFrames)
    BY <1>3, AppendProperties DEF PushChunk
  <2>2. QED
    BY <1>1, <1>2, <2>1, FixedSets DEF Good, TelemFile
<1>5. ASSUME NEW id \in Ids
      PROVE  WaitsOf(id)' = WaitsOf(id)
  <2> DEFINE D == Times(decodeQueue, Carrying(id))
             D1 == Times(decodeQueue', Carrying(id))
             P == One(cm = "push" /\ rx.frame \in Carrying(id))
             P1 == One(cm' = "push" /\ rx'.frame \in Carrying(id))
             T == Times(todo, Of(id))
             C == Times(commandQueue, Of(id))
             A == One(id \in alarms)
  <2>1. D \in Nat /\ D1 \in Nat /\ P \in Nat /\ P1 \in Nat /\ T \in Nat /\ C \in Nat /\ A \in Nat
    BY WaitsParts
  <2>2. P + D = P1 + D1
    <3>1. CASE rx.left = 1
      <4>1. D1 = D + (IF rx.frame \in Carrying(id) THEN 1 ELSE 0)
        BY <1>3, <3>1, TimesAppend DEF PushChunk
      <4>2. P = (IF rx.frame \in Carrying(id) THEN 1 ELSE 0) /\ P1 = 0
        BY <1>1, <3>1 DEF PushChunk, One
      <4> HIDE DEF D, D1, P, P1
      <4>3. QED
        BY <2>1, <4>1, <4>2
    <3>2. CASE rx.left > 1
      <4>1. Partial \notin Carrying(id)
        BY CarriesNone DEF Partial
      <4>2. D1 = D + 0
        <5>1. D1 = D + (IF Partial \in Carrying(id) THEN 1 ELSE 0)
          BY <1>1, <1>3, <3>2, TimesAppend DEF PushChunk
        <5>2. QED
          BY <4>1, <5>1
      <4>3. P1 = P
        BY <1>1, <1>2, <3>2 DEF PushChunk
      <4> HIDE DEF D, D1, P, P1
      <4>4. QED
        BY <2>1, <4>2, <4>3
    <3>3. QED
      BY <1>1, <3>1, <3>2
  <2>3. WaitsOf(id) = P + D + T + C + A
    BY DEF WaitsOf
  <2>4. WaitsOf(id)' = P1 + D1 + T + C + A
    BY <1>1, WaitsParts
  <2> HIDE DEF D, D1, P, P1, T, C, A
  <2>5. QED
    BY <2>1, <2>2, <2>3, <2>4
<1>6. QED
  BY <1>1, <1>4, <1>5, OnlyWaits

\* What the decoder takes from its queue, and passes on or not.
LEMMA DecodeKept ==
  ASSUME IInv, IInv', Good, Accounted, todo = <<>>, decodeQueue # <<>>,
         decodeQueue' = Tail(decodeQueue), todo' = Head(decodeQueue).cmds,
         UNCHANGED <<cm, rx, commandQueue, alarms, writing, encodeQueue, cmdResBuffer, outbox,
                     transmitQueue, downlinked, nextId>>
  PROVE  Good' /\ Accounted'
<1> DEFINE f == Head(decodeQueue)
<1>1. f \in GoodFrames /\ decodeQueue \in Seq(GoodFrames) /\ decodeQueue' \in Seq(GoodFrames)
  BY HeadTailProperties DEF Good
<1>2. Good'
  <2>1. f.cmds \in Seq(AnsweredCommands)
    BY <1>1, GoodAre
  <2>2. QED
    BY <1>1, <2>1, FixedSets DEF Good, TelemFile
<1>3. ASSUME NEW id \in Ids
      PROVE  WaitsOf(id)' = WaitsOf(id)
  <2> DEFINE D == Times(decodeQueue, Carrying(id))
             D1 == Times(decodeQueue', Carrying(id))
             P == One(cm = "push" /\ rx.frame \in Carrying(id))
             T == Times(todo, Of(id))
             T1 == Times(todo', Of(id))
             C == Times(commandQueue, Of(id))
             A == One(id \in alarms)
  <2>1. D \in Nat /\ D1 \in Nat /\ P \in Nat /\ T \in Nat /\ T1 \in Nat /\ C \in Nat /\ A \in Nat
    BY WaitsParts
  <2>2. T = 0
    BY TimesEmpty
  <2>3. T1 = One(f \in Carrying(id))
    BY <1>1, CarriedOnce
  <2>4. D = D1 + (IF f \in Carrying(id) THEN 1 ELSE 0)
    BY <1>1, TimesTail
  <2>5. WaitsOf(id) = P + D + T + C + A
    BY DEF WaitsOf
  <2>6. WaitsOf(id)' = P + D1 + T1 + C + A
    BY WaitsParts
  <2> HIDE DEF D, D1, P, T, T1, C, A
  <2>7. QED
    BY <2>1, <2>2, <2>3, <2>4, <2>5, <2>6 DEF One
<1>4. QED
  BY <1>2, <1>3, OnlyWaits

LEMMA DecodeNothingKept ==
  ASSUME IInv, IInv', Good, Accounted, DecodeNothing
  PROVE  Good' /\ Accounted'
<1>1. Head(decodeQueue) \in GoodFrames
  BY HeadTailProperties DEF Good, DecodeNothing
<1>2. Head(decodeQueue).cmds = <<>>
  BY <1>1, GoodAre DEF DecodeNothing
<1>3. QED
  BY <1>2, DecodeKept DEF DecodeNothing, manager, sources, encoder, ground

LEMMA DecodeCommandsKept ==
  ASSUME IInv, IInv', Good, Accounted, DecodeCommands
  PROVE  Good' /\ Accounted'
BY DecodeKept DEF DecodeCommands, manager, sources, encoder, ground

\* The event of a frame fits, so that its commands are passed on.
LEMMA DecodeUFrameKept ==
  ASSUME IInv, IInv', Good, Accounted, EventsFit, ~crowded, DecodeUFrame
  PROVE  Good' /\ Accounted'
<1> DEFINE f == Head(decodeQueue)
<1>1. f \in GoodFrames
  BY HeadTailProperties DEF Good, DecodeUFrame
<1>2. f.kind # "disc" => f.cmds = <<>>
  BY <1>1, GoodAre DEF DecodeUFrame
<1>3. commsQueue' # commsQueue
  <2>1. commsQueue' = Append(commsQueue, Received(f.kind))
    <3>1. Len(commsQueue) < CommsQueueLength
      BY Zenon DEF EventsFit, DecodeUFrame, IsUFrame
    <3>2. QED
      BY <3>1 DEF DecodeUFrame, SentToCommsQueue
  <2>2. Received(f.kind) \in CommsEvents
    BY ReceivedTypes DEF DecodeUFrame
  <2>3. Len(commsQueue') = Len(commsQueue) + 1 /\ Len(commsQueue) \in Nat
    BY <2>1, <2>2, EventAdded, EventTypes
  <2>4. QED
    BY <2>3
<1>4. todo' = f.cmds
  BY <1>2, <1>3 DEF DecodeUFrame
<1>5. QED
  BY <1>4, DecodeKept DEF DecodeUFrame, manager, sources, encoder, ground

LEMMA PassCommandKept ==
  ASSUME IInv, IInv', Good, Accounted, PassCommand
  PROVE  Good' /\ Accounted'
<1> DEFINE c == Head(todo)
<1>1. /\ todo # <<>> /\ todo' = Tail(todo) /\ commandQueue' = Append(commandQueue, c)
      /\ UNCHANGED <<cm, rx, decodeQueue, alarms, writing, encodeQueue, cmdResBuffer, outbox,
                     transmitQueue, downlinked, nextId>>
  BY DEF PassCommand, manager, sources, encoder, ground
<1>2. /\ todo \in Seq(AnsweredCommands) /\ commandQueue \in Seq(AnsweredCommands)
      /\ c \in AnsweredCommands /\ todo' \in Seq(AnsweredCommands)
  BY <1>1, HeadTailProperties DEF Good
<1>3. Good'
  <2>1. commandQueue' \in Seq(AnsweredCommands)
    BY <1>1, <1>2, AppendProperties
  <2>2. QED
    BY <1>1, <1>2, <2>1, FixedSets DEF Good, TelemFile
<1>4. ASSUME NEW id \in Ids
      PROVE  WaitsOf(id)' = WaitsOf(id)
  <2> DEFINE D == Times(decodeQueue, Carrying(id))
             P == One(cm = "push" /\ rx.frame \in Carrying(id))
             T == Times(todo, Of(id))
             T1 == Times(todo', Of(id))
             C == Times(commandQueue, Of(id))
             C1 == Times(commandQueue', Of(id))
             A == One(id \in alarms)
  <2>1. D \in Nat /\ P \in Nat /\ T \in Nat /\ T1 \in Nat /\ C \in Nat /\ C1 \in Nat /\ A \in Nat
    BY WaitsParts
  <2>2. T = T1 + (IF c \in Of(id) THEN 1 ELSE 0)
    BY <1>1, <1>2, TimesTail
  <2>3. C1 = C + (IF c \in Of(id) THEN 1 ELSE 0)
    BY <1>1, <1>2, TimesAppend
  <2>4. WaitsOf(id) = P + D + T + C + A
    BY DEF WaitsOf
  <2>5. WaitsOf(id)' = P + D + T1 + C1 + A
    BY <1>1, WaitsParts
  <2> HIDE DEF D, P, T, T1, C, C1, A
  <2>6. QED
    BY <2>1, <2>2, <2>3, <2>4, <2>5
<1>5. QED
  BY <1>1, <1>3, <1>4, OnlyWaits

-----------------------------------------------------------------------------
(* The tasks that answer. *)

\* A response is as many bytes of its command as it has chunks, and of no other.
LEMMA ResponseTimes ==
  ASSUME NEW j \in Ids, NEW id \in Ids
  PROVE  Times(ResponseBytes(j), {Response(id)}) = IF id = j THEN ResponseChunks ELSE 0
<1>1. ResponseChunks \in Nat
  BY PipelineAssumption
<1>2. At(ResponseBytes(j), {Response(id)}) = IF id = j THEN 1 .. ResponseChunks ELSE {}
  BY DEF At, ResponseBytes, Response
<1>3. Cardinality(1 .. ResponseChunks) = ResponseChunks
  <2>1. 1 \in Int /\ ResponseChunks \in Int
    BY <1>1
  <2>2. QED
    BY <1>1, <2>1, FS_Interval
<1>4. Cardinality({}) = 0
  BY FS_EmptySet
<1>5. CASE id = j
  BY <1>2, <1>3, <1>5 DEF Times
<1>6. CASE id # j
  BY <1>2, <1>4, <1>6 DEF Times
<1>7. QED
  BY <1>5, <1>6

\* The numbers that make up what was written, as WaitsParts for what waits.
LEMMA WrittenParts ==
  ASSUME IInv, IInv', NEW id \in Ids
  PROVE  /\ \A p \in {"command", "alarm"} : /\ Times(writing[p], {Response(id)}) \in Nat
                                            /\ Times(writing'[p], {Response(id)}) \in Nat
         /\ Times(encodeQueue, {Response(id)}) \in Nat /\ Times(encodeQueue', {Response(id)}) \in Nat
         /\ Times(cmdResBuffer, {id}) \in Nat /\ Times(cmdResBuffer', {id}) \in Nat
         /\ WrittenOf(id)' =
              Times(writing'["command"], {Response(id)}) + Times(writing'["alarm"], {Response(id)})
              + Times(encodeQueue', {Response(id)}) + Times(cmdResBuffer', {id})
<1>1. Ids' = Ids /\ Response(id)' = Response(id)
  BY DEF Ids, Response
<1>2. /\ \A p \in {"command", "alarm"} : /\ Times(writing[p], {Response(id)}) \in Nat
                                         /\ Times(writing'[p], {Response(id)}) \in Nat
      /\ Times(encodeQueue, {Response(id)}) \in Nat /\ Times(encodeQueue', {Response(id)}) \in Nat
      /\ Times(cmdResBuffer, {id}) \in Nat /\ Times(cmdResBuffer', {id}) \in Nat
  BY <1>1, Counts, CountsNext DEF CountsOk
<1>3. QED
  BY <1>1, <1>2 DEF WrittenOf

\* One task is answering: its bytes are added.
LEMMA AnswerKept ==
  ASSUME IInv, IInv', NEW p \in {"command", "alarm"}, NEW j \in Ids,
         writing[p] = <<>>, writing' = [writing EXCEPT ![p] = ResponseBytes(j)],
         UNCHANGED <<encodeQueue, cmdResBuffer>>, NEW id \in Ids
  PROVE  WrittenOf(id)' = WrittenOf(id) + (IF id = j THEN ResponseChunks ELSE 0)
<1> DEFINE n == IF id = j THEN ResponseChunks ELSE 0
           W == Times(writing["command"], {Response(id)})
           W1 == Times(writing'["command"], {Response(id)})
           A == Times(writing["alarm"], {Response(id)})
           A1 == Times(writing'["alarm"], {Response(id)})
           Q == Times(encodeQueue, {Response(id)})
           B == Times(cmdResBuffer, {id})
<1>1. W \in Nat /\ W1 \in Nat /\ A \in Nat /\ A1 \in Nat /\ Q \in Nat /\ B \in Nat /\ n \in Nat
  BY WrittenParts, PipelineAssumption
<1>2. Times(<<>>, {Response(id)}) = 0 /\ Times(ResponseBytes(j), {Response(id)}) = n
  BY TimesEmpty, ResponseTimes
<1>3. writing \in [Producers -> Seq(EncodeEvents)]
  BY Queues
<1>4. W1 + A1 = W + A + n
  <2>1. CASE p = "command"
    <3>1. writing'["command"] = ResponseBytes(j) /\ writing'["alarm"] = writing["alarm"]
      BY <1>3, <2>1 DEF Producers
    <3>2. W = 0 /\ W1 = n /\ A1 = A
      BY <1>2, <2>1, <3>1
    <3> HIDE DEF W, W1, A, A1, n
    <3>3. QED
      BY <1>1, <3>2
  <2>2. CASE p = "alarm"
    <3>1. writing'["alarm"] = ResponseBytes(j) /\ writing'["command"] = writing["command"]
      BY <1>3, <2>2 DEF Producers
    <3>2. A = 0 /\ A1 = n /\ W1 = W
      BY <1>2, <2>2, <3>1
    <3> HIDE DEF W, W1, A, A1, n
    <3>3. QED
      BY <1>1, <3>2
  <2>3. QED
    BY <2>1, <2>2
<1>5. WrittenOf(id) = W + A + Q + B
  BY DEF WrittenOf
<1>6. WrittenOf(id)' = W1 + A1 + Q + B
  BY WrittenParts
<1> HIDE DEF W, W1, A, A1, Q, B
<1>7. WrittenOf(id)' = WrittenOf(id) + n
  <2> HIDE DEF n
  <2>1. QED
    BY <1>1, <1>4, <1>5, <1>6
<1>8. QED
  BY <1>7

\* A command that is tagged becomes an alarm; any other is answered.
LEMMA ExecuteCommandKept ==
  ASSUME IInv, IInv', Good, Accounted, ExecuteCommand
  PROVE  Good' /\ Accounted'
<1> DEFINE c == Head(commandQueue)
<1>1. /\ commandQueue # <<>> /\ commandQueue' = Tail(commandQueue) /\ writing["command"] = <<>>
      /\ UNCHANGED <<cm, rx, decodeQueue, todo, encodeQueue, cmdResBuffer, outbox, transmitQueue,
                     downlinked, nextId>>
  BY DEF ExecuteCommand, manager, encoder, ground
<1>2. /\ commandQueue \in Seq(AnsweredCommands) /\ commandQueue' \in Seq(AnsweredCommands)
      /\ c \in AnsweredCommands /\ c \in Commands /\ c.kind # "refused" /\ c.id \in Ids
  <2>1. /\ commandQueue \in Seq(AnsweredCommands) /\ commandQueue' \in Seq(AnsweredCommands)
        /\ c \in AnsweredCommands
    BY <1>1, HeadTailProperties DEF Good
  <2>2. QED
    BY <2>1 DEF AnsweredCommands, Commands
<1>3. writing'["telemetry"] = writing["telemetry"]
  <2>1. writing \in [Producers -> Seq(EncodeEvents)] /\ "telemetry" \in Producers
    BY Queues DEF Producers
  <2>2. QED
    BY <2>1 DEF ExecuteCommand
<1>4. Good'
  BY <1>1, <1>2, <1>3, FixedSets DEF Good, TelemFile
<1>5. \A id : PackedOf(id)' = PackedOf(id)
  BY <1>1, Unmoved
<1>6. ASSUME NEW id \in Ids
      PROVE  WaitsOf(id) + One(id \in alarms') = WaitsOf(id)' + One(id \in alarms) + One(id = c.id)
  <2> DEFINE D == Times(decodeQueue, Carrying(id))
             P == One(cm = "push" /\ rx.frame \in Carrying(id))
             T == Times(todo, Of(id))
             C == Times(commandQueue, Of(id))
             C1 == Times(commandQueue', Of(id))
             A == One(id \in alarms)
             A1 == One(id \in alarms')
             H == One(id = c.id)
  <2>1. /\ D \in Nat /\ P \in Nat /\ T \in Nat /\ C \in Nat /\ C1 \in Nat /\ A \in Nat /\ A1 \in Nat
        /\ H \in Nat
    BY WaitsParts
  <2>2. C = C1 + (IF c \in Of(id) THEN 1 ELSE 0)
    BY <1>1, <1>2, TimesTail
  <2>3. H = IF c \in Of(id) THEN 1 ELSE 0
    BY <1>2 DEF One, Of
  <2>4. WaitsOf(id) = P + D + T + C + A
    BY DEF WaitsOf
  <2>5. WaitsOf(id)' = P + D + T + C1 + A1
    BY <1>1, WaitsParts
  <2>6. WaitsOf(id) + A1 = WaitsOf(id)' + A + H
    <3> HIDE DEF D, P, T, C, C1, A, A1, H
    <3>1. QED
      BY <2>1, <2>2, <2>3, <2>4, <2>5
  <2>7. QED
    BY <2>6
<1>7. \A id \in Ids : WaitsOf(id) \in Nat /\ WaitsOf(id)' \in Nat
  <2>1. Ids' = Ids
    BY DEF Ids
  <2>2. QED
    BY <2>1, Counts, CountsNext DEF CountsOk
<1>8. CASE c.kind = "tagged"
  <2>1. alarms' = alarms \cup {c.id} /\ UNCHANGED writing
    BY <1>8 DEF ExecuteCommand
  <2>2. c.id \notin alarms
    <3>1. SUFFICES ASSUME c.id \in alarms
                   PROVE  FALSE
      OBVIOUS
    <3>2. alarms' = alarms
      BY <2>1, <3>1
    <3> DEFINE D == Times(decodeQueue, Carrying(c.id))
               P == One(cm = "push" /\ rx.frame \in Carrying(c.id))
               T == Times(todo, Of(c.id))
               C == Times(commandQueue, Of(c.id))
               C1 == Times(commandQueue', Of(c.id))
    <3>3. D \in Nat /\ P \in Nat /\ T \in Nat /\ C1 \in Nat
      BY <1>2, WaitsParts
    <3>4. C = C1 + 1
      <4>1. c \in Of(c.id)
        BY <1>2 DEF Of
      <4>2. QED
        BY <1>1, <1>2, <4>1, TimesTail
    <3>5. One(c.id \in alarms) = 1
      BY <3>1 DEF One
    <3>6. WaitsOf(c.id) = P + D + T + C + 1
      BY <3>5 DEF WaitsOf
    <3>7. WaitsOf(c.id) \in {0, 1}
      BY <1>2 DEF Accounted
    <3> HIDE DEF D, P, T, C, C1
    <3>8. QED
      BY <3>3, <3>4, <3>6, <3>7
  <2>3. \A id \in Ids : One(id \in alarms') = One(id \in alarms) + One(id = c.id)
    BY <2>1, <2>2 DEF One
  <2>4. ASSUME NEW id \in Ids
        PROVE  WaitsOf(id)' = WaitsOf(id)
    <3>1. One(id \in alarms) \in Nat /\ One(id = c.id) \in Nat
      BY DEF One
    <3>2. QED
      BY <1>6, <1>7, <2>3, <3>1
  <2>5. \A id : WrittenOf(id)' = WrittenOf(id)
    BY <1>1, <2>1, Unmoved
  <2>6. Accounted'
    BY <1>1, <1>5, <2>4, <2>5, AccountedMoved
  <2>7. QED
    BY <1>4, <2>6
<1>9. CASE c.kind \in {"ping", "telem"}
  <2>1. UNCHANGED alarms /\ writing' = [writing EXCEPT !["command"] = ResponseBytes(c.id)]
    BY <1>9 DEF ExecuteCommand
  <2>2. ASSUME NEW id \in Ids
        PROVE  WaitsOf(id) = WaitsOf(id)' + One(id = c.id)
    <3>1. One(id \in alarms) \in Nat /\ One(id = c.id) \in Nat /\ One(id \in alarms') = One(id \in alarms)
      BY <2>1 DEF One
    <3>2. QED
      BY <1>6, <1>7, <3>1
  <2>3. \A id \in Ids : WrittenOf(id)' = WrittenOf(id) + (IF id = c.id THEN ResponseChunks ELSE 0)
    BY <1>1, <1>2, <2>1, AnswerKept
  <2>4. Accounted'
    BY <1>1, <1>2, <1>5, <2>2, <2>3, AccountedAnswered
  <2>5. QED
    BY <1>4, <2>4
<1>10. QED
  BY <1>2, <1>8, <1>9 DEF ExecuteCommand

LEMMA ExecuteAlarmKept ==
  ASSUME IInv, IInv', Good, Accounted, ExecuteAlarm
  PROVE  Good' /\ Accounted'
<1>1. PICK j \in alarms : /\ alarms' = alarms \ {j}
                          /\ writing' = [writing EXCEPT !["alarm"] = ResponseBytes(j)]
  BY DEF ExecuteAlarm
<1>2. /\ writing["alarm"] = <<>> /\ j \in Ids
      /\ UNCHANGED <<cm, rx, decodeQueue, todo, commandQueue, encodeQueue, cmdResBuffer, outbox,
                     transmitQueue, downlinked, nextId>>
  BY Queues DEF ExecuteAlarm, manager, uplink, encoder, ground
<1>3. Good'
  <2>1. writing \in [Producers -> Seq(EncodeEvents)] /\ "telemetry" \in Producers
    BY Queues DEF Producers
  <2>2. writing'["telemetry"] = writing["telemetry"]
    BY <1>1, <2>1
  <2>3. QED
    BY <1>2, <2>2, FixedSets DEF Good, TelemFile
<1>4. \A id : PackedOf(id)' = PackedOf(id)
  BY <1>2, Unmoved
<1>5. ASSUME NEW id \in Ids
      PROVE  WaitsOf(id) = WaitsOf(id)' + One(id = j)
  <2> DEFINE D == Times(decodeQueue, Carrying(id))
             P == One(cm = "push" /\ rx.frame \in Carrying(id))
             T == Times(todo, Of(id))
             C == Times(commandQueue, Of(id))
             A == One(id \in alarms)
             A1 == One(id \in alarms')
             H == One(id = j)
  <2>1. D \in Nat /\ P \in Nat /\ T \in Nat /\ C \in Nat /\ A \in Nat /\ A1 \in Nat /\ H \in Nat
    BY WaitsParts
  <2>2. A = A1 + H
    BY <1>1 DEF One
  <2>3. WaitsOf(id) = P + D + T + C + A
    BY DEF WaitsOf
  <2>4. WaitsOf(id)' = P + D + T + C + A1
    BY <1>2, WaitsParts
  <2>5. WaitsOf(id) = WaitsOf(id)' + H
    <3> HIDE DEF D, P, T, C, A, A1, H
    <3>1. QED
      BY <2>1, <2>2, <2>3, <2>4
  <2>6. QED
    BY <2>5
<1>6. \A id \in Ids : WrittenOf(id)' = WrittenOf(id) + (IF id = j THEN ResponseChunks ELSE 0)
  BY <1>1, <1>2, AnswerKept
<1>7. Accounted'
  BY <1>2, <1>4, <1>5, <1>6, AccountedAnswered
<1>8. QED
  BY <1>3, <1>7

\* The telemetry manager writes no bytes of a response.
LEMMA TakeDownlinkReadyKept ==
  ASSUME IInv, IInv', Good, Accounted, TakeDownlinkReady
  PROVE  Good' /\ Accounted'
<1>1. /\ writing' = [writing EXCEPT !["telemetry"] = <<TelemFile>>]
      /\ UNCHANGED <<cm, rx, decodeQueue, todo, commandQueue, alarms, encodeQueue, cmdResBuffer, outbox,
                     transmitQueue, downlinked, nextId>>
  BY DEF TakeDownlinkReady, manager, uplink, encoder, ground
<1>2. writing \in [Producers -> Seq(EncodeEvents)] /\ Producers = {"command", "alarm", "telemetry"}
  BY Queues DEF Producers
<1>3. /\ writing'["telemetry"] = <<TelemFile>> /\ writing'["command"] = writing["command"]
      /\ writing'["alarm"] = writing["alarm"]
  BY <1>1, <1>2
<1>4. Good'
  <2>1. <<TelemFile>> \in Seq({TelemFile})
    BY DEF TelemFile
  <2>2. QED
    BY <1>1, <1>3, <2>1, FixedSets DEF Good, TelemFile
<1>5. \A id : WaitsOf(id)' = WaitsOf(id) /\ PackedOf(id)' = PackedOf(id)
  BY <1>1, Unmoved
<1>6. \A id \in Ids : WrittenOf(id)' = WrittenOf(id)
  BY <1>1, <1>3, WrittenParts DEF WrittenOf
<1>7. QED
  BY <1>1, <1>4, <1>5, <1>6, AccountedMoved

\* A byte is written to the encode queue.
LEMMA WriteEncodeQueueKept ==
  ASSUME IInv, IInv', Good, Accounted, NEW p \in Producers, WriteEncodeQueue(p)
  PROVE  Good' /\ Accounted'
<1> DEFINE e == Head(writing[p])
<1>1. /\ writing[p] # <<>> /\ writing' = [writing EXCEPT ![p] = Tail(writing[p])]
      /\ encodeQueue' = Append(encodeQueue, e)
      /\ UNCHANGED <<cm, rx, decodeQueue, todo, commandQueue, alarms, cmdResBuffer, outbox,
                     transmitQueue, downlinked, nextId>>
  BY DEF WriteEncodeQueue, manager, uplink, encoder, ground
<1>2. /\ writing \in [Producers -> Seq(EncodeEvents)] /\ Producers = {"command", "alarm", "telemetry"}
      /\ writing[p] \in Seq(EncodeEvents) /\ encodeQueue \in Seq(EncodeEvents)
  BY Queues DEF Producers
<1>3. e \in EncodeEvents
  BY <1>1, <1>2, HeadTailProperties
<1>4. \A q \in Producers : writing'[q] = IF q = p THEN Tail(writing[p]) ELSE writing[q]
  BY <1>1, <1>2
<1>5. writing'["telemetry"] \in Seq({TelemFile}) /\ (p = "telemetry" => e = TelemFile)
  <2>1. writing["telemetry"] \in Seq({TelemFile}) /\ "telemetry" \in Producers
    BY <1>2 DEF Good
  <2>2. CASE p = "telemetry"
    BY <1>1, <1>4, <2>1, <2>2, HeadTailProperties
  <2>3. CASE p # "telemetry"
    BY <1>4, <2>1, <2>3
  <2>4. QED
    BY <2>2, <2>3
<1>6. Good'
  BY <1>1, <1>5, FixedSets DEF Good, TelemFile
<1>7. \A id : WaitsOf(id)' = WaitsOf(id) /\ PackedOf(id)' = PackedOf(id)
  BY <1>1, Unmoved
<1>8. ASSUME NEW id \in Ids
      PROVE  WrittenOf(id)' = WrittenOf(id)
  <2> DEFINE h == IF e \in {Response(id)} THEN 1 ELSE 0
             W == Times(writing["command"], {Response(id)})
             W1 == Times(writing'["command"], {Response(id)})
             A == Times(writing["alarm"], {Response(id)})
             A1 == Times(writing'["alarm"], {Response(id)})
             Q == Times(encodeQueue, {Response(id)})
             Q1 == Times(encodeQueue', {Response(id)})
             B == Times(cmdResBuffer, {id})
  <2>1. W \in Nat /\ W1 \in Nat /\ A \in Nat /\ A1 \in Nat /\ Q \in Nat /\ Q1 \in Nat /\ B \in Nat /\ h \in Nat
    BY WrittenParts
  <2>2. Q1 = Q + h
    BY <1>1, <1>2, <1>3, TimesAppend
  <2>3. Times(writing[p], {Response(id)}) = Times(Tail(writing[p]), {Response(id)}) + h
    BY <1>1, <1>2, TimesTail
  <2>4. W + A = W1 + A1 + h
    <3>1. CASE p = "command"
      <4>1. W = W1 + h /\ A1 = A
        BY <1>2, <1>4, <2>3, <3>1
      <4> HIDE DEF W, W1, A, A1, h
      <4>2. QED
        BY <2>1, <4>1
    <3>2. CASE p = "alarm"
      <4>1. A = A1 + h /\ W1 = W
        BY <1>2, <1>4, <2>3, <3>2
      <4> HIDE DEF W, W1, A, A1, h
      <4>2. QED
        BY <2>1, <4>1
    <3>3. CASE p = "telemetry"
      <4>1. W1 = W /\ A1 = A
        BY <1>2, <1>4, <3>3
      <4>2. h = 0
        BY <1>5, <3>3 DEF TelemFile, Response
      <4> HIDE DEF W, W1, A, A1, h
      <4>3. QED
        BY <2>1, <4>1, <4>2
    <3>4. QED
      BY <1>2, <3>1, <3>2, <3>3
  <2>5. WrittenOf(id) = W + A + Q + B
    BY DEF WrittenOf
  <2>6. WrittenOf(id)' = W1 + A1 + Q1 + B
    BY <1>1, WrittenParts
  <2> HIDE DEF W, W1, A, A1, Q, Q1, B, h
  <2>7. QED
    BY <2>1, <2>2, <2>4, <2>5, <2>6
<1>9. QED
  BY <1>1, <1>6, <1>7, <1>8, AccountedMoved

-----------------------------------------------------------------------------
(* The encoder and the way to the ground. *)

\* A byte is collected, and a full buffer packed.
LEMMA EncodeResponseKept ==
  ASSUME IInv, IInv', Good, Accounted, EncodeResponse
  PROVE  Good' /\ Accounted'
<1> DEFINE e == Head(encodeQueue)
           bytes == Append(cmdResBuffer, e.id)
<1>1. /\ encodeQueue # <<>> /\ encodeQueue' = Tail(encodeQueue) /\ outbox = <<>>
      /\ e.type = "DOWNLINK_CMD_RESPONSE"
      /\ UNCHANGED <<cm, rx, decodeQueue, todo, commandQueue, alarms, writing, transmitQueue,
                     downlinked, nextId>>
  BY DEF EncodeResponse, manager, uplink, sources, ground
<1>2. /\ encodeQueue \in Seq(EncodeEvents) /\ cmdResBuffer \in Seq(Ids) /\ Len(cmdResBuffer) < ResponseChunks
      /\ e \in EncodeEvents
  BY <1>1, Queues, HeadTailProperties
<1>3. e.id \in Ids /\ e = Response(e.id)
  BY <1>1, <1>2 DEF EncodeEvents, TelemFile, Response
<1>4. bytes \in Seq(Ids) /\ Len(bytes) = Len(cmdResBuffer) + 1 /\ Len(cmdResBuffer) \in Nat
  BY <1>2, <1>3, AppendProperties, LenProperties
<1>5. Good' /\ \A id : WaitsOf(id)' = WaitsOf(id)
  BY <1>1, Unmoved
<1>6. ASSUME NEW id \in Ids
      PROVE  /\ WrittenOf(id) = Times(writing["command"], {Response(id)}) + Times(writing["alarm"], {Response(id)})
                                + Times(encodeQueue', {Response(id)}) + Times(bytes, {id})
             /\ WrittenOf(id)' = Times(writing["command"], {Response(id)}) + Times(writing["alarm"], {Response(id)})
                                + Times(encodeQueue', {Response(id)}) + Times(cmdResBuffer', {id})
  <2> DEFINE h == IF e.id = id THEN 1 ELSE 0
             W == Times(writing["command"], {Response(id)})
             A == Times(writing["alarm"], {Response(id)})
             Q == Times(encodeQueue, {Response(id)})
             Q1 == Times(encodeQueue', {Response(id)})
             B == Times(cmdResBuffer, {id})
             B1 == Times(bytes, {id})
  <2>1. W \in Nat /\ A \in Nat /\ Q \in Nat /\ Q1 \in Nat /\ B \in Nat /\ h \in Nat
    BY WrittenParts
  <2>2. Q = Q1 + h
    <3>1. Q = Q1 + (IF e \in {Response(id)} THEN 1 ELSE 0)
      BY <1>1, <1>2, TimesTail
    <3>2. e \in {Response(id)} <=> e.id = id
      BY <1>3 DEF Response
    <3>3. QED
      BY <3>1, <3>2
  <2>3. B1 = B + h
    BY <1>2, <1>3, TimesAppend
  <2>4. WrittenOf(id) = W + A + Q + B
    BY DEF WrittenOf
  <2>5. WrittenOf(id) = W + A + Q1 + B1
    <3> HIDE DEF W, A, Q, Q1, B, B1, h
    <3>1. QED
      BY <2>1, <2>2, <2>3, <2>4
  <2>6. WrittenOf(id)' = W + A + Q1 + Times(cmdResBuffer', {id})
    BY <1>1, WrittenParts
  <2>7. QED
    BY <2>5, <2>6
<1>7. CASE ~Filled(bytes)
  <2>1. cmdResBuffer' = bytes /\ UNCHANGED outbox
    BY <1>7 DEF EncodeResponse
  <2>2. \A id \in Ids : WrittenOf(id)' = WrittenOf(id)
    BY <1>6, <2>1
  <2>3. \A id : PackedOf(id)' = PackedOf(id)
    BY <1>1, <2>1, Unmoved
  <2>4. QED
    BY <1>1, <1>5, <2>2, <2>3, AccountedMoved
<1>8. CASE Filled(bytes)
  <2>1. cmdResBuffer' = <<>> /\ outbox' = <<Packet(bytes), End>>
    BY <1>8 DEF EncodeResponse, ResponseDownlink
  <2>2. Len(bytes) = ResponseChunks
    BY <1>2, <1>4, <1>8, PipelineAssumption DEF Filled
  <2>3. ASSUME NEW id \in Ids
        PROVE  OfAll(DataOf(outbox'), id) = Times(bytes, {id}) /\ OfAll(DataOf(outbox), id) = 0
    <3>1. Packet(bytes) \in TransmitEvents /\ End \in TransmitEvents /\ <<>> \in Seq(TransmitEvents)
      BY <1>4, EmptySeq DEF Packet, End, TransmitEvents
    <3>2. OfAll(DataOf(<<>>), id) = 0
      <4>1. <<>> \in Seq({}) /\ Len(<<>>) = 0
        BY EmptySeq
      <4>2. DOMAIN <<>> = 1 .. 0
        BY <4>1, LenProperties
      <4>3. DOMAIN DataOf(<<>>) = {}
        BY <4>2 DEF DataOf
      <4>4. InAll(DataOf(<<>>), id) = {}
        BY <4>3 DEF InAll
      <4>5. QED
        BY <4>4, FS_EmptySet DEF OfAll
    <3> DEFINE q == Append(<<>>, Packet(bytes))
    <3>3. q \in Seq(TransmitEvents) /\ OfAll(DataOf(q), id) = 0 + OfData(bytes, id)
      <4>1. OfAll(DataOf(q), id) = OfAll(DataOf(<<>>), id) + OfData(Packet(bytes).data, id)
        BY <3>1, PacketSent
      <4>2. Packet(bytes).data = bytes
        BY DEF Packet
      <4>3. QED
        BY <3>1, <3>2, <4>1, <4>2, AppendProperties
    <3>4. outbox' = Append(q, End)
      BY <2>1
    <3>5. OfAll(DataOf(outbox'), id) = OfAll(DataOf(q), id) + OfData(<<>>, id)
      <4>1. End.data = <<>>
        BY DEF End
      <4> HIDE DEF q
      <4>2. QED
        BY <3>1, <3>3, <3>4, <4>1, PacketSent
    <3>6. OfData(<<>>, id) = 0 /\ OfData(bytes, id) = Times(bytes, {id}) /\ OfData(bytes, id) \in Nat
      BY <1>4, <2>2, EmptyData, FullData, InDataFinite
    <3> HIDE DEF q
    <3>7. QED
      BY <1>1, <3>2, <3>3, <3>5, <3>6
  <2>4. ASSUME NEW id \in Ids
        PROVE  WrittenOf(id)' + PackedOf(id)' = WrittenOf(id) + PackedOf(id)
    <3> DEFINE W == Times(writing["command"], {Response(id)})
               A == Times(writing["alarm"], {Response(id)})
               Q1 == Times(encodeQueue', {Response(id)})
               B1 == Times(bytes, {id})
               t == OfAll(DataOf(transmitQueue), id)
               d == OfAll(downlinked, id)
    <3>1. /\ W \in Nat /\ A \in Nat /\ Q1 \in Nat /\ B1 \in Nat /\ t \in Nat /\ d \in Nat
      BY <1>4, WrittenParts, TimesTyped, Counts DEF CountsOk
    <3>2. Times(cmdResBuffer', {id}) = 0
      BY <2>1, TimesEmpty
    <3>3. WrittenOf(id) = W + A + Q1 + B1 /\ WrittenOf(id)' = W + A + Q1 + 0
      BY <1>6, <3>2
    <3>4. PackedOf(id) = 0 + t + d /\ PackedOf(id)' = B1 + t + d
      BY <1>1, <2>3 DEF PackedOf
    <3> HIDE DEF W, A, Q1, B1, t, d
    <3>5. QED
      BY <3>1, <3>3, <3>4
  <2>5. QED
    BY <1>1, <1>5, <2>4, AccountedPacked
<1>9. QED
  BY <1>7, <1>8

\* A file has no bytes of a response.
LEMMA EncodeFileKept ==
  ASSUME IInv, IInv', Good, Accounted, EncodeFile
  PROVE  Good' /\ Accounted'
<1>1. /\ encodeQueue # <<>> /\ encodeQueue' = Tail(encodeQueue) /\ outbox = <<>>
      /\ Head(encodeQueue) = TelemFile
      /\ UNCHANGED <<cm, rx, decodeQueue, todo, commandQueue, alarms, writing, cmdResBuffer, transmitQueue,
                     downlinked, nextId>>
  BY DEF EncodeFile, manager, uplink, sources, ground
<1>2. Good' /\ \A id : WaitsOf(id)' = WaitsOf(id)
  BY <1>1, Unmoved
<1>3. ASSUME NEW id \in Ids
      PROVE  WrittenOf(id)' = WrittenOf(id)
  <2>1. Times(encodeQueue, {Response(id)}) = Times(encodeQueue', {Response(id)}) + 0
    <3>1. TelemFile \notin {Response(id)}
      BY DEF TelemFile, Response
    <3>2. QED
      BY <1>1, <3>1, Queues, TimesTail
  <2>2. Times(encodeQueue', {Response(id)}) \in Nat
    BY WrittenParts
  <2>3. QED
    BY <1>1, <2>1, <2>2, WrittenParts DEF WrittenOf
<1>4. ASSUME NEW id
      PROVE  OfAll(DataOf(outbox'), id) = 0 /\ OfAll(DataOf(outbox), id) = 0
  <2>1. DOMAIN <<>> = {}
    <3>1. <<>> \in Seq({}) /\ Len(<<>>) = 0
      BY EmptySeq
    <3>2. DOMAIN <<>> = 1 .. 0
      BY <3>1, LenProperties
    <3>3. QED
      BY <3>2
  <2>2. \A k \in DOMAIN outbox' : outbox'[k].data = <<>>
    BY DEF EncodeFile, Packet, End
  <2>3. InAll(DataOf(outbox'), id) = {}
    BY <2>1, <2>2 DEF InAll, DataOf
  <2>4. InAll(DataOf(outbox), id) = {}
    BY <1>1, <2>1 DEF InAll, DataOf
  <2>5. QED
    BY <2>3, <2>4, FS_EmptySet DEF OfAll
<1>5. \A id \in Ids : PackedOf(id)' = PackedOf(id)
  BY <1>1, <1>4 DEF PackedOf
<1>6. QED
  BY <1>1, <1>2, <1>3, <1>5, AccountedMoved

\* A packet is sent on,
LEMMA SendTransmitKept ==
  ASSUME IInv, IInv', Good, Accounted, SendTransmit
  PROVE  Good' /\ Accounted'
<1> DEFINE p == Head(outbox)
<1>1. /\ outbox # <<>> /\ outbox' = Tail(outbox) /\ transmitQueue' = Append(transmitQueue, p)
      /\ UNCHANGED <<cm, rx, decodeQueue, todo, commandQueue, alarms, writing, encodeQueue, cmdResBuffer,
                     downlinked, nextId>>
  BY DEF SendTransmit, manager, uplink, sources, ground
<1>2. outbox \in Seq(TransmitEvents) /\ transmitQueue \in Seq(TransmitEvents) /\ p \in TransmitEvents
  BY <1>1, Queues, HeadTailProperties
<1>3. Good' /\ \A id : WaitsOf(id)' = WaitsOf(id) /\ WrittenOf(id)' = WrittenOf(id)
  BY <1>1, Unmoved
<1>4. ASSUME NEW id \in Ids
      PROVE  PackedOf(id)' = PackedOf(id)
  <2> DEFINE o == OfAll(DataOf(outbox), id)
             o1 == OfAll(DataOf(outbox'), id)
             t == OfAll(DataOf(transmitQueue), id)
             t1 == OfAll(DataOf(transmitQueue'), id)
             n == OfData(p.data, id)
             d == OfAll(downlinked, id)
  <2>1. o1 \in Nat /\ o = o1 + n
    BY <1>1, <1>2, PacketTaken
  <2>2. t \in Nat /\ t1 = t + n
    BY <1>1, <1>2, PacketSent
  <2>3. n \in Nat /\ d \in Nat
    BY InDataFinite, Counts DEF CountsOk
  <2>4. PackedOf(id) = o + t + d /\ PackedOf(id)' = o1 + t1 + d
    BY <1>1 DEF PackedOf
  <2> HIDE DEF o, o1, t, t1, n, d
  <2>5. QED
    BY <2>1, <2>2, <2>3, <2>4
<1>5. QED
  BY <1>1, <1>3, <1>4, AccountedMoved

\* and reaches the ground; the end of a downlink has no bytes.
LEMMA DownlinkKept ==
  ASSUME IInv, IInv', Good, Accounted, Downlink
  PROVE  Good' /\ Accounted'
<1> DEFINE p == Head(transmitQueue)
<1>1. /\ transmitQueue # <<>> /\ transmitQueue' = Tail(transmitQueue)
      /\ UNCHANGED <<rx, decodeQueue, todo, commandQueue, alarms, writing, encodeQueue, cmdResBuffer,
                     outbox, nextId>>
      /\ cm # "push" /\ cm' # "push"
      /\ IF p = End THEN downlinked' = downlinked ELSE downlinked' = Append(downlinked, p.data)
  BY DEF Downlink, uplink, sources, encoder, ground
<1>2. transmitQueue \in Seq(TransmitEvents) /\ p \in TransmitEvents /\ downlinked \in Seq(Seq(Ids))
  BY <1>1, Queues, HeadTailProperties
<1>3. Good' /\ \A id : WrittenOf(id)' = WrittenOf(id)
  BY <1>1, Unmoved
<1>4. \A id : WaitsOf(id)' = WaitsOf(id)
  BY <1>1, FixedSets DEF WaitsOf, One
<1>5. ASSUME NEW id \in Ids
      PROVE  PackedOf(id)' = PackedOf(id)
  <2> DEFINE o == OfAll(DataOf(outbox), id)
             t == OfAll(DataOf(transmitQueue), id)
             t1 == OfAll(DataOf(transmitQueue'), id)
             n == OfData(p.data, id)
             d == OfAll(downlinked, id)
             d1 == OfAll(downlinked', id)
  <2>1. t1 \in Nat /\ t = t1 + n
    BY <1>1, <1>2, PacketTaken
  <2>2. n \in Nat /\ d \in Nat /\ o \in Nat
    BY InDataFinite, Counts DEF CountsOk
  <2>3. d1 = d + n
    <3>1. CASE p = End
      <4>1. n = 0
        BY <3>1, EmptyData DEF End
      <4>2. d1 = d
        BY <1>1, <3>1
      <4> HIDE DEF d, d1, n
      <4>3. QED
        BY <2>2, <4>1, <4>2
    <3>2. CASE p # End
      <4>1. p.data \in Seq(Ids)
        BY <1>2 DEF TransmitEvents
      <4> DEFINE S == Seq(Ids)
                 x == p.data
      <4>2. downlinked \in Seq(S) /\ x \in S /\ downlinked' = Append(downlinked, x)
        BY <1>1, <1>2, <3>2, <4>1
      <4> HIDE DEF S, x
      <4>3. d1 = d + OfData(x, id)
        BY <4>2, AllAppend
      <4>4. QED
        BY <4>3 DEF x
    <3>3. QED
      BY <3>1, <3>2
  <2>4. PackedOf(id) = o + t + d /\ PackedOf(id)' = o + t1 + d1
    BY <1>1 DEF PackedOf
  <2> HIDE DEF o, t, t1, n, d, d1
  <2>5. QED
    BY <2>1, <2>2, <2>3, <2>4
<1>6. QED
  BY <1>1, <1>3, <1>4, <1>5, AccountedMoved

\* Events move no commands.
LEMMA EventsKept ==
  ASSUME Good, Accounted, PostCompletion \/ HandleEvent
  PROVE  Good' /\ Accounted'
<1>1. /\ UNCHANGED <<rx, decodeQueue, todo, commandQueue, alarms, writing, encodeQueue, cmdResBuffer,
                     outbox, transmitQueue, downlinked, nextId>>
      /\ cm # "push" /\ cm' # "push"
  <2>1. \A s : Entry(s) # "push"
    BY DEF Entry
  <2>2. CASE PostCompletion
    BY <2>2 DEF PostCompletion, uplink, sources, encoder, ground
  <2>3. CASE HandleEvent
    BY <2>1, <2>3 DEF HandleEvent, uplink, sources, encoder, ground
  <2>4. QED
    BY <2>2, <2>3
<1>2. Good' /\ \A id : WrittenOf(id)' = WrittenOf(id) /\ PackedOf(id)' = PackedOf(id)
  BY <1>1, Unmoved
<1>3. \A id : WaitsOf(id)' = WaitsOf(id)
  BY <1>1, FixedSets DEF WaitsOf, One
<1>4. QED
  BY <1>1, <1>2, <1>3, AccountedMoved

-----------------------------------------------------------------------------
(* The balance, and what it says of NothingLost. *)

LEMMA AccountedInit ==
  ASSUME Init, AnsweredFrames
  PROVE  Good /\ Accounted
<1>1. <<>> \in Seq(GoodFrames) /\ <<>> \in Seq(AnsweredCommands) /\ <<>> \in Seq({TelemFile})
  BY EmptySeq
<1>2. /\ rx.frame = Partial /\ cm = "read" /\ nextId = 1 /\ alarms = {}
      /\ decodeQueue = <<>> /\ todo = <<>> /\ commandQueue = <<>>
      /\ \A p \in Producers : writing[p] = <<>>
      /\ encodeQueue = <<>> /\ cmdResBuffer = <<>> /\ outbox = <<>> /\ transmitQueue = <<>>
      /\ downlinked = <<>>
  BY DEF Init
<1>3. writing["command"] = <<>> /\ writing["alarm"] = <<>> /\ writing["telemetry"] = <<>>
  BY <1>2 DEF Producers
<1>4. Good
  BY <1>1, <1>2, <1>3, GoodAre DEF Good
<1>5. DataOf(<<>>) = <<>>
  <2>1. <<>> \in Seq({}) /\ Len(<<>>) = 0
    BY EmptySeq
  <2>2. DOMAIN <<>> = 1 .. 0
    BY <2>1, LenProperties
  <2>3. DataOf(<<>>) \in [1 .. 0 -> {}]
    BY <2>2 DEF DataOf
  <2>4. DataOf(<<>>) \in Seq({}) /\ Len(DataOf(<<>>)) = 0
    BY <2>3, Listed
  <2>5. QED
    BY <2>4, EmptySeq
<1>6. \A id : WaitsOf(id) = 0
  <2>1. SUFFICES ASSUME NEW id
                 PROVE  WaitsOf(id) = 0
    OBVIOUS
  <2>2. One(cm = "push" /\ rx.frame \in Carrying(id)) = 0 /\ One(id \in alarms) = 0
    BY <1>2 DEF One
  <2>3. QED
    BY <1>2, <2>2, TimesEmpty DEF WaitsOf
<1>7. \A id : WrittenOf(id) = 0
  BY <1>2, <1>3, TimesEmpty DEF WrittenOf
<1>8. \A id : PackedOf(id) = 0
  BY <1>2, <1>5, AllEmpty DEF PackedOf
<1>9. \A id \in Ids : ~(id < nextId)
  BY <1>2, PipelineAssumption DEF Ids
<1>10. QED
  BY <1>4, <1>6, <1>7, <1>8, <1>9 DEF Accounted

\* Every step keeps it.
LEMMA AccountedNext ==
  ASSUME AnsweredFrames, IInv, IInv', EventsFit, ~crowded, Good, Accounted, [Next]_vars
  PROVE  Good' /\ Accounted'
<1>1. CASE \E f \in ConnUplinks \cup Uplinks : ReadFrame(f)
  BY <1>1, ReadFrameKept
<1>2. CASE CommsManager
  BY <1>2, PushChunkKept, EventsKept, DownlinkKept DEF CommsManager
<1>3. CASE Decoder
  BY <1>3, DecodeNothingKept, DecodeCommandsKept, DecodeUFrameKept, PassCommandKept DEF Decoder
<1>4. CASE ExecuteCommand
  BY <1>4, ExecuteCommandKept
<1>5. CASE ExecuteAlarm
  BY <1>5, ExecuteAlarmKept
<1>6. CASE TakeDownlinkReady
  BY <1>6, TakeDownlinkReadyKept
<1>7. CASE \E p \in Producers : WriteEncodeQueue(p)
  BY <1>7, WriteEncodeQueueKept
<1>8. CASE Encoder
  BY <1>8, EncodeResponseKept, EncodeFileKept, SendTransmitKept DEF Encoder
<1>9. CASE UNCHANGED vars
  BY <1>9, Unmoved, AccountedMoved DEF vars
<1>10. QED
  BY <1>1, <1>2, <1>3, <1>4, <1>5, <1>6, <1>7, <1>8, <1>9 DEF Next

\* The property counts the same places.
LEMMA WaitingIs ==
  ASSUME IInv, NEW id
  PROVE  Waiting(id) = WaitsOf(id)
<1> DEFINE Is(c) == c.id = id
           Carries(f) == \E k \in DOMAIN f.cmds : f.cmds[k].id = id
<1>1. /\ rx.frame \in Frames \cup {Partial}
      /\ decodeQueue \in Seq(Frames \cup {Partial})
      /\ todo \in Seq(Commands) /\ commandQueue \in Seq(Commands)
  BY Queues
<1>2. \A f \in Frames \cup {Partial} : f \in Carrying(id) <=> Carries(f)
  BY DEF Carrying
<1>3. \A c \in Commands : c \in Of(id) <=> Is(c)
  BY DEF Of
<1>4. At(decodeQueue, Carrying(id)) = {k \in DOMAIN decodeQueue : Carries(decodeQueue[k])}
  <2>1. \A k \in DOMAIN decodeQueue : decodeQueue[k] \in Frames \cup {Partial}
    BY <1>1, LenProperties, ElementOfSeq
  <2> HIDE DEF Carries
  <2>2. QED
    BY <1>2, <2>1 DEF At
<1>5. ASSUME NEW s \in Seq(Commands)
      PROVE  At(s, Of(id)) = {k \in DOMAIN s : Is(s[k])}
  <2>1. \A k \in DOMAIN s : s[k] \in Commands
    BY LenProperties, ElementOfSeq
  <2> HIDE DEF Is
  <2>2. QED
    BY <1>3, <2>1 DEF At
<1>6. Waiting(id) = (IF cm = "push" /\ Carries(rx.frame) THEN 1 ELSE 0)
                    + Cardinality({k \in DOMAIN decodeQueue : Carries(decodeQueue[k])})
                    + Cardinality({k \in DOMAIN todo : Is(todo[k])})
                    + Cardinality({k \in DOMAIN commandQueue : Is(commandQueue[k])})
                    + (IF id \in alarms THEN 1 ELSE 0)
  BY DEF Waiting, Count
<1>7. Carries(rx.frame) <=> rx.frame \in Carrying(id)
  BY <1>1, <1>2
<1>8. QED
  <2> HIDE DEF Is, Carries
  <2>1. QED
    BY <1>1, <1>4, <1>5, <1>6, <1>7 DEF WaitsOf, Times, One

LEMMA BytesAre ==
  ASSUME IInv, NEW id \in Ids
  PROVE  BytesOf(id) = WrittenOf(id) + PackedOf(id)
<1> DEFINE W == Times(writing["command"], {Response(id)})
           A == Times(writing["alarm"], {Response(id)})
           Q == Times(encodeQueue, {Response(id)})
           B == Times(cmdResBuffer, {id})
           o == OfAll(DataOf(outbox), id)
           t == OfAll(DataOf(transmitQueue), id)
           d == OfAll(downlinked, id)
<1>1. \A s : At(s, {Response(id)}) = {k \in DOMAIN s : s[k] = Response(id)}
  BY DEF At
<1>2. \A s : At(s, {id}) = {k \in DOMAIN s : s[k] = id}
  BY DEF At
<1>3. BytesOf(id) = Cardinality({k \in DOMAIN writing["command"] : writing["command"][k] = Response(id)})
                    + Cardinality({k \in DOMAIN writing["alarm"] : writing["alarm"][k] = Response(id)})
                    + Cardinality({k \in DOMAIN encodeQueue : encodeQueue[k] = Response(id)})
                    + Cardinality({k \in DOMAIN cmdResBuffer : cmdResBuffer[k] = id})
                    + o + t + d
  BY DEF BytesOf, Count, OfAll, InAll, DataOf
<1>4. BytesOf(id) = W + A + Q + B + o + t + d
  <2> HIDE DEF o, t, d
  <2>1. QED
    BY <1>1, <1>2, <1>3 DEF Times
<1>5. W \in Nat /\ A \in Nat /\ Q \in Nat /\ B \in Nat /\ o \in Nat /\ t \in Nat /\ d \in Nat
  BY Counts DEF CountsOk
<1>6. WrittenOf(id) = W + A + Q + B /\ PackedOf(id) = o + t + d
  BY DEF WrittenOf, PackedOf
<1> HIDE DEF W, A, Q, B, o, t, d
<1>7. QED
  BY <1>4, <1>5, <1>6

\* The balance holds until too many U frames wait.
Balance == ~crowded => Good /\ Accounted

\* Nothing is lost and nothing answered twice, for queues, frames and responses of every
\* length, if every command is answered and every frame with commands decodes, until too
\* many U frames wait for the decoder (with its event, a DISC frame loses its commands).
THEOREM NothingLostCorrect == AnsweredFrames => (Spec => []NothingLost)
<1> SUFFICES ASSUME AnsweredFrames
             PROVE  Spec => []NothingLost
  OBVIOUS
<1>1. Init => Balance
  BY AccountedInit DEF Balance
<1>2. IInv /\ IInv' /\ EventsFit /\ Balance /\ [Next]_vars => Balance'
  <2>1. SUFFICES ASSUME IInv, IInv', EventsFit, Balance, [Next]_vars, ~crowded'
                 PROVE  Good' /\ Accounted'
    BY Zenon DEF Balance
  <2>2. ~crowded
    BY Zenon, <2>1, CrowdedNext DEF Push, NoPush
  <2>3. Good /\ Accounted
    BY Zenon, <2>1, <2>2 DEF Balance
  <2>4. QED
    BY <2>1, <2>2, <2>3, AccountedNext
<1>3. IInv /\ (~crowded => Accounted) => NothingLost
  <2> SUFFICES ASSUME IInv, Accounted, NEW id \in 1 .. nextId - 1
               PROVE  \/ Waiting(id) = 1 /\ BytesOf(id) = 0
                      \/ Waiting(id) = 0 /\ BytesOf(id) = ResponseChunks
    BY DEF NothingLost
  <2>1. nextId \in 1 .. MaxCommands + 1 /\ MaxCommands \in Nat
    BY PipelineAssumption DEF IInv, TypeGround
  <2>2. id \in Ids /\ id < nextId
    BY <2>1 DEF Ids
  <2>3. Waiting(id) = WaitsOf(id) /\ BytesOf(id) = WrittenOf(id) + PackedOf(id)
    BY <2>2, WaitingIs, BytesAre
  <2>4. \/ WaitsOf(id) = 1 /\ WrittenOf(id) = 0 /\ PackedOf(id) = 0
        \/ WaitsOf(id) = 0 /\ WrittenOf(id) + PackedOf(id) = ResponseChunks
    BY <2>2 DEF Accounted
  <2>5. QED
    BY <2>3, <2>4
<1>4. Balance => (~crowded => Accounted)
  BY Zenon DEF Balance
<1>5. QED
  BY <1>1, <1>2, <1>3, <1>4, EventsCorrect, EventsFitCorrect, PTL DEF Spec

-----------------------------------------------------------------------------
(* Stop-and-wait. *)

\* Everything in s but its last is in B, and that is in L.
Line(s, B, L) == s # <<>> /\ \A k \in 1 .. Len(s) : s[k] \in (IF k = Len(s) THEN L ELSE B)

Refused == {c \in Commands : c.kind = "refused"}
Pings   == {c \in Commands : c.kind = "ping"}

\* The frames ReadsWhenQuiet is about: connected, frames of one answered command, the
\* last of theirs; before, frames without commands.
OneAnswerFrames ==
  /\ \A f \in ConnUplinks : f.cmds = <<>>
  /\ \A f \in Uplinks : f.kind = "data" /\ Line(f.cmds, {"refused"}, {"ping"})
  /\ MaxDownlinkFrames > 1

\* What they bring, and what may come before.
AnswerFrames == {f \in Frames : f.kind = "data" /\ Line(f.cmds, Refused, Pings)}
EventFrames  == {f \in Frames : f.kind \in {"conn", "ack", "disc"} /\ f.cmds = <<>>}
Noise        == {f \in Frames \cup {Partial} : f.kind \in {"partial", "corrupt"}}

\* Nobody else writes.
OnlyCommands ==
  /\ alarms = {} /\ ~downlinkReady
  /\ writing["alarm"] = <<>> /\ writing["telemetry"] = <<>>

NoCommands == todo = <<>> /\ commandQueue = <<>>
NoBytes    == writing["command"] = <<>> /\ encodeQueue = <<>> /\ cmdResBuffer = <<>>
NoPackets  == outbox = <<>> /\ transmitQueue = <<>>

\* The one answer in the ring comes from a frame,
Decoding == Line(decodeQueue, {Partial}, AnswerFrames) /\ NoCommands /\ NoBytes /\ NoPackets

\* a row of commands,
Commanding ==
  /\ decodeQueue = <<>> /\ NoBytes /\ NoPackets
  /\ \/ Line(todo, Refused, Pings) /\ commandQueue \in Seq(Refused)
     \/ todo = <<>> /\ Line(commandQueue, Refused, Pings)

\* the bytes of a response,
Collecting ==
  /\ decodeQueue = <<>> /\ NoCommands /\ NoPackets
  /\ \A k \in 1 .. Len(encodeQueue) : encodeQueue[k] # TelemFile
  /\ \A k \in 1 .. Len(writing["command"]) : writing["command"][k] # TelemFile
  /\ Len(cmdResBuffer) + Len(encodeQueue) + Len(writing["command"]) = ResponseChunks

\* and its packet, with the end behind it.
Packaged ==
  /\ decodeQueue = <<>> /\ NoCommands /\ NoBytes
  /\ \/ \E p \in TransmitEvents : p # End /\ outbox = <<p, End>> /\ transmitQueue = <<>>
     \/ \E p \in TransmitEvents : p # End /\ outbox = <<End>> /\ transmitQueue = <<p>>
     \/ \E p \in TransmitEvents : p # End /\ outbox = <<>> /\ transmitQueue = <<p, End>>
Ending ==
  /\ decodeQueue = <<>> /\ NoCommands /\ NoBytes
  /\ \/ outbox = <<End>> /\ transmitQueue = <<>>
     \/ outbox = <<>> /\ transmitQueue = <<End>>

Underway == Decoding \/ Commanding \/ Collecting \/ Packaged
Drained  == decodeQueue = <<>> /\ NoCommands /\ NoBytes /\ NoPackets

\* Before the manager is connected, the ring holds at most its first frame.
Connecting ==
  /\ NoCommands /\ NoBytes /\ NoPackets
  /\ \/ cm = "read" /\ decodeQueue = <<>> /\ commsQueue = <<>>
     \/ /\ cm = "push" /\ commsQueue = <<>>
        /\ \/ rx.frame \in Noise /\ decodeQueue \in Seq(Noise)
           \/ rx.frame \in EventFrames /\ rx.left = 1 /\ decodeQueue = <<>>
     \/ cm = "idle" /\ commsQueue = <<>> /\ decodeQueue \in Seq(Noise)
     \/ cm = "idle" /\ commsQueue = <<>> /\ Len(decodeQueue) = 1 /\ decodeQueue[1] \in EventFrames
     \/ cm = "idle" /\ decodeQueue = <<>> /\ \E e \in Messages : commsQueue = <<e>>

\* A handler that has ended, and its event.
Ended == \/ cm = "post" /\ commsQueue = <<>>
         \/ cm = "idle" /\ commsQueue = <<Completion(commsState)>>

Uplinking ==
  \/ cm = "read" /\ commsQueue = <<>> /\ Drained
  \/ /\ cm = "push" /\ commsQueue = <<>> /\ NoCommands /\ NoBytes /\ NoPackets
     /\ rx.frame \in AnswerFrames /\ decodeQueue \in Seq({Partial})
  \/ Ended /\ Underway

Downlinking ==
  \/ cm = "downlink" /\ commsQueue = <<>> /\ sent = 0 /\ Underway
  \/ cm = "downlink" /\ commsQueue = <<>> /\ sent = 1 /\ Ending
  \/ Ended /\ Drained

OneAtATime ==
  /\ OnlyCommands
  /\ \/ commsState = "AWAITING_CONN" /\ Connecting
     \/ commsState = "SENDING_ACK" /\ Ended /\ Drained
     \/ commsState = "UPLINKING" /\ Uplinking
     \/ commsState = "DOWNLINKING" /\ Downlinking

\* These sets do not depend on the state.
LEMMA RingSets ==
  /\ Refused' = Refused /\ Pings' = Pings /\ AnswerFrames' = AnswerFrames
  /\ EventFrames' = EventFrames /\ Noise' = Noise
  /\ TransmitEvents' = TransmitEvents /\ End' = End /\ Partial' = Partial /\ TelemFile' = TelemFile
BY DEF Refused, Pings, AnswerFrames, EventFrames, Noise, Frames, Commands, Ids, Line, TransmitEvents,
       End, Partial, TelemFile

\* A line gets its end,
LEMMA LineEnds ==
  ASSUME NEW B, NEW L, NEW s \in Seq(B), NEW x \in L
  PROVE  Line(Append(s, x), B, L)
<1> DEFINE r == Append(s, x)
           n == Len(s)
<1>1. s \in Seq(B \cup L) /\ x \in B \cup L
  BY SeqMonotonic
<1>2. /\ r # <<>> /\ Len(r) = n + 1 /\ n \in Nat
      /\ \A k \in 1 .. n : r[k] = s[k]
      /\ r[n + 1] = x
  BY <1>1, AppendProperties, LenProperties
<1>3. \A k \in 1 .. n : s[k] \in B
  BY ElementOfSeq
<1> HIDE DEF r, n
<1>4. \A k \in 1 .. n + 1 : r[k] \in (IF k = n + 1 THEN L ELSE B)
  <2>1. SUFFICES ASSUME NEW k \in 1 .. n + 1
                 PROVE  r[k] \in (IF k = n + 1 THEN L ELSE B)
    OBVIOUS
  <2>2. CASE k = n + 1
    BY <1>2, <2>2
  <2>3. CASE k # n + 1
    <3>1. k \in 1 .. n
      BY <1>2, <2>3
    <3>2. QED
      BY <1>2, <1>3, <2>3, <3>1
  <2>4. QED
    BY <2>2, <2>3
<1>5. QED
  BY <1>2, <1>4 DEF Line, r

\* and loses its first element, which may be its end.
LEMMA LineTail ==
  ASSUME NEW X, NEW B, NEW L, NEW s \in Seq(X), Line(s, B, L)
  PROVE  \/ Head(s) \in L /\ Tail(s) = <<>>
         \/ Head(s) \in B /\ Line(Tail(s), B, L)
<1> DEFINE r == Tail(s)
           n == Len(r)
<1>1. /\ s # <<>> /\ r \in Seq(X) /\ n \in Nat /\ Len(s) = n + 1
      /\ \A k \in 1 .. n : r[k] = s[k + 1]
      /\ Head(s) = s[1]
  BY HeadTailProperties, LenProperties, EmptySeq DEF Line
<1>2. \A k \in 1 .. n + 1 : s[k] \in (IF k = n + 1 THEN L ELSE B)
  BY <1>1 DEF Line
<1> HIDE DEF r, n
<1>3. CASE n = 0
  <2>1. s[1] \in L
    BY <1>2, <1>3
  <2>2. r = <<>>
    BY <1>1, <1>3, EmptySeq DEF n
  <2>3. QED
    BY <1>1, <2>1, <2>2 DEF r
<1>4. CASE n # 0
  <2>1. s[1] \in B
    BY <1>1, <1>2, <1>4
  <2>2. r # <<>>
    BY <1>4, EmptySeq DEF n
  <2>3. \A k \in 1 .. n : k + 1 \in 1 .. n + 1 /\ (k + 1 = n + 1 <=> k = n)
    BY <1>1
  <2>4. \A k \in 1 .. n : r[k] \in (IF k = n THEN L ELSE B)
    BY <1>1, <1>2, <2>3
  <2>5. Line(r, B, L)
    BY <2>2, <2>4 DEF Line, n
  <2>6. QED
    BY <1>1, <2>1, <2>5 DEF r
<1>5. QED
  BY <1>3, <1>4

\* Rows of one and two.
LEMMA OneTwo ==
  ASSUME NEW a, NEW b
  PROVE  /\ <<a>> # <<>> /\ Head(<<a>>) = a /\ Tail(<<a>>) = <<>>
         /\ <<a, b>> # <<>> /\ Head(<<a, b>>) = a /\ Tail(<<a, b>>) = <<b>>
         /\ Append(<<>>, a) = <<a>> /\ Append(<<a>>, b) = <<a, b>>
         /\ Len(<<a>>) = 1
<1> DEFINE S == {a, b}
<1>1. <<>> \in Seq(S) /\ <<a>> \in Seq(S) /\ <<a, b>> \in Seq(S) /\ <<b>> \in Seq(S)
  OBVIOUS
<1>2. Len(<<>>) = 0 /\ Len(<<a>>) = 1 /\ Len(<<a, b>>) = 2
  OBVIOUS
<1>3. <<a>> # <<>> /\ <<a, b>> # <<>>
  OBVIOUS
<1>4. Head(<<a>>) = a /\ Head(<<a, b>>) = a
  OBVIOUS
<1>5. Tail(<<a>>) = <<>>
  <2> DEFINE s == <<a>>
             t == Tail(s)
  <2>1. s \in Seq(S) /\ s # <<>> /\ Len(s) = 1
    OBVIOUS
  <2> HIDE DEF s
  <2>2. t \in Seq(S) /\ Len(t) = 0
    BY <2>1, HeadTailProperties
  <2>3. QED
    BY <2>2, EmptySeq DEF s
<1>6. Tail(<<a, b>>) = <<b>>
  OBVIOUS
<1>7. Append(<<>>, a) = <<a>>
  OBVIOUS
<1>8. Append(<<a>>, b) = <<a, b>>
  <2>1. PICK s : s = <<a>>
    OBVIOUS
  <2>2. PICK u : u = <<a, b>>
    OBVIOUS
  <2>3. s \in Seq(S) /\ Len(s) = 1 /\ s[1] = a /\ b \in S
    BY <2>1
  <2>4. u \in Seq(S) /\ Len(u) = 2 /\ u[1] = a /\ u[2] = b
    BY <2>2
  <2> HIDE DEF S
  <2>5. PICK t : t = Append(s, b)
    OBVIOUS
  <2>6. s \in Seq(S) /\ b \in S
    BY <2>3
  <2>7. t \in Seq(S) /\ Len(t) = 2 /\ t[1] = a /\ t[2] = b
    <3>1. t \in Seq(S) /\ Len(t) = Len(s) + 1
      BY ONLY <2>5, <2>6, AppendProperties
    <3>2. t[Len(s) + 1] = b
      BY ONLY <2>5, <2>6, AppendProperties
    <3>3. \A i \in 1 .. Len(s) : t[i] = s[i]
      BY ONLY <2>5, <2>6, AppendProperties
    <3>4. QED
      BY <2>3, <3>1, <3>2, <3>3
  <2>8. \A k \in 1 .. 2 : k = 1 \/ k = 2
    OBVIOUS
  <2>9. \A k \in 1 .. Len(t) : t[k] = u[k]
    BY <2>4, <2>7, <2>8
  <2>10. t = u
    BY <2>4, <2>7, <2>9, SeqEqual
  <2>11. QED
    BY <2>1, <2>2, <2>5, <2>10
<1>9. QED
  BY <1>2, <1>3, <1>4, <1>5, <1>6, <1>7, <1>8

\* The tasks besides the comms manager.
RingStep == \/ Decoder \/ ExecuteCommand \/ ExecuteAlarm \/ TakeDownlinkReady
            \/ (\E p \in Producers : WriteEncodeQueue(p)) \/ Encoder

LEMMA RingLeaves ==
  /\ RingStep => UNCHANGED manager
  /\ RingStep /\ ~DecodeUFrame => UNCHANGED commsQueue
BY DEF RingStep, Decoder, Encoder, DecodeNothing, DecodeCommands, DecodeUFrame, PassCommand, ExecuteCommand,
       ExecuteAlarm, TakeDownlinkReady, WriteEncodeQueue, EncodeResponse, EncodeFile, SendTransmit

\* Nobody but the command manager and the encoder acts after the decoder.
LEMMA RingActs ==
  ASSUME IInv, OnlyCommands, RingStep
  PROVE  Decoder \/ ExecuteCommand \/ WriteEncodeQueue("command") \/ Encoder
BY DEF RingStep, OnlyCommands, ExecuteAlarm, TakeDownlinkReady, WriteEncodeQueue, Producers

\* With nothing after it, only the decoder does, and passes nothing on.
LEMMA RingDecodes ==
  ASSUME IInv, OnlyCommands, RingStep, NoCommands, NoBytes, NoPackets
  PROVE  /\ DecodeNothing \/ DecodeCommands \/ DecodeUFrame
         /\ OnlyCommands' /\ NoBytes' /\ NoPackets'
<1>1. DecodeNothing \/ DecodeCommands \/ DecodeUFrame
  BY RingActs DEF Decoder, Encoder, NoCommands, NoBytes, NoPackets, PassCommand, ExecuteCommand, WriteEncodeQueue,
                  EncodeResponse, EncodeFile, SendTransmit
<1>2. QED
  BY <1>1 DEF DecodeNothing, DecodeCommands, DecodeUFrame, OnlyCommands, NoBytes, NoPackets, sources, encoder

\* The decoder takes what is in front of the frame, and then the frame.
LEMMA DecodingKept ==
  ASSUME IInv, OnlyCommands, RingStep, Decoding
  PROVE  OnlyCommands' /\ Underway' /\ UNCHANGED commsQueue
<1> DEFINE f == Head(decodeQueue)
<1>1. /\ DecodeNothing \/ DecodeCommands \/ DecodeUFrame
      /\ OnlyCommands' /\ NoBytes' /\ NoPackets'
  BY RingDecodes DEF Decoding
<1>2. /\ todo = <<>> /\ commandQueue = <<>> /\ decodeQueue \in Seq(Frames \cup {Partial})
      /\ Line(decodeQueue, {Partial}, AnswerFrames)
  BY Queues DEF Decoding, NoCommands
<1>3. decodeQueue' = Tail(decodeQueue) /\ commandQueue' = commandQueue
  BY <1>1 DEF DecodeNothing, DecodeCommands, DecodeUFrame
<1>4. CASE f \in AnswerFrames /\ Tail(decodeQueue) = <<>>
  <2>1. f.kind = "data" /\ Line(f.cmds, Refused, Pings)
    BY <1>4 DEF AnswerFrames
  <2>2. DecodeCommands
    BY <1>1, <2>1 DEF DecodeNothing, DecodeUFrame
  <2>3. todo' = f.cmds /\ UNCHANGED commsQueue
    BY <2>2 DEF DecodeCommands
  <2>4. decodeQueue' = <<>>
    BY <1>3, <1>4
  <2>5. Line(todo', Refused', Pings')
    BY <2>1, <2>3, RingSets
  <2>6. commandQueue' \in Seq(Refused')
    BY <1>2, <1>3, EmptySeq
  <2>7. Commanding'
    BY <1>1, <2>4, <2>5, <2>6 DEF Commanding
  <2>8. QED
    BY <1>1, <2>3, <2>7 DEF Underway
<1>5. CASE f = Partial /\ Line(Tail(decodeQueue), {Partial}, AnswerFrames)
  <2>1. f.kind = "partial"
    BY <1>5 DEF Partial
  <2>2. DecodeNothing
    BY <1>1, <2>1 DEF DecodeCommands, DecodeUFrame
  <2>3. UNCHANGED <<todo, commsQueue>>
    BY <2>2 DEF DecodeNothing
  <2>4. Line(decodeQueue', {Partial'}, AnswerFrames')
    BY <1>3, <1>5, RingSets
  <2>5. Decoding'
    BY <1>1, <1>2, <1>3, <2>3, <2>4 DEF Decoding, NoCommands
  <2>6. QED
    BY <1>1, <2>3, <2>5 DEF Underway
<1>6. \/ f \in AnswerFrames /\ Tail(decodeQueue) = <<>>
      \/ f \in {Partial} /\ Line(Tail(decodeQueue), {Partial}, AnswerFrames)
  BY <1>2, LineTail
<1>7. QED
  BY <1>4, <1>5, <1>6

\* The refused commands go, and the last one becomes a response.
LEMMA CommandingKept ==
  ASSUME IInv, OnlyCommands, RingStep, Commanding
  PROVE  OnlyCommands' /\ Underway' /\ UNCHANGED commsQueue
<1>1. /\ decodeQueue = <<>> /\ NoBytes /\ NoPackets
      /\ todo \in Seq(Commands) /\ commandQueue \in Seq(Commands)
  BY Queues DEF Commanding
<1>2. PassCommand \/ ExecuteCommand
  BY <1>1, RingActs DEF Decoder, Encoder, NoBytes, NoPackets, DecodeNothing, DecodeCommands, DecodeUFrame,
                        WriteEncodeQueue, EncodeResponse, EncodeFile, SendTransmit
<1>3. CASE PassCommand
  <2> DEFINE c == Head(todo)
  <2>1. /\ todo # <<>> /\ todo' = Tail(todo) /\ commandQueue' = Append(commandQueue, c)
        /\ OnlyCommands' /\ NoBytes' /\ NoPackets' /\ decodeQueue' = <<>> /\ UNCHANGED commsQueue
    BY <1>1, <1>3 DEF PassCommand, OnlyCommands, NoBytes, NoPackets, sources, encoder
  <2>2. Line(todo, Refused, Pings) /\ commandQueue \in Seq(Refused)
    BY <2>1 DEF Commanding
  <2>3. CASE c \in Pings /\ Tail(todo) = <<>>
    <3>1. Line(commandQueue', Refused', Pings')
      BY <2>1, <2>2, <2>3, LineEnds, RingSets
    <3>2. todo' = <<>>
      BY <2>1, <2>3
    <3>3. Commanding'
      BY <2>1, <3>1, <3>2 DEF Commanding
    <3>4. QED
      BY <2>1, <3>3 DEF Underway
  <2>4. CASE c \in Refused /\ Line(Tail(todo), Refused, Pings)
    <3>1. commandQueue' \in Seq(Refused')
      BY <2>1, <2>2, <2>4, AppendProperties, RingSets
    <3>2. Line(todo', Refused', Pings')
      BY <2>1, <2>4, RingSets
    <3>3. Commanding'
      BY <2>1, <3>1, <3>2 DEF Commanding
    <3>4. QED
      BY <2>1, <3>3 DEF Underway
  <2>5. QED
    BY <1>1, <2>2, <2>3, <2>4, LineTail
<1>4. CASE ExecuteCommand
  <2> DEFINE c == Head(commandQueue)
  <2>1. /\ commandQueue # <<>> /\ commandQueue' = Tail(commandQueue) /\ writing["command"] = <<>>
        /\ NoPackets' /\ decodeQueue' = <<>> /\ UNCHANGED <<commsQueue, todo, encodeQueue, cmdResBuffer>>
    BY <1>1, <1>4 DEF ExecuteCommand, NoPackets, encoder
  <2>2. CASE c \in Refused
    <3>1. UNCHANGED <<alarms, downlinkReady, writing>>
      BY <1>4, <2>2 DEF ExecuteCommand, Refused
    <3>2. OnlyCommands' /\ NoBytes'
      BY <1>1, <2>1, <3>1 DEF OnlyCommands, NoBytes
    <3>3. CASE commandQueue \in Seq(Refused) /\ Line(todo, Refused, Pings)
      <4>1. commandQueue' \in Seq(Refused') /\ Line(todo', Refused', Pings')
        BY <2>1, <3>3, HeadTailProperties, RingSets
      <4>2. Commanding'
        BY <2>1, <3>2, <4>1 DEF Commanding
      <4>3. QED
        BY <2>1, <3>2, <4>2 DEF Underway
    <3>4. CASE todo = <<>> /\ Line(commandQueue, Refused, Pings)
      <4>1. c \notin Pings
        BY <2>2 DEF Refused, Pings
      <4>2. Line(commandQueue', Refused', Pings')
        BY <1>1, <2>1, <3>4, <4>1, LineTail, RingSets
      <4>3. Commanding'
        BY <2>1, <3>2, <3>4, <4>2 DEF Commanding
      <4>4. QED
        BY <2>1, <3>2, <4>3 DEF Underway
    <3>5. QED
      BY <3>3, <3>4 DEF Commanding
  <2>3. CASE c \notin Refused
    <3>1. todo = <<>> /\ Line(commandQueue, Refused, Pings)
      <4>1. commandQueue \notin Seq(Refused)
        BY <2>1, <2>3, HeadTailProperties
      <4>2. QED
        BY <4>1 DEF Commanding
    <3>2. c \in Pings /\ Tail(commandQueue) = <<>>
      BY <1>1, <2>3, <3>1, LineTail
    <3>3. /\ c.kind = "ping" /\ c.id \in Ids
      BY <3>2 DEF Pings, Commands
    <3>4. /\ UNCHANGED alarms /\ downlinkReady' = (downlinkReady \/ c.kind = "telem")
          /\ writing' = [writing EXCEPT !["command"] = ResponseBytes(c.id)]
      BY <1>4, <3>3 DEF ExecuteCommand
    <3>5. writing \in [Producers -> Seq(EncodeEvents)] /\ Producers = {"command", "alarm", "telemetry"}
      BY Queues DEF Producers
    <3>6. /\ writing'["command"] = ResponseBytes(c.id) /\ writing'["alarm"] = writing["alarm"]
          /\ writing'["telemetry"] = writing["telemetry"]
      BY <3>4, <3>5
    <3>7. OnlyCommands'
      BY <3>3, <3>4, <3>6 DEF OnlyCommands
    <3>8. /\ Len(writing'["command"]) = ResponseChunks
          /\ \A k \in 1 .. ResponseChunks : writing'["command"][k] # TelemFile
      <4>1. ResponseBytes(c.id) \in [1 .. ResponseChunks -> EncodeEvents] /\ ResponseChunks \in Nat
        BY <3>3, PipelineAssumption DEF ResponseBytes, EncodeEvents
      <4>2. Len(ResponseBytes(c.id)) = ResponseChunks
        BY <4>1, Listed
      <4>3. \A k \in 1 .. ResponseChunks : ResponseBytes(c.id)[k] # TelemFile
        BY DEF ResponseBytes, Response, TelemFile
      <4>4. QED
        BY <3>6, <4>2, <4>3
    <3>9. encodeQueue' = <<>> /\ cmdResBuffer' = <<>> /\ Len(<<>>) = 0
      BY <1>1, <2>1, EmptySeq DEF NoBytes
    <3>10. NoCommands'
      BY <2>1, <3>1, <3>2 DEF NoCommands
    <3>11. ResponseChunks \in Nat
      BY PipelineAssumption
    <3>12. Len(cmdResBuffer') + Len(encodeQueue') + Len(writing'["command"]) = ResponseChunks
      BY <3>8, <3>9, <3>11
    <3>13. \A k \in 1 .. Len(encodeQueue') : encodeQueue'[k] # TelemFile
      BY <3>9
    <3>14. Collecting'
      BY <2>1, <3>8, <3>10, <3>12, <3>13, RingSets DEF Collecting
    <3>15. QED
      BY <2>1, <3>7, <3>14 DEF Underway
  <2>4. QED
    BY <2>2, <2>3
<1>5. QED
  BY <1>2, <1>3, <1>4

\* The bytes are written and collected, and the last one fills the buffer.
LEMMA CollectingKept ==
  ASSUME IInv, OnlyCommands, RingStep, Collecting
  PROVE  OnlyCommands' /\ Underway' /\ UNCHANGED commsQueue
<1> DEFINE w == writing["command"]
           e == encodeQueue
           b == cmdResBuffer
<1>1. /\ decodeQueue = <<>> /\ NoCommands /\ outbox = <<>> /\ transmitQueue = <<>>
      /\ \A k \in 1 .. Len(e) : e[k] # TelemFile
      /\ \A k \in 1 .. Len(w) : w[k] # TelemFile
      /\ Len(b) + Len(e) + Len(w) = ResponseChunks
  BY DEF Collecting, NoPackets
<1>2. /\ writing \in [Producers -> Seq(EncodeEvents)] /\ Producers = {"command", "alarm", "telemetry"}
      /\ w \in Seq(EncodeEvents) /\ e \in Seq(EncodeEvents) /\ b \in Seq(Ids)
      /\ Len(b) < ResponseChunks /\ ResponseChunks \in Nat
      /\ Len(w) \in Nat /\ Len(e) \in Nat /\ Len(b) \in Nat
  <2>1. /\ writing \in [Producers -> Seq(EncodeEvents)] /\ Producers = {"command", "alarm", "telemetry"}
        /\ w \in Seq(EncodeEvents) /\ e \in Seq(EncodeEvents) /\ b \in Seq(Ids)
        /\ Len(b) < ResponseChunks /\ ResponseChunks \in Nat
    BY Queues, PipelineAssumption DEF Producers
  <2> HIDE DEF w, e, b
  <2>2. QED
    BY <2>1, LenProperties
<1>3. e # <<>> => Head(e) # TelemFile /\ Len(Tail(e)) = Len(e) - 1 /\ Tail(e) \in Seq(EncodeEvents)
                  /\ \A k \in 1 .. Len(Tail(e)) : Tail(e)[k] # TelemFile
  <2>1. SUFFICES ASSUME e # <<>>
                 PROVE  /\ Head(e) # TelemFile /\ Len(Tail(e)) = Len(e) - 1 /\ Tail(e) \in Seq(EncodeEvents)
                        /\ \A k \in 1 .. Len(Tail(e)) : Tail(e)[k] # TelemFile
    OBVIOUS
  <2> HIDE DEF e
  <2>2. /\ Len(e) \in Nat \ {0} /\ Head(e) = e[1] /\ Tail(e) \in Seq(EncodeEvents)
        /\ Len(Tail(e)) = Len(e) - 1 /\ \A k \in 1 .. Len(e) - 1 : Tail(e)[k] = e[k + 1]
    BY <1>2, <2>1, HeadTailProperties, EmptySeq
  <2>3. \A k \in 1 .. Len(e) - 1 : k + 1 \in 1 .. Len(e)
    BY <2>2
  <2>4. QED
    BY <1>1, <2>2, <2>3
<1>4. WriteEncodeQueue("command") \/ EncodeResponse
  BY <1>1, <1>3, RingActs DEF Decoder, Encoder, NoCommands, DecodeNothing, DecodeCommands, DecodeUFrame,
                              PassCommand, ExecuteCommand, EncodeFile, SendTransmit
<1>5. CASE WriteEncodeQueue("command")
  <2> DEFINE x == Head(w)
             w1 == writing'["command"]
             e1 == encodeQueue'
  <2>1. /\ w # <<>> /\ e1 = Append(e, x) /\ writing' = [writing EXCEPT !["command"] = Tail(w)]
        /\ UNCHANGED <<decodeQueue, todo, commandQueue, cmdResBuffer, outbox, transmitQueue, commsQueue,
                       alarms, downlinkReady>>
    BY <1>5 DEF WriteEncodeQueue, uplink, encoder
  <2>2. /\ w1 = Tail(w) /\ writing'["alarm"] = writing["alarm"]
        /\ writing'["telemetry"] = writing["telemetry"]
    BY <1>2, <2>1
  <2>3. OnlyCommands'
    BY <2>1, <2>2 DEF OnlyCommands
  <2> HIDE DEF w, w1, e, e1, x
  <2>4. /\ Len(w) \in Nat \ {0} /\ x = w[1] /\ x \in EncodeEvents
        /\ Len(w1) = Len(w) - 1 /\ \A k \in 1 .. Len(w) - 1 : w1[k] = w[k + 1]
    BY <1>2, <2>1, <2>2, HeadTailProperties, EmptySeq DEF x
  <2>5. /\ Len(e1) = Len(e) + 1 /\ e1[Len(e) + 1] = x /\ \A k \in 1 .. Len(e) : e1[k] = e[k]
    BY <1>2, <2>1, <2>4, AppendProperties
  <2>6. \A k \in 1 .. Len(w1) : w1[k] # TelemFile
    <3>1. \A k \in 1 .. Len(w) - 1 : k + 1 \in 1 .. Len(w)
      BY <2>4
    <3>2. QED
      BY <1>1, <2>4, <3>1
  <2>7. \A k \in 1 .. Len(e1) : e1[k] # TelemFile
    <3>1. x # TelemFile
      BY <1>1, <2>4
    <3>2. \A k \in 1 .. Len(e) + 1 : k \in 1 .. Len(e) \/ k = Len(e) + 1
      BY <1>2
    <3>3. QED
      BY <1>1, <2>5, <3>1, <3>2
  <2>8. Len(cmdResBuffer') + Len(e1) + Len(w1) = ResponseChunks
    <3>1. cmdResBuffer' = b
      BY <2>1
    <3> DEFINE lw == Len(w)
               le == Len(e)
               lb == Len(b)
    <3>2. /\ lb + le + lw = ResponseChunks /\ lb \in Nat /\ le \in Nat /\ lw \in Nat
          /\ Len(w1) = lw - 1 /\ Len(e1) = le + 1 /\ Len(cmdResBuffer') = lb
      BY <1>1, <1>2, <2>4, <2>5, <3>1
    <3> HIDE DEF lw, le, lb
    <3>3. lb + (le + 1) + (lw - 1) = ResponseChunks
      BY <3>2
    <3>4. QED
      BY <3>2, <3>3
  <2>9. decodeQueue' = <<>> /\ NoCommands' /\ NoPackets'
    BY <1>1, <2>1 DEF NoCommands, NoPackets
  <2>10. Collecting'
    BY <2>6, <2>7, <2>8, <2>9, RingSets DEF Collecting, e1, w1
  <2>11. QED
    BY <2>1, <2>3, <2>10 DEF Underway
<1>6. CASE EncodeResponse
  <2> DEFINE x == Head(e)
             bytes == Append(b, x.id)
  <2>1. /\ e # <<>> /\ encodeQueue' = Tail(e)
        /\ UNCHANGED <<decodeQueue, todo, commandQueue, transmitQueue, commsQueue,
                       alarms, downlinkReady, writing>>
        /\ x.type = "DOWNLINK_CMD_RESPONSE"
        /\ IF Filled(bytes) THEN cmdResBuffer' = <<>> /\ outbox' = <<Packet(bytes), End>>
                            ELSE cmdResBuffer' = bytes /\ outbox' = outbox
    BY <1>6 DEF EncodeResponse, ResponseDownlink, uplink, sources
  <2>2. OnlyCommands' /\ decodeQueue' = <<>> /\ NoCommands'
    BY <1>1, <2>1 DEF OnlyCommands, NoCommands
  <2>3. x.id \in Ids /\ bytes \in Seq(Ids) /\ Len(bytes) = Len(b) + 1
    <3>1. x \in EncodeEvents
      BY <1>2, <2>1, HeadTailProperties
    <3>2. x.id \in Ids
      BY <2>1, <3>1 DEF EncodeEvents, Response, TelemFile
    <3> HIDE DEF b, x
    <3>3. QED
      BY <1>2, <3>2, AppendProperties
  <2>4. Len(Tail(e)) = Len(e) - 1 /\ Len(Tail(e)) \in Nat
    BY <1>2, <1>3, <2>1, LenProperties
  <2> HIDE DEF x, bytes, b, e, w
  <2>5. CASE Filled(bytes)
    <3>1. Len(w) = 0 /\ Len(Tail(e)) = 0
      <4> DEFINE lw == Len(w)
                 le == Len(e)
                 lt == Len(Tail(e))
                 lb == Len(b)
      <4>1. lb + le + lw = ResponseChunks /\ lb \in Nat /\ le \in Nat /\ lw \in Nat /\ lt \in Nat
            /\ lt = le - 1 /\ lb < ResponseChunks /\ ResponseChunks \in Nat
        BY <1>1, <1>2, <2>4
      <4>2. lb + 1 >= ResponseChunks
        BY <2>3, <2>5 DEF Filled
      <4> HIDE DEF lw, le, lt, lb
      <4>3. lw = 0 /\ lt = 0
        BY <4>1, <4>2
      <4>4. QED
        BY <4>3 DEF lw, lt
    <3>2. writing["command"] = <<>> /\ encodeQueue' = <<>>
      BY <1>2, <1>3, <2>1, <3>1, EmptySeq DEF w
    <3>3. cmdResBuffer' = <<>> /\ outbox' = <<Packet(bytes), End>> /\ transmitQueue' = <<>>
      BY <1>1, <2>1, <2>5
    <3>4. Packet(bytes) \in TransmitEvents' /\ Packet(bytes) # End'
      BY <2>3, RingSets DEF Packet, End, TransmitEvents
    <3>5. NoBytes'
      BY <2>1, <3>2, <3>3 DEF NoBytes
    <3> DEFINE p == Packet(bytes)
    <3>6. p \in TransmitEvents' /\ p # End' /\ outbox' = <<p, End'>> /\ transmitQueue' = <<>>
      BY <3>3, <3>4, RingSets
    <3> HIDE DEF p
    <3>7. Packaged'
      BY <2>2, <3>5, <3>6 DEF Packaged
    <3>8. QED
      BY <2>1, <2>2, <3>7 DEF Underway
  <2>6. CASE ~Filled(bytes)
    <3>1. cmdResBuffer' = bytes /\ outbox' = <<>> /\ transmitQueue' = <<>>
      BY <1>1, <2>1, <2>6
    <3>2. Len(cmdResBuffer') + Len(encodeQueue') + Len(writing'["command"]) = ResponseChunks
      <4>1. encodeQueue' = Tail(e) /\ writing'["command"] = w
        BY <2>1 DEF w
      <4> DEFINE lw == Len(w)
                 le == Len(e)
                 lb == Len(b)
      <4>2. /\ lb + le + lw = ResponseChunks /\ lb \in Nat /\ le \in Nat /\ lw \in Nat
            /\ Len(cmdResBuffer') = lb + 1 /\ Len(encodeQueue') = le - 1
            /\ Len(writing'["command"]) = lw
        BY <1>1, <1>2, <2>3, <2>4, <3>1, <4>1
      <4> HIDE DEF lw, le, lb
      <4>3. (lb + 1) + (le - 1) + lw = ResponseChunks
        BY <4>2
      <4>4. QED
        BY <4>2, <4>3
    <3>3. /\ \A k \in 1 .. Len(encodeQueue') : encodeQueue'[k] # TelemFile
          /\ \A k \in 1 .. Len(writing'["command"]) : writing'["command"][k] # TelemFile
      BY <1>1, <1>3, <2>1 DEF w, e
    <3>4. Collecting'
      BY <2>2, <3>1, <3>2, <3>3, RingSets DEF Collecting, NoPackets
    <3>5. QED
      BY <2>1, <2>2, <3>4 DEF Underway
  <2>7. QED
    BY <2>5, <2>6
<1>7. QED
  BY <1>4, <1>5, <1>6

\* A packet and its end move on to the comms manager.
LEMMA PackagedKept ==
  ASSUME IInv, OnlyCommands, RingStep, decodeQueue = <<>>, NoCommands, NoBytes
  PROVE  /\ OnlyCommands' /\ decodeQueue' = <<>> /\ NoCommands' /\ NoBytes' /\ UNCHANGED commsQueue
         /\ outbox # <<>> /\ outbox' = Tail(outbox) /\ transmitQueue' = Append(transmitQueue, Head(outbox))
<1>1. SendTransmit
  BY RingActs DEF Decoder, Encoder, NoCommands, NoBytes, DecodeNothing, DecodeCommands, DecodeUFrame,
                  PassCommand, ExecuteCommand, WriteEncodeQueue, EncodeResponse, EncodeFile
<1>2. QED
  BY <1>1 DEF SendTransmit, OnlyCommands, NoCommands, NoBytes, uplink, sources

LEMMA UnderwayKept ==
  ASSUME IInv, OnlyCommands, RingStep, Underway
  PROVE  OnlyCommands' /\ Underway' /\ UNCHANGED commsQueue
<1>1. CASE Packaged
  <2>1. /\ OnlyCommands' /\ decodeQueue' = <<>> /\ NoCommands' /\ NoBytes' /\ UNCHANGED commsQueue
        /\ outbox # <<>> /\ outbox' = Tail(outbox) /\ transmitQueue' = Append(transmitQueue, Head(outbox))
    BY <1>1, PackagedKept DEF Packaged
  <2>2. ASSUME NEW p \in TransmitEvents, p # End, outbox = <<p, End>>, transmitQueue = <<>>
        PROVE  Packaged'
    <3>1. outbox' = <<End>> /\ transmitQueue' = <<p>>
      BY <2>1, <2>2, OneTwo
    <3>2. p \in TransmitEvents' /\ p # End' /\ outbox' = <<End'>> /\ transmitQueue' = <<p>>
      BY <2>2, <3>1, RingSets
    <3>3. QED
      BY <2>1, <3>2 DEF Packaged
  <2>3. ASSUME NEW p \in TransmitEvents, p # End, outbox = <<End>>, transmitQueue = <<p>>
        PROVE  Packaged'
    <3>1. outbox' = <<>> /\ transmitQueue' = <<p, End>>
      BY <2>1, <2>3, OneTwo
    <3>2. p \in TransmitEvents' /\ p # End' /\ outbox' = <<>> /\ transmitQueue' = <<p, End'>>
      BY <2>3, <3>1, RingSets
    <3>3. QED
      BY <2>1, <3>2 DEF Packaged
  <2>4. Packaged'
    BY <1>1, <2>1, <2>2, <2>3 DEF Packaged
  <2>5. QED
    BY <2>1, <2>4 DEF Underway
<1>2. QED
  BY <1>1, DecodingKept, CommandingKept, CollectingKept DEF Underway

LEMMA EndingKept ==
  ASSUME IInv, OnlyCommands, RingStep, Ending
  PROVE  OnlyCommands' /\ Ending' /\ UNCHANGED commsQueue
<1>1. /\ OnlyCommands' /\ decodeQueue' = <<>> /\ NoCommands' /\ NoBytes' /\ UNCHANGED commsQueue
      /\ outbox # <<>> /\ outbox' = Tail(outbox) /\ transmitQueue' = Append(transmitQueue, Head(outbox))
  BY PackagedKept DEF Ending
<1>2. outbox = <<End>> /\ transmitQueue = <<>>
  BY <1>1 DEF Ending
<1>3. outbox' = <<>> /\ transmitQueue' = <<End'>>
  BY <1>1, <1>2, OneTwo, RingSets
<1>4. QED
  BY <1>1, <1>3 DEF Ending

\* An empty ring does nothing.
LEMMA DrainedStops == IInv /\ OnlyCommands /\ Drained => ~RingStep
BY PackagedKept DEF Drained, NoPackets

\* What the decoder does before the last chunk of a frame is there.
LEMMA PushingKept ==
  ASSUME IInv, OnlyCommands, RingStep, NoCommands, NoBytes, NoPackets, decodeQueue \in Seq({Partial})
  PROVE  /\ OnlyCommands' /\ NoCommands' /\ NoBytes' /\ NoPackets' /\ UNCHANGED commsQueue
         /\ decodeQueue' \in Seq({Partial})
<1>1. /\ DecodeNothing \/ DecodeCommands \/ DecodeUFrame
      /\ OnlyCommands' /\ NoBytes' /\ NoPackets'
  BY RingDecodes
<1>2. decodeQueue # <<>> /\ decodeQueue' = Tail(decodeQueue)
  BY <1>1 DEF DecodeNothing, DecodeCommands, DecodeUFrame
<1>3. Head(decodeQueue) = Partial /\ decodeQueue' \in Seq({Partial})
  BY <1>2, HeadTailProperties
<1>4. DecodeNothing
  BY <1>1, <1>3 DEF Partial, DecodeCommands, DecodeUFrame
<1>5. QED
  BY <1>1, <1>3, <1>4 DEF DecodeNothing, NoCommands

\* The first frame, or what is not one.
LEMMA ConnectingKept ==
  ASSUME IInv, IInv', OnlyCommands, RingStep, commsState = "AWAITING_CONN", Connecting
  PROVE  OnlyCommands' /\ Connecting'
<1>1. /\ DecodeNothing \/ DecodeCommands \/ DecodeUFrame
      /\ OnlyCommands' /\ NoBytes' /\ NoPackets'
  BY RingDecodes DEF Connecting
<1>2. /\ decodeQueue # <<>> /\ decodeQueue' = Tail(decodeQueue) /\ UNCHANGED <<cm, rx, commandQueue>>
  BY <1>1 DEF DecodeNothing, DecodeCommands, DecodeUFrame, manager
<1>3. todo = <<>> /\ commandQueue = <<>>
  BY DEF Connecting, NoCommands
<1>4. CASE decodeQueue \in Seq(Noise)
  <2>1. Head(decodeQueue) \in Noise /\ decodeQueue' \in Seq(Noise')
    BY <1>2, <1>4, HeadTailProperties, RingSets
  <2>2. DecodeNothing
    BY <1>1, <2>1 DEF Noise, DecodeCommands, DecodeUFrame
  <2>3. UNCHANGED <<todo, commsQueue>>
    BY <2>2 DEF DecodeNothing
  <2>4. NoCommands'
    BY <1>2, <1>3, <2>3 DEF NoCommands
  <2>5. \/ cm = "push" /\ commsQueue = <<>> /\ rx.frame \in Noise
        \/ cm = "idle" /\ commsQueue = <<>>
    <3>1. CASE Len(decodeQueue) = 1 /\ decodeQueue[1] \in EventFrames /\ cm = "idle" /\ commsQueue = <<>>
      BY <3>1
    <3>2. QED
      BY <1>2, <3>1 DEF Connecting
  <2>6. QED
    BY <1>1, <1>2, <2>1, <2>3, <2>4, <2>5, RingSets DEF Connecting
<1>5. CASE decodeQueue \notin Seq(Noise)
  <2>1. cm = "idle" /\ commsQueue = <<>> /\ Len(decodeQueue) = 1 /\ decodeQueue[1] \in EventFrames
    BY <1>2, <1>5 DEF Connecting
  <2>2. decodeQueue \in Seq(Frames \cup {Partial})
    BY Queues
  <2>3. Head(decodeQueue) \in EventFrames /\ decodeQueue' = <<>>
    <3>1. Head(decodeQueue) = decodeQueue[1]
      BY <1>2, <2>2, HeadTailProperties
    <3>2. Tail(decodeQueue) \in Seq(Frames \cup {Partial}) /\ Len(Tail(decodeQueue)) = 0
      BY <1>2, <2>1, <2>2, HeadTailProperties
    <3>3. QED
      BY <1>2, <2>1, <3>1, <3>2, EmptySeq
  <2> DEFINE f == Head(decodeQueue)
  <2>4. f.kind \in {"conn", "ack", "disc"} /\ f.cmds = <<>>
    BY <2>3 DEF EventFrames
  <2>5. DecodeUFrame
    BY <1>1, <2>4 DEF DecodeNothing, DecodeCommands
  <2>6. commsQueue' = SentToCommsQueue(Received(f.kind)) /\ todo' = <<>>
    BY <2>4, <2>5 DEF DecodeUFrame
  <2>7. Received(f.kind) \in Messages
    BY <2>4 DEF Received, Messages
  <2>8. commsQueue' = <<Received(f.kind)>>
    <3>1. Len(commsQueue) = 0 /\ CommsQueueLength \in Nat \ {0}
      BY <2>1, EmptySeq, PipelineAssumption
    <3>2. commsQueue' = Append(<<>>, Received(f.kind))
      BY <2>1, <2>6, <3>1 DEF SentToCommsQueue
    <3>3. QED
      BY <3>2, OneTwo
  <2>9. NoCommands'
    BY <1>2, <1>3, <2>6 DEF NoCommands
  <2> HIDE DEF f
  <2>10. cm' = "idle" /\ decodeQueue' = <<>> /\ \E e \in Messages : commsQueue' = <<e>>
    BY <1>2, <2>1, <2>3, <2>7, <2>8
  <2>11. QED
    BY <1>1, <2>9, <2>10 DEF Connecting, Messages
<1>6. QED
  BY <1>4, <1>5

\* Every step of the ring.
LEMMA RingKept ==
  ASSUME IInv, IInv', OneAtATime, RingStep
  PROVE  OneAtATime'
<1>1. UNCHANGED <<commsState, cm, rx, sent>>
  BY RingLeaves DEF manager
<1>2. Ended /\ UNCHANGED commsQueue => Ended'
  BY <1>1 DEF Ended, Completion
<1>3. CASE commsState = "AWAITING_CONN"
  <2>1. Connecting
    BY <1>3 DEF OneAtATime
  <2>2. OnlyCommands' /\ Connecting'
    BY <1>3, <2>1, ConnectingKept DEF OneAtATime
  <2>3. QED
    BY <1>1, <1>3, <2>2 DEF OneAtATime
<1>4. CASE commsState = "SENDING_ACK"
  BY <1>4, DrainedStops DEF OneAtATime
<1>5. CASE commsState = "UPLINKING"
  <2>1. OnlyCommands /\ Uplinking
    BY <1>5 DEF OneAtATime
  <2>2. CASE cm = "push" /\ commsQueue = <<>> /\ NoCommands /\ NoBytes /\ NoPackets
             /\ rx.frame \in AnswerFrames /\ decodeQueue \in Seq({Partial})
    <3>1. /\ OnlyCommands' /\ NoCommands' /\ NoBytes' /\ NoPackets' /\ UNCHANGED commsQueue
          /\ decodeQueue' \in Seq({Partial})
      BY <2>1, <2>2, PushingKept
    <3>2. Uplinking'
      BY <1>1, <2>2, <3>1, RingSets DEF Uplinking
    <3>3. QED
      BY <1>1, <1>5, <3>1, <3>2 DEF OneAtATime
  <2>3. CASE Ended /\ Underway
    <3>1. OnlyCommands' /\ Underway' /\ UNCHANGED commsQueue
      BY <2>1, <2>3, UnderwayKept
    <3>2. QED
      BY <1>1, <1>2, <1>5, <2>3, <3>1 DEF OneAtATime, Uplinking
  <2>4. QED
    BY <2>1, <2>2, <2>3, DrainedStops DEF Uplinking
<1>6. CASE commsState = "DOWNLINKING"
  <2>1. OnlyCommands /\ Downlinking
    BY <1>6 DEF OneAtATime
  <2>2. CASE cm = "downlink" /\ commsQueue = <<>> /\ sent = 0 /\ Underway
    <3>1. OnlyCommands' /\ Underway' /\ UNCHANGED commsQueue
      BY <2>1, <2>2, UnderwayKept
    <3>2. QED
      BY <1>1, <1>6, <2>2, <3>1 DEF OneAtATime, Downlinking
  <2>3. CASE cm = "downlink" /\ commsQueue = <<>> /\ sent = 1 /\ Ending
    <3>1. OnlyCommands' /\ Ending' /\ UNCHANGED commsQueue
      BY <2>1, <2>3, EndingKept
    <3>2. QED
      BY <1>1, <1>6, <2>3, <3>1 DEF OneAtATime, Downlinking
  <2>4. QED
    BY <2>1, <2>2, <2>3, DrainedStops DEF Downlinking
<1>7. QED
  BY <1>3, <1>4, <1>5, <1>6 DEF OneAtATime

\* A frame with its commands numbered is of the same kind as before.
LEMMA NumberedFrames ==
  ASSUME OneAnswerFrames, IInv, NEW f \in ConnUplinks \cup Uplinks, nextId + Len(f.cmds) <= MaxCommands + 1
  PROVE  LET g == [kind |-> f.kind, cmds |-> Numbered(f.cmds)]
         IN  /\ f \in Uplinks => g \in AnswerFrames
             /\ f \in ConnUplinks => g \in EventFrames \/ (g \in Noise /\ g.kind = "corrupt")
<1> DEFINE s == f.cmds
           t == Numbered(s)
           n == Len(s)
           g == [kind |-> f.kind, cmds |-> t]
<1>1. f.kind \in FrameKinds /\ s \in Seq(CommandKinds) /\ (f \in ConnUplinks => f.kind # "data")
  BY PipelineAssumption
<1>2. n \in Nat /\ DOMAIN s = 1 .. n
  BY <1>1, LenProperties
<1>3. t \in Seq(Commands) /\ g \in Frames
  <2>1. t \in Seq(Commands)
    BY <1>1, NumberedTypes DEF IInv, TypeGround
  <2>2. QED
    BY <1>1, <2>1 DEF Frames
<1>4. t = [k \in 1 .. n |-> [id |-> nextId + k - 1, kind |-> s[k]]]
  BY <1>2 DEF Numbered
<1>5. \A k \in 1 .. n : t[k].kind = s[k]
  BY <1>4
<1>6. Len(t) = n
  <2>1. DOMAIN t = 1 .. n /\ DOMAIN t = 1 .. Len(t) /\ Len(t) \in Nat
    BY <1>3, <1>4, LenProperties
  <2>2. QED
    BY <1>2, <2>1
<1>7. \A k \in 1 .. n : t[k] \in Commands
  BY <1>3, <1>6, ElementOfSeq
<1>8. g.cmds = t /\ g.kind = f.kind
  OBVIOUS
<1> HIDE DEF t, g
<1>9. ASSUME f \in Uplinks
      PROVE  g \in AnswerFrames
  <2>1. f.kind = "data" /\ s # <<>> /\ \A k \in 1 .. n : s[k] \in (IF k = n THEN {"ping"} ELSE {"refused"})
    BY <1>9 DEF OneAnswerFrames, Line
  <2>2. t # <<>>
    BY <1>1, <1>3, <1>6, <2>1, EmptySeq
  <2>3. \A k \in 1 .. n : t[k] \in (IF k = n THEN Pings ELSE Refused)
    BY <1>5, <1>7, <2>1 DEF Pings, Refused
  <2>4. Line(t, Refused, Pings)
    BY <1>6, <2>2, <2>3 DEF Line
  <2>5. QED
    BY <1>3, <1>8, <2>1, <2>4 DEF AnswerFrames
<1>10. ASSUME f \in ConnUplinks
       PROVE  g \in EventFrames \/ (g \in Noise /\ g.kind = "corrupt")
  <2>1. n = 0
    BY <1>10, EmptySeq DEF OneAnswerFrames
  <2>2. t = <<>>
    BY <1>3, <1>6, <2>1, EmptySeq
  <2>3. CASE f.kind = "corrupt"
    BY <1>3, <1>8, <2>3 DEF Noise
  <2>4. CASE f.kind \in {"conn", "ack", "disc"}
    <3>1. g \in Frames /\ g.kind \in {"conn", "ack", "disc"} /\ g.cmds = <<>>
      BY <1>3, <1>8, <2>2, <2>4
    <3>2. QED
      BY <3>1 DEF EventFrames
  <2>5. QED
    BY <1>1, <1>10, <2>3, <2>4 DEF FrameKinds
<1>11. QED
  BY <1>9, <1>10 DEF g, t

LEMMA ReadFrameOne ==
  ASSUME OneAnswerFrames, IInv, OneAtATime, NEW f \in ConnUplinks \cup Uplinks, ReadFrame(f)
  PROVE  OneAtATime'
<1> DEFINE g == [kind |-> f.kind, cmds |-> Numbered(f.cmds)]
<1>1. /\ cm = "read" /\ cm' = "push" /\ rx'.frame = g /\ rx'.left = Chunks(f)
      /\ UNCHANGED <<commsState, commsQueue, decodeQueue, todo, commandQueue, encodeQueue, transmitQueue,
                     alarms, downlinkReady, writing, cmdResBuffer, outbox>>
      /\ f \in (IF commsState = "AWAITING_CONN" THEN ConnUplinks ELSE Uplinks)
      /\ nextId + Len(f.cmds) <= MaxCommands + 1
  BY DEF ReadFrame, uplink, sources, encoder
<1>2. /\ f \in Uplinks => g \in AnswerFrames
      /\ f \in ConnUplinks => g \in EventFrames \/ (g \in Noise /\ g.kind = "corrupt")
  BY <1>1, NumberedFrames
<1>3. g.kind = f.kind
  OBVIOUS
<1> HIDE DEF g
<1>4. OnlyCommands' /\ (Drained => decodeQueue' = <<>> /\ NoCommands' /\ NoBytes' /\ NoPackets')
  BY <1>1 DEF OneAtATime, OnlyCommands, Drained, NoCommands, NoBytes, NoPackets
<1>5. CASE commsState = "AWAITING_CONN"
  <2>1. Drained /\ commsQueue = <<>>
    BY <1>1, <1>5 DEF OneAtATime, Connecting, Drained
  <2>2. CASE g \in EventFrames
    <3>1. rx'.frame \in EventFrames' /\ rx'.left = 1
      BY <1>1, <1>3, <2>2, RingSets DEF EventFrames, Chunks
    <3>2. Connecting'
      BY <1>1, <1>4, <2>1, <3>1 DEF Connecting
    <3>3. QED
      BY <1>1, <1>4, <1>5, <3>2 DEF OneAtATime
  <2>3. CASE g \in Noise
    <3>1. rx'.frame \in Noise' /\ decodeQueue' \in Seq(Noise')
      BY <1>1, <1>4, <2>1, <2>3, RingSets, EmptySeq
    <3>2. Connecting'
      BY <1>1, <1>4, <2>1, <3>1 DEF Connecting
    <3>3. QED
      BY <1>1, <1>4, <1>5, <3>2 DEF OneAtATime
  <2>4. QED
    BY <1>1, <1>2, <1>5, <2>2, <2>3
<1>6. CASE commsState = "UPLINKING"
  <2>1. Drained /\ commsQueue = <<>>
    BY <1>1, <1>6 DEF OneAtATime, Uplinking, Ended
  <2>2. rx'.frame \in AnswerFrames' /\ decodeQueue' \in Seq({Partial'})
    BY <1>1, <1>2, <1>4, <1>6, <2>1, RingSets, EmptySeq
  <2>3. Uplinking'
    BY <1>1, <1>4, <2>1, <2>2 DEF Uplinking
  <2>4. QED
    BY <1>1, <1>4, <1>6, <2>3 DEF OneAtATime
<1>7. QED
  BY <1>1, <1>5, <1>6 DEF OneAtATime, Downlinking, Ended

LEMMA PushChunkOne ==
  ASSUME IInv, OneAtATime, PushChunk
  PROVE  OneAtATime'
<1> DEFINE x == IF rx.left = 1 THEN rx.frame ELSE Partial
<1>1. /\ cm = "push" /\ rx.left \in Nat \ {0}
      /\ decodeQueue' = Append(decodeQueue, x)
      /\ cm' = IF rx.left > 1 THEN "push" ELSE IF commsState = "UPLINKING" THEN "post" ELSE "idle"
      /\ UNCHANGED <<commsState, commsQueue, todo, commandQueue, encodeQueue, transmitQueue,
                     alarms, downlinkReady, writing, cmdResBuffer, outbox>>
  BY PipelineAssumption DEF PushChunk, IInv, TypeManager, Handlers, sources, encoder
<1>2. rx'.frame = rx.frame
  BY DEF PushChunk, IInv, TypeManager
<1>3. OnlyCommands' /\ NoCommands' /\ NoBytes' /\ NoPackets' /\ NoCommands /\ NoBytes /\ NoPackets
  BY <1>1 DEF OneAtATime, OnlyCommands, Connecting, Uplinking, Downlinking, Ended, NoCommands, NoBytes,
              NoPackets
<1>4. Partial \in Noise
  BY DEF Noise, Partial
<1>5. CASE commsState = "AWAITING_CONN"
  <2>1. commsQueue = <<>> /\ Connecting
    BY <1>1, <1>5 DEF OneAtATime, Connecting
  <2>2. CASE rx.frame \in Noise /\ decodeQueue \in Seq(Noise)
    <3>1. x \in Noise
      BY <1>4, <2>2
    <3> HIDE DEF x
    <3>2. decodeQueue' \in Seq(Noise')
      BY <1>1, <2>2, <3>1, AppendProperties, RingSets
    <3>3. Connecting'
      BY <1>1, <1>2, <1>3, <1>5, <2>1, <2>2, <3>2, RingSets DEF Connecting
    <3>4. QED
      BY <1>1, <1>3, <1>5, <3>3 DEF OneAtATime
  <2>3. CASE rx.frame \in EventFrames /\ rx.left = 1 /\ decodeQueue = <<>>
    <3>1. decodeQueue' = <<rx.frame>> /\ cm' = "idle"
      BY <1>1, <1>5, <2>3, OneTwo
    <3>2. Len(decodeQueue') = 1 /\ decodeQueue'[1] \in EventFrames'
      BY <2>3, <3>1, OneTwo, RingSets
    <3>3. Connecting'
      BY <1>1, <1>3, <2>1, <3>1, <3>2 DEF Connecting
    <3>4. QED
      BY <1>1, <1>3, <1>5, <3>3 DEF OneAtATime
  <2>4. QED
    BY <1>1, <2>1, <2>2, <2>3 DEF Connecting
<1>6. CASE commsState = "UPLINKING"
  <2>1. commsQueue = <<>> /\ rx.frame \in AnswerFrames /\ decodeQueue \in Seq({Partial})
    BY <1>1, <1>6 DEF OneAtATime, Uplinking, Ended
  <2>2. CASE rx.left = 1
    <3>1. Line(decodeQueue', {Partial'}, AnswerFrames')
      BY <1>1, <2>1, <2>2, LineEnds, RingSets
    <3>2. Underway' /\ Ended'
      BY <1>1, <1>3, <1>6, <2>1, <2>2, <3>1 DEF Underway, Decoding, Ended
    <3>3. QED
      BY <1>1, <1>3, <1>6, <3>2 DEF OneAtATime, Uplinking
  <2>3. CASE rx.left # 1
    <3>1. cm' = "push" /\ decodeQueue' \in Seq({Partial'})
      <4>1. x \in {Partial} /\ rx.left > 1
        BY <1>1, <2>3
      <4> HIDE DEF x
      <4>2. QED
        BY <1>1, <2>1, <4>1, AppendProperties, RingSets
    <3>2. Uplinking'
      BY <1>1, <1>2, <1>3, <2>1, <3>1, RingSets DEF Uplinking
    <3>3. QED
      BY <1>1, <1>3, <1>6, <3>2 DEF OneAtATime
  <2>4. QED
    BY <2>2, <2>3
<1>7. QED
  BY <1>1, <1>5, <1>6 DEF OneAtATime, Downlinking, Ended

\* What the events do not touch.
LEMMA RingStays ==
  ASSUME UNCHANGED <<decodeQueue, todo, commandQueue, encodeQueue, transmitQueue, alarms, downlinkReady,
                     writing, cmdResBuffer, outbox>>
  PROVE  /\ OnlyCommands => OnlyCommands'
         /\ Drained => Drained' /\ decodeQueue' = <<>> /\ NoCommands' /\ NoBytes' /\ NoPackets'
         /\ NoCommands /\ NoBytes /\ NoPackets => NoCommands' /\ NoBytes' /\ NoPackets'
         /\ Underway => Underway'
         /\ Ending => Ending'
<1>1. /\ (OnlyCommands => OnlyCommands') /\ (NoCommands => NoCommands') /\ (NoBytes => NoBytes')
      /\ (NoPackets => NoPackets')
  BY DEF OnlyCommands, NoCommands, NoBytes, NoPackets
<1>2. Decoding => Decoding'
  BY <1>1, RingSets DEF Decoding
<1>3. Commanding => Commanding'
  BY <1>1, RingSets DEF Commanding
<1>4. Collecting => Collecting'
  BY <1>1, RingSets DEF Collecting
<1>5. Packaged => Packaged'
  BY <1>1, RingSets DEF Packaged
<1>6. Ending => Ending'
  BY <1>1, RingSets DEF Ending
<1>7. QED
  BY <1>1, <1>2, <1>3, <1>4, <1>5, <1>6 DEF Underway, Drained

LEMMA PostCompletionOne ==
  ASSUME IInv, OneAtATime, PostCompletion
  PROVE  OneAtATime'
<1>1. /\ cm = "post" /\ cm' = "idle" /\ commsQueue' = SentToCommsQueue(Completion(commsState))
      /\ UNCHANGED <<commsState, decodeQueue, todo, commandQueue, encodeQueue, transmitQueue, alarms,
                     downlinkReady, writing, cmdResBuffer, outbox>>
  BY DEF PostCompletion, uplink, sources, encoder
<1>2. commsQueue = <<>>
  BY <1>1 DEF OneAtATime, Connecting, Uplinking, Downlinking, Ended
<1>3. commsQueue' = <<Completion(commsState)>>
  <2>1. Len(commsQueue) = 0 /\ CommsQueueLength \in Nat \ {0}
    BY <1>2, EmptySeq, PipelineAssumption
  <2>2. commsQueue' = Append(<<>>, Completion(commsState))
    BY <1>1, <1>2, <2>1 DEF SentToCommsQueue
  <2>3. QED
    BY <2>2, OneTwo
<1>4. Ended'
  BY <1>1, <1>3 DEF Ended, Completion
<1>5. CASE commsState = "UPLINKING"
  <2>1. Underway /\ OnlyCommands
    BY <1>1, <1>5 DEF OneAtATime, Uplinking
  <2>2. QED
    BY <1>1, <1>4, <1>5, <2>1, RingStays DEF OneAtATime, Uplinking
<1>6. CASE commsState \in {"SENDING_ACK", "DOWNLINKING"}
  <2>1. Drained /\ OnlyCommands
    BY <1>1, <1>6 DEF OneAtATime, Downlinking
  <2>2. QED
    BY <1>1, <1>4, <1>6, <2>1, RingStays DEF OneAtATime, Downlinking
<1>7. QED
  BY <1>1, <1>5, <1>6 DEF OneAtATime, Connecting

LEMMA HandleEventOne ==
  ASSUME IInv, OneAtATime, HandleEvent
  PROVE  OneAtATime'
<1> DEFINE e == Head(commsQueue)
<1>1. /\ cm = "idle" /\ commsQueue # <<>> /\ commsQueue' = Tail(commsQueue) /\ sent' = 0
      /\ \/ \E s \in NextStates(e) : commsState' = s /\ cm' = Entry(s)
         \/ NextStates(e) = {} /\ UNCHANGED <<commsState, cm>>
      /\ UNCHANGED <<decodeQueue, todo, commandQueue, encodeQueue, transmitQueue, alarms,
                     downlinkReady, writing, cmdResBuffer, outbox>>
  BY DEF HandleEvent, uplink, sources, encoder
<1>2. InLoop /\ OnlyCommands /\ OnlyCommands'
  BY <1>1, RingStays DEF OneAtATime, InLoop
<1>3. CASE commsState = "AWAITING_CONN"
  <2>1. Drained /\ \E m \in Messages : commsQueue = <<m>>
    BY <1>1, <1>3 DEF OneAtATime, Connecting, Drained
  <2>2. e \in Messages /\ commsQueue' = <<>>
    BY <1>1, <2>1, OneTwo
  <2> HIDE DEF e
  <2>3. NextStates(e) \subseteq {"SENDING_ACK"}
    BY <1>2, <1>3, <2>2, LoopTransitions
  <2>4. CASE commsState' = "SENDING_ACK" /\ cm' = Entry("SENDING_ACK")
    <3>1. cm' = "post"
      BY <2>4 DEF Entry
    <3>2. QED
      BY <1>1, <1>2, <2>1, <2>2, <2>4, <3>1, RingStays DEF OneAtATime, Ended
  <2>5. CASE UNCHANGED <<commsState, cm>>
    <3>1. decodeQueue' \in Seq(Noise')
      BY <1>1, <2>1, EmptySeq DEF Drained
    <3>2. Connecting'
      BY <1>1, <2>1, <2>2, <2>5, <3>1, RingStays DEF Connecting
    <3>3. QED
      BY <1>2, <1>3, <2>5, <3>2 DEF OneAtATime
  <2>6. QED
    BY <1>1, <2>3, <2>4, <2>5
<1>4. CASE commsState # "AWAITING_CONN"
  <2>1. Ended /\ (IF commsState = "UPLINKING" THEN Underway ELSE Drained)
    BY <1>1, <1>4 DEF OneAtATime, Uplinking, Downlinking
  <2>2. e = Completion(commsState) /\ commsQueue' = <<>>
    BY <1>1, <2>1, OneTwo DEF Ended
  <2> HIDE DEF e
  <2>3. NextStates(e) = {IF commsState = "UPLINKING" THEN "DOWNLINKING" ELSE "UPLINKING"}
    BY <1>2, <1>4, <2>2, LoopTransitions
  <2>4. CASE commsState = "UPLINKING"
    <3>1. commsState' = "DOWNLINKING" /\ cm' = Entry("DOWNLINKING")
      BY <1>1, <2>3, <2>4
    <3>2. cm' = "downlink"
      BY <3>1 DEF Entry
    <3>3. QED
      BY <1>1, <1>2, <2>1, <2>2, <2>4, <3>1, <3>2, RingStays DEF OneAtATime, Downlinking
  <2>5. CASE commsState # "UPLINKING"
    <3>1. commsState' = "UPLINKING" /\ cm' = Entry("UPLINKING")
      BY <1>1, <2>3, <2>5
    <3>2. cm' = "read"
      BY <3>1 DEF Entry
    <3>3. QED
      BY <1>1, <1>2, <2>1, <2>2, <2>5, <3>1, <3>2, RingStays DEF OneAtATime, Uplinking
  <2>6. QED
    BY <2>4, <2>5
<1>5. QED
  BY <1>3, <1>4

LEMMA DownlinkOne ==
  ASSUME OneAnswerFrames, IInv, OneAtATime, Downlink
  PROVE  OneAtATime'
<1> DEFINE p == Head(transmitQueue)
<1>1. /\ cm = "downlink" /\ transmitQueue # <<>> /\ transmitQueue' = Tail(transmitQueue)
      /\ \/ /\ p = End /\ cm' = "post" /\ UNCHANGED sent
         \/ /\ p # End /\ sent' = sent + 1
            /\ cm' = IF sent + 1 = MaxDownlinkFrames THEN "post" ELSE "downlink"
      /\ UNCHANGED <<commsState, commsQueue, decodeQueue, todo, commandQueue, encodeQueue, alarms,
                     downlinkReady, writing, cmdResBuffer, outbox>>
  BY DEF Downlink, uplink, sources, encoder
<1>2. commsState = "DOWNLINKING" /\ OnlyCommands /\ Downlinking
  BY <1>1 DEF OneAtATime, Connecting, Uplinking, Ended
<1>3. commsQueue = <<>> /\ ((sent = 0 /\ Underway) \/ (sent = 1 /\ Ending))
  BY <1>1, <1>2 DEF Downlinking, Ended
<1>4. OnlyCommands' /\ (NoCommands => NoCommands') /\ (NoBytes => NoBytes')
  BY <1>1, <1>2 DEF OnlyCommands, NoCommands, NoBytes
<1>5. CASE sent = 0 /\ Underway
  <2>1. Packaged
    BY <1>1, <1>5 DEF Underway, Decoding, Commanding, Collecting, NoPackets
  <2>2. /\ p # End
        /\ \/ outbox' = <<End'>> /\ transmitQueue' = <<>>
           \/ outbox' = <<>> /\ transmitQueue' = <<End'>>
    <3>1. CASE \E q \in TransmitEvents : q # End /\ outbox = <<End>> /\ transmitQueue = <<q>>
      <4>1. PICK q \in TransmitEvents : q # End /\ outbox = <<End>> /\ transmitQueue = <<q>>
        BY <3>1
      <4>2. p = q /\ transmitQueue' = <<>> /\ outbox' = <<End>>
        BY <1>1, <4>1, OneTwo
      <4>3. QED
        BY <4>1, <4>2, RingSets
    <3>2. CASE \E q \in TransmitEvents : q # End /\ outbox = <<>> /\ transmitQueue = <<q, End>>
      <4>1. PICK q \in TransmitEvents : q # End /\ outbox = <<>> /\ transmitQueue = <<q, End>>
        BY <3>2
      <4>2. p = q /\ transmitQueue' = <<End>> /\ outbox' = <<>>
        BY <1>1, <4>1, OneTwo
      <4>3. QED
        BY <4>1, <4>2, RingSets
    <3>3. QED
      BY <1>1, <2>1, <3>1, <3>2 DEF Packaged
  <2> HIDE DEF p
  <2>3. sent' = 1 /\ cm' = "downlink"
    <3>1. MaxDownlinkFrames > 1 /\ MaxDownlinkFrames \in Nat
      BY PipelineAssumption DEF OneAnswerFrames
    <3>2. QED
      BY <1>1, <1>5, <2>2, <3>1
  <2>4. Ending'
    BY <1>1, <1>4, <2>1, <2>2 DEF Ending, Packaged
  <2>5. QED
    BY <1>1, <1>2, <1>3, <1>4, <2>3, <2>4 DEF OneAtATime, Downlinking
<1>6. CASE sent = 1 /\ Ending
  <2>1. outbox = <<>> /\ transmitQueue = <<End>>
    BY <1>1, <1>6 DEF Ending
  <2>2. p = End /\ transmitQueue' = <<>> /\ outbox' = <<>>
    BY <1>1, <2>1, OneTwo
  <2> HIDE DEF p
  <2>3. cm' = "post"
    BY <1>1, <2>2
  <2>4. Drained'
    BY <1>1, <1>4, <1>6, <2>2 DEF Ending, Drained, NoPackets
  <2>5. QED
    BY <1>1, <1>2, <1>4, <2>3, <2>4 DEF OneAtATime, Downlinking, Ended
<1>7. QED
  BY <1>3, <1>5, <1>6

\* At first the ring is empty.
LEMMA OneAtATimeInit == ASSUME Init PROVE OneAtATime
<1>1. OnlyCommands
  BY DEF Init, OnlyCommands, Producers
<1>2. Connecting
  BY DEF Init, Connecting, NoCommands, NoBytes, NoPackets, Producers
<1>3. QED
  BY <1>1, <1>2 DEF OneAtATime, Init

\* Every step leaves at most one answer in the ring, and none when the manager reads.
LEMMA OneAtATimeNext ==
  ASSUME OneAnswerFrames, IInv, IInv', OneAtATime, [Next]_vars
  PROVE  OneAtATime'
<1>1. CASE UNCHANGED vars
  <2>1. UNCHANGED <<commsState, cm, rx, sent, commsQueue, decodeQueue, todo, commandQueue, encodeQueue,
                    transmitQueue, alarms, downlinkReady, writing, cmdResBuffer, outbox>>
    BY <1>1 DEF vars
  <2>2. Ended => Ended'
    BY <2>1 DEF Ended, Completion
  <2>3. Connecting => Connecting'
    BY <2>1, RingStays, RingSets DEF Connecting, Messages
  <2>4. Uplinking => Uplinking'
    BY <2>1, <2>2, RingStays, RingSets DEF Uplinking
  <2>5. Downlinking => Downlinking'
    BY <2>1, <2>2, RingStays DEF Downlinking
  <2>6. QED
    BY <2>1, <2>2, <2>3, <2>4, <2>5, RingStays DEF OneAtATime
<1>2. CASE \E f \in ConnUplinks \cup Uplinks : ReadFrame(f)
  BY <1>2, ReadFrameOne
<1>3. CASE CommsManager
  BY <1>3, PushChunkOne, PostCompletionOne, HandleEventOne, DownlinkOne DEF CommsManager
<1>4. CASE RingStep
  BY <1>4, RingKept
<1>5. QED
  BY <1>1, <1>2, <1>3, <1>4 DEF Next, RingStep

\* The link is stop-and-wait, for queues, responses and frames of every length: when the
\* manager reads the next frame, nothing is left of the one before, if each brings one
\* answered command, the last of its commands.
THEOREM ReadsWhenQuietCorrect == OneAnswerFrames => (Spec => []ReadsWhenQuiet)
<1> SUFFICES ASSUME OneAnswerFrames
             PROVE  Spec => []ReadsWhenQuiet
  OBVIOUS
<1>1. Init => IInv /\ OneAtATime
  BY InvInit, OneAtATimeInit
<1>2. IInv /\ OneAtATime /\ [Next]_vars => IInv' /\ OneAtATime'
  BY InvNext, OneAtATimeNext
<1>3. OneAtATime => ReadsWhenQuiet
  <2>1. SUFFICES ASSUME OneAtATime, cm = "read"
                 PROVE  /\ decodeQueue = <<>> /\ todo = <<>> /\ commandQueue = <<>>
                        /\ \A p \in Producers : writing[p] = <<>>
                        /\ encodeQueue = <<>> /\ cmdResBuffer = <<>>
                        /\ outbox = <<>> /\ transmitQueue = <<>>
    BY DEF ReadsWhenQuiet
  <2>2. OnlyCommands /\ Drained
    BY <2>1 DEF OneAtATime, Connecting, Uplinking, Downlinking, Ended, Drained
  <2>3. QED
    BY <2>2 DEF OnlyCommands, Drained, NoCommands, NoBytes, NoPackets, Producers
<1>4. QED
  BY <1>1, <1>2, <1>3, PTL DEF Spec
-----------------------------------------------------------------------------
(* Why the manager does not wait for ever: what is to do becomes less with every  *)
(* step, and some task can always take one.                                       *)

\* What there is to do, in the order in which it passes through the ring.
Unpushed   == rx.left
Undecoded  == Len(decodeQueue)
Unexecuted == 2 * Len(todo) + Len(commandQueue)
Unnoticed  == Cardinality(alarms) + One(downlinkReady)
Unwritten  == Len(writing["command"]) + Len(writing["alarm"]) + Len(writing["telemetry"])
Unencoded  == 2 * Unwritten + Len(encodeQueue)
Undelivered == 2 * Len(outbox) + Len(transmitQueue)

ToDo == <<Unpushed, Undecoded, Unexecuted, Unnoticed, Unencoded, Undelivered>>

\* The lexicographic order of six numbers, which has no infinite descent.
Sextuples  == [1 .. 6 -> Nat]
Less(a, b) == \E k \in 1 .. 6 : a[k] < b[k] /\ \A j \in 1 .. k - 1 : a[j] = b[j]

\* While the manager pushes or waits for responses, a step leaves less to do.
Nearer == cm \in {"push", "downlink"} => Less(ToDo', ToDo)

\* The guards of the tasks.
ManagerReady == \/ cm = "push" /\ Len(decodeQueue) < DecodeQueueLength
                \/ cm = "downlink" /\ transmitQueue # <<>>
DecoderReady == \/ todo = <<>> /\ decodeQueue # <<>>
                \/ todo # <<>> /\ Len(commandQueue) < CommandQueueLength
CommandReady == writing["command"] = <<>> /\ commandQueue # <<>>
WriterReady  == \E p \in Producers : writing[p] # <<>> /\ Len(encodeQueue) < EncodeQueueLength
EncoderReady == \/ outbox = <<>> /\ encodeQueue # <<>>
                \/ outbox # <<>> /\ Len(transmitQueue) < TransmitQueueLength

\* Meanwhile some task can go on: the ring does not lock up.
NeverStuck ==
  cm \in {"push", "downlink"} =>
    ManagerReady \/ DecoderReady \/ CommandReady \/ WriterReady \/ EncoderReady

\* The alarms are finitely many.
LEMMA AlarmsFinite == IInv => IsFiniteSet(alarms)
<1>1. IsFiniteSet(Ids)
  BY PipelineAssumption, FS_Interval DEF Ids
<1>2. QED
  BY <1>1, Queues, FS_Subset

\* All of it are numbers.
LEMMA Measured ==
  ASSUME IInv
  PROVE  /\ Unpushed \in Nat /\ Undecoded \in Nat /\ Unexecuted \in Nat /\ Unnoticed \in Nat
         /\ Unwritten \in Nat /\ Unencoded \in Nat /\ Undelivered \in Nat
         /\ ToDo \in Sextuples
<1>1. Unpushed \in Nat
  BY PipelineAssumption DEF IInv, TypeManager, Unpushed
<1>2. Undecoded \in Nat
  BY Queues, LenProperties DEF Undecoded
<1>3. Unexecuted \in Nat
  <2>1. Len(todo) \in Nat /\ Len(commandQueue) \in Nat
    BY Queues, LenProperties
  <2>2. QED
    BY <2>1 DEF Unexecuted
<1>4. Unnoticed \in Nat
  <2>1. Cardinality(alarms) \in Nat
    BY AlarmsFinite, FS_CardinalityType
  <2>2. QED
    BY <2>1 DEF Unnoticed, One
<1>5. Unwritten \in Nat
  <2>1. \A p \in Producers : Len(writing[p]) \in Nat
    BY Queues, LenProperties
  <2> DEFINE n(p) == Len(writing[p])
  <2>2. Unwritten = n("command") + n("alarm") + n("telemetry")
    BY DEF Unwritten
  <2>3. \A p \in {"command", "alarm", "telemetry"} : n(p) \in Nat
    BY <2>1 DEF Producers
  <2> HIDE DEF n
  <2>4. QED
    BY <2>2, <2>3
<1>6. Unencoded \in Nat
  <2>1. Len(encodeQueue) \in Nat
    BY Queues, LenProperties
  <2>2. QED
    BY <1>5, <2>1 DEF Unencoded
<1>7. Undelivered \in Nat
  <2>1. Len(outbox) \in Nat /\ Len(transmitQueue) \in Nat
    BY Queues, LenProperties
  <2>2. QED
    BY <2>1 DEF Undelivered
<1>8. ToDo \in Sextuples
  BY <1>1, <1>2, <1>3, <1>4, <1>6, <1>7 DEF ToDo, Sextuples
<1>9. QED
  BY <1>1, <1>2, <1>3, <1>4, <1>5, <1>6, <1>7, <1>8

\* Less to do at one place, whatever is behind it.
LEMMA LessToDo ==
  \/ Unpushed' < Unpushed
  \/ Unpushed' = Unpushed /\ Undecoded' < Undecoded
  \/ Unpushed' = Unpushed /\ Undecoded' = Undecoded /\ Unexecuted' < Unexecuted
  \/ /\ Unpushed' = Unpushed /\ Undecoded' = Undecoded /\ Unexecuted' = Unexecuted
     /\ Unnoticed' < Unnoticed
  \/ /\ Unpushed' = Unpushed /\ Undecoded' = Undecoded /\ Unexecuted' = Unexecuted
     /\ Unnoticed' = Unnoticed /\ Unencoded' < Unencoded
  \/ /\ Unpushed' = Unpushed /\ Undecoded' = Undecoded /\ Unexecuted' = Unexecuted
     /\ Unnoticed' = Unnoticed /\ Unencoded' = Unencoded /\ Undelivered' < Undelivered
  => Less(ToDo', ToDo)
<1> DEFINE a == ToDo'
           b == ToDo
<1>1. /\ a[1] = Unpushed' /\ a[2] = Undecoded' /\ a[3] = Unexecuted'
      /\ a[4] = Unnoticed' /\ a[5] = Unencoded' /\ a[6] = Undelivered'
  BY DEF ToDo
<1>2. /\ b[1] = Unpushed /\ b[2] = Undecoded /\ b[3] = Unexecuted
      /\ b[4] = Unnoticed /\ b[5] = Unencoded /\ b[6] = Undelivered
  BY DEF ToDo
<1>3. /\ \A j \in 1 .. 1 - 1 : FALSE
      /\ \A j \in 1 .. 2 - 1 : j = 1
      /\ \A j \in 1 .. 3 - 1 : j \in {1, 2}
      /\ \A j \in 1 .. 4 - 1 : j \in {1, 2, 3}
      /\ \A j \in 1 .. 5 - 1 : j \in {1, 2, 3, 4}
      /\ \A j \in 1 .. 6 - 1 : j \in {1, 2, 3, 4, 5}
  OBVIOUS
<1> HIDE DEF a, b
<1>4. a[1] < b[1] => Less(a, b)
  BY <1>3 DEF Less
<1>5. a[1] = b[1] /\ a[2] < b[2] => Less(a, b)
  BY <1>3 DEF Less
<1>6. a[1] = b[1] /\ a[2] = b[2] /\ a[3] < b[3] => Less(a, b)
  BY <1>3 DEF Less
<1>7. a[1] = b[1] /\ a[2] = b[2] /\ a[3] = b[3] /\ a[4] < b[4] => Less(a, b)
  BY <1>3 DEF Less
<1>8. a[1] = b[1] /\ a[2] = b[2] /\ a[3] = b[3] /\ a[4] = b[4] /\ a[5] < b[5] => Less(a, b)
  BY <1>3 DEF Less
<1>9. a[1] = b[1] /\ a[2] = b[2] /\ a[3] = b[3] /\ a[4] = b[4] /\ a[5] = b[5] /\ a[6] < b[6] => Less(a, b)
  BY <1>3 DEF Less
<1>10. QED
  BY <1>1, <1>2, <1>4, <1>5, <1>6, <1>7, <1>8, <1>9 DEF a, b

\* A send makes a queue longer by one, and a receive shorter.
LEMMA Longer == ASSUME NEW S, NEW q \in Seq(S), NEW x \in S
                PROVE  Len(Append(q, x)) = Len(q) + 1 /\ Len(q) \in Nat
  BY AppendProperties, LenProperties

LEMMA Shorter == ASSUME NEW S, NEW q \in Seq(S), q # <<>>
                 PROVE  Len(Tail(q)) = Len(q) - 1 /\ Len(q) \in Nat
  BY HeadTailProperties, LenProperties

\* The manager pushes a chunk, and takes a packet;
LEMMA PushChunkNearer == ASSUME IInv, PushChunk PROVE Less(ToDo', ToDo)
<1>1. rx \in [frame : Frames \cup {Partial}, left : 0 .. FrameChunks] /\ FrameChunks \in Nat
  BY PipelineAssumption DEF IInv, TypeManager
<1>2. rx'.left = rx.left - 1
  BY <1>1 DEF PushChunk
<1>3. Unpushed' < Unpushed
  BY <1>1, <1>2 DEF Unpushed
<1>4. QED
  BY <1>3, LessToDo

LEMMA DownlinkNearer == ASSUME IInv, Downlink PROVE Less(ToDo', ToDo)
<1>1. /\ transmitQueue # <<>> /\ transmitQueue' = Tail(transmitQueue)
      /\ UNCHANGED <<rx, decodeQueue, todo, commandQueue, alarms, downlinkReady, writing, encodeQueue, outbox>>
  BY DEF Downlink, uplink, sources, encoder
<1>2. /\ Unpushed' = Unpushed /\ Undecoded' = Undecoded /\ Unexecuted' = Unexecuted
      /\ Unnoticed' = Unnoticed /\ Unencoded' = Unencoded
  BY <1>1 DEF Unpushed, Undecoded, Unexecuted, Unnoticed, One, Unencoded, Unwritten
<1>3. Undelivered' < Undelivered
  <2>1. Len(transmitQueue') = Len(transmitQueue) - 1 /\ Len(transmitQueue) \in Nat
    BY <1>1, Queues, Shorter
  <2>2. Len(outbox') = Len(outbox) /\ Len(outbox) \in Nat
    BY <1>1, Queues, LenProperties
  <2>3. QED
    BY <2>1, <2>2 DEF Undelivered
<1>4. QED
  BY <1>2, <1>3, LessToDo

\* the decoder takes a chunk, and passes a command on;
LEMMA DecodeNearer ==
  ASSUME IInv, DecodeNothing \/ DecodeCommands \/ DecodeUFrame
  PROVE  Less(ToDo', ToDo)
<1>1. decodeQueue # <<>> /\ decodeQueue' = Tail(decodeQueue) /\ UNCHANGED rx
  BY DEF DecodeNothing, DecodeCommands, DecodeUFrame, manager
<1>2. Undecoded' < Undecoded
  BY <1>1, Queues, Shorter DEF Undecoded
<1>3. Unpushed' = Unpushed
  BY <1>1 DEF Unpushed
<1>4. QED
  BY <1>2, <1>3, LessToDo

LEMMA PassCommandNearer == ASSUME IInv, PassCommand PROVE Less(ToDo', ToDo)
<1>1. /\ todo # <<>> /\ todo' = Tail(todo) /\ commandQueue' = Append(commandQueue, Head(todo))
      /\ UNCHANGED <<rx, decodeQueue>>
  BY DEF PassCommand, manager
<1>2. Unpushed' = Unpushed /\ Undecoded' = Undecoded
  BY <1>1 DEF Unpushed, Undecoded
<1>3. Unexecuted' < Unexecuted
  <2>1. Len(todo') = Len(todo) - 1 /\ Len(todo) \in Nat /\ Head(todo) \in Commands
    BY <1>1, Queues, Shorter, Taken
  <2>2. Len(commandQueue') = Len(commandQueue) + 1 /\ Len(commandQueue) \in Nat
    BY <1>1, <2>1, Queues, Longer
  <2>3. QED
    BY <2>1, <2>2 DEF Unexecuted
<1>4. QED
  BY <1>2, <1>3, LessToDo

\* the command manager executes a command, the alarm manager another, the telemetry
\* manager sees that it is wanted;
LEMMA ExecuteCommandNearer == ASSUME IInv, ExecuteCommand PROVE Less(ToDo', ToDo)
<1>1. /\ commandQueue # <<>> /\ commandQueue' = Tail(commandQueue)
      /\ UNCHANGED <<rx, decodeQueue, todo>>
  BY DEF ExecuteCommand, manager
<1>2. Unpushed' = Unpushed /\ Undecoded' = Undecoded
  BY <1>1 DEF Unpushed, Undecoded
<1>3. Unexecuted' < Unexecuted
  <2>1. Len(todo') = Len(todo) /\ Len(todo) \in Nat
    BY <1>1, Queues, LenProperties
  <2>2. Len(commandQueue') = Len(commandQueue) - 1 /\ Len(commandQueue) \in Nat
    BY <1>1, Queues, Shorter
  <2>3. QED
    BY <2>1, <2>2 DEF Unexecuted
<1>4. QED
  BY <1>2, <1>3, LessToDo

LEMMA ExecuteAlarmNearer == ASSUME IInv, ExecuteAlarm PROVE Less(ToDo', ToDo)
<1>1. PICK id \in alarms : alarms' = alarms \ {id}
  BY DEF ExecuteAlarm
<1>2. UNCHANGED <<rx, decodeQueue, todo, commandQueue, downlinkReady>>
  BY DEF ExecuteAlarm, manager, uplink
<1>3. Unpushed' = Unpushed /\ Undecoded' = Undecoded /\ Unexecuted' = Unexecuted
  BY <1>2 DEF Unpushed, Undecoded, Unexecuted
<1>4. Unnoticed' < Unnoticed
  <2>1. IsFiniteSet(alarms)
    BY AlarmsFinite
  <2>2. Cardinality(alarms') = Cardinality(alarms) - 1 /\ Cardinality(alarms) \in Nat
    BY <1>1, <2>1, FS_RemoveElement, FS_CardinalityType
  <2>3. One(downlinkReady') = One(downlinkReady) /\ One(downlinkReady) \in Nat
    BY <1>2 DEF One
  <2>4. Unnoticed' = Cardinality(alarms') + One(downlinkReady')
    BY DEF Unnoticed, One
  <2>5. QED
    BY <2>2, <2>3, <2>4 DEF Unnoticed
<1>5. QED
  BY <1>3, <1>4, LessToDo

LEMMA TakeDownlinkReadyNearer == ASSUME IInv, TakeDownlinkReady PROVE Less(ToDo', ToDo)
<1>1. /\ downlinkReady /\ downlinkReady' = FALSE
      /\ UNCHANGED <<rx, decodeQueue, todo, commandQueue, alarms>>
  BY DEF TakeDownlinkReady, manager, uplink
<1>2. Unpushed' = Unpushed /\ Undecoded' = Undecoded /\ Unexecuted' = Unexecuted
  BY <1>1 DEF Unpushed, Undecoded, Unexecuted
<1>3. Unnoticed' < Unnoticed
  <2>1. IsFiniteSet(alarms)
    BY AlarmsFinite
  <2>2. Cardinality(alarms) \in Nat /\ Cardinality(alarms') = Cardinality(alarms)
    BY <1>1, <2>1, FS_CardinalityType
  <2>3. Unnoticed = Cardinality(alarms) + 1 /\ Unnoticed' = Cardinality(alarms') + 0
    BY <1>1 DEF Unnoticed, One
  <2>4. QED
    BY <2>2, <2>3
<1>4. QED
  BY <1>2, <1>3, LessToDo

\* any of them writes to the encoder;
LEMMA WriteEncodeQueueNearer ==
  ASSUME IInv, NEW p \in Producers, WriteEncodeQueue(p)
  PROVE  Less(ToDo', ToDo)
<1>1. /\ writing[p] # <<>> /\ writing' = [writing EXCEPT ![p] = Tail(writing[p])]
      /\ encodeQueue' = Append(encodeQueue, Head(writing[p]))
      /\ UNCHANGED <<rx, decodeQueue, todo, commandQueue, alarms, downlinkReady>>
  BY DEF WriteEncodeQueue, manager, uplink
<1>2. /\ Unpushed' = Unpushed /\ Undecoded' = Undecoded /\ Unexecuted' = Unexecuted
      /\ Unnoticed' = Unnoticed
  BY <1>1 DEF Unpushed, Undecoded, Unexecuted, Unnoticed, One
<1>3. Unwritten' = Unwritten - 1
  <2>1. \A q \in Producers : Len(writing[q]) \in Nat
    BY Queues, LenProperties
  <2>2. \A q \in Producers : writing'[q] = IF q = p THEN Tail(writing[p]) ELSE writing[q]
    BY <1>1, Queues
  <2>3. Len(Tail(writing[p])) = Len(writing[p]) - 1
    BY <1>1, Queues, Shorter
  <2>4. \A q \in Producers : Len(writing'[q]) = IF q = p THEN Len(writing[q]) - 1 ELSE Len(writing[q])
    BY <2>2, <2>3
  <2> DEFINE n(q) == Len(writing[q])
             m(q) == Len(writing'[q])
  <2>5. /\ Unwritten = n("command") + n("alarm") + n("telemetry")
        /\ Unwritten' = m("command") + m("alarm") + m("telemetry")
    BY DEF Unwritten
  <2>6. /\ \A q \in {"command", "alarm", "telemetry"} :
             n(q) \in Nat /\ m(q) = IF q = p THEN n(q) - 1 ELSE n(q)
        /\ p \in {"command", "alarm", "telemetry"}
    BY <2>1, <2>4 DEF Producers
  <2> HIDE DEF n, m
  <2>7. QED
    BY <2>5, <2>6
<1>4. Len(encodeQueue') = Len(encodeQueue) + 1 /\ Len(encodeQueue) \in Nat
  <2>1. Head(writing[p]) \in EncodeEvents
    BY <1>1, Queues, Taken
  <2>2. QED
    BY <1>1, <2>1, Queues, Longer
<1>5. Unencoded' < Unencoded
  BY <1>3, <1>4, Measured DEF Unencoded
<1>6. QED
  BY <1>2, <1>5, LessToDo

\* and the encoder takes what they wrote, and passes packets on.
LEMMA EncodeNearer ==
  ASSUME IInv, EncodeResponse \/ EncodeFile
  PROVE  Less(ToDo', ToDo)
<1>1. /\ encodeQueue # <<>> /\ encodeQueue' = Tail(encodeQueue)
      /\ UNCHANGED <<rx, decodeQueue, todo, commandQueue, alarms, downlinkReady, writing>>
  BY DEF EncodeResponse, EncodeFile, manager, uplink, sources
<1>2. /\ Unpushed' = Unpushed /\ Undecoded' = Undecoded /\ Unexecuted' = Unexecuted
      /\ Unnoticed' = Unnoticed /\ Unwritten' = Unwritten
  BY <1>1 DEF Unpushed, Undecoded, Unexecuted, Unnoticed, One, Unwritten
<1>3. Len(encodeQueue') = Len(encodeQueue) - 1 /\ Len(encodeQueue) \in Nat
  BY <1>1, Queues, Shorter
<1>4. Unencoded' < Unencoded
  BY <1>2, <1>3, Measured DEF Unencoded
<1>5. QED
  BY <1>2, <1>4, LessToDo

LEMMA SendTransmitNearer == ASSUME IInv, SendTransmit PROVE Less(ToDo', ToDo)
<1>1. /\ outbox # <<>> /\ outbox' = Tail(outbox) /\ transmitQueue' = Append(transmitQueue, Head(outbox))
      /\ UNCHANGED <<rx, decodeQueue, todo, commandQueue, alarms, downlinkReady, writing, encodeQueue>>
  BY DEF SendTransmit, manager, uplink, sources
<1>2. /\ Unpushed' = Unpushed /\ Undecoded' = Undecoded /\ Unexecuted' = Unexecuted
      /\ Unnoticed' = Unnoticed /\ Unencoded' = Unencoded
  BY <1>1 DEF Unpushed, Undecoded, Unexecuted, Unnoticed, One, Unencoded, Unwritten
<1>3. Undelivered' < Undelivered
  <2>1. Len(outbox') = Len(outbox) - 1 /\ Len(outbox) \in Nat /\ Head(outbox) \in TransmitEvents
    BY <1>1, Queues, Shorter, Taken
  <2>2. Len(transmitQueue') = Len(transmitQueue) + 1 /\ Len(transmitQueue) \in Nat
    BY <1>1, <2>1, Queues, Longer
  <2>3. QED
    BY <2>1, <2>2 DEF Undelivered
<1>4. QED
  BY <1>2, <1>3, LessToDo

\* While the manager pushes a frame or waits for responses, every step of every task
\* leaves less to do, by an order that cannot decrease for ever: there is no endless
\* activity, whatever the ground sent, that would keep the manager where it is.
THEOREM NearerCorrect == Spec => [](ToDo \in Sextuples) /\ [][Nearer]_vars
<1>1. Init => IInv
  BY InvInit
<1>2. IInv /\ [Next]_vars => IInv'
  BY InvNext
<1>3. IInv => ToDo \in Sextuples
  BY Measured
<1>4. IInv /\ [Next]_vars => [Nearer]_vars
  <2>1. SUFFICES ASSUME IInv, Next, cm \in {"push", "downlink"}
                 PROVE  Less(ToDo', ToDo)
    BY DEF Nearer
  <2>2. \/ PushChunk \/ Downlink \/ Decoder \/ ExecuteCommand \/ ExecuteAlarm \/ TakeDownlinkReady
        \/ (\E p \in Producers : WriteEncodeQueue(p)) \/ Encoder
    BY <2>1 DEF Next, CommsManager, ReadFrame, PostCompletion, HandleEvent
  <2>3. CASE PushChunk
    BY <2>1, <2>3, PushChunkNearer
  <2>4. CASE Downlink
    BY <2>1, <2>4, DownlinkNearer
  <2>5. CASE Decoder
    BY <2>1, <2>5, DecodeNearer, PassCommandNearer DEF Decoder
  <2>6. CASE ExecuteCommand
    BY <2>1, <2>6, ExecuteCommandNearer
  <2>7. CASE ExecuteAlarm
    BY <2>1, <2>7, ExecuteAlarmNearer
  <2>8. CASE TakeDownlinkReady
    BY <2>1, <2>8, TakeDownlinkReadyNearer
  <2>9. CASE \E p \in Producers : WriteEncodeQueue(p)
    BY <2>1, <2>9, WriteEncodeQueueNearer
  <2>10. CASE Encoder
    BY <2>1, <2>10, EncodeNearer, SendTransmitNearer DEF Encoder
  <2>11. QED
    BY <2>2, <2>3, <2>4, <2>5, <2>6, <2>7, <2>8, <2>9, <2>10
<1>5. QED
  BY <1>1, <1>2, <1>3, <1>4, PTL DEF Spec

\* While a frame is pushed, the decoder makes room for it,
LEMMA PushingOn == ASSUME IInv, NoCommands PROVE cm = "push" => ManagerReady \/ DecoderReady
<1>1. decodeQueue = <<>> => Len(decodeQueue) < DecodeQueueLength
  BY EmptySeq, PipelineAssumption
<1>2. QED
  BY <1>1 DEF NoCommands, ManagerReady, DecoderReady

\* and an answer under way always has a task that moves it.
LEMMA UnderwayOn ==
  ASSUME IInv, cm = "downlink", Underway \/ Ending
  PROVE  ManagerReady \/ DecoderReady \/ CommandReady \/ WriterReady \/ EncoderReady
<1>1. Len(<<>>) = 0 /\ CommandQueueLength > 0 /\ EncodeQueueLength > 0 /\ TransmitQueueLength > 0
  BY EmptySeq, PipelineAssumption
<1>2. CASE Decoding
  BY <1>2 DEF Decoding, Line, NoCommands, DecoderReady
<1>3. CASE Commanding
  <2>1. CASE todo # <<>> /\ commandQueue = <<>>
    BY <1>1, <2>1 DEF DecoderReady
  <2>2. CASE commandQueue # <<>>
    BY <1>3, <2>2 DEF Commanding, NoBytes, CommandReady
  <2>3. QED
    BY <1>3, <2>1, <2>2 DEF Commanding, Line
<1>4. CASE Collecting
  <2>1. CASE encodeQueue # <<>>
    BY <1>4, <2>1 DEF Collecting, NoPackets, EncoderReady
  <2>2. CASE encodeQueue = <<>> /\ writing["command"] # <<>>
    BY <1>1, <2>2 DEF WriterReady, Producers
  <2>3. CASE encodeQueue = <<>> /\ writing["command"] = <<>>
    <3>1. Len(cmdResBuffer) + 0 + 0 = ResponseChunks
      BY <1>1, <1>4, <2>3 DEF Collecting
    <3>2. Len(cmdResBuffer) < ResponseChunks /\ Len(cmdResBuffer) \in Nat
      BY Queues, LenProperties
    <3>3. QED
      BY <3>1, <3>2
  <2>4. QED
    BY <2>1, <2>2, <2>3
<1>5. CASE Packaged \/ Ending
  <2>1. CASE transmitQueue # <<>>
    BY <2>1 DEF ManagerReady
  <2>2. CASE transmitQueue = <<>>
    <3>1. outbox # <<>>
      BY <1>5, <2>2, OneTwo DEF Packaged, Ending
    <3>2. QED
      BY <1>1, <2>2, <3>1 DEF EncoderReady
  <2>3. QED
    BY <2>1, <2>2
<1>6. QED
  BY <1>2, <1>3, <1>4, <1>5 DEF Underway

\* The ring never locks up, although the manager is both the first and the last in it:
\* while it waits for room or for responses, some other task can go on or it can, if each
\* frame brings one answered command, the last of its commands, for queues, responses and
\* frames of every length.
THEOREM NeverStuckCorrect == OneAnswerFrames => (Spec => []NeverStuck)
<1> SUFFICES ASSUME OneAnswerFrames
             PROVE  Spec => []NeverStuck
  OBVIOUS
<1>1. Init => IInv /\ OneAtATime
  BY InvInit, OneAtATimeInit
<1>2. IInv /\ OneAtATime /\ [Next]_vars => IInv' /\ OneAtATime'
  BY InvNext, OneAtATimeNext
<1>3. IInv /\ OneAtATime => NeverStuck
  <2>1. SUFFICES ASSUME IInv, OneAtATime, cm \in {"push", "downlink"}
                 PROVE  ManagerReady \/ DecoderReady \/ CommandReady \/ WriterReady \/ EncoderReady
    BY DEF NeverStuck
  <2>2. CASE cm = "push"
    <3>1. NoCommands
      BY <2>1, <2>2 DEF OneAtATime, Connecting, Uplinking, Downlinking, Ended
    <3>2. QED
      BY <2>1, <2>2, <3>1, PushingOn
  <2>3. CASE cm = "downlink"
    <3>1. Underway \/ Ending
      BY <2>1, <2>3 DEF OneAtATime, Connecting, Uplinking, Downlinking, Ended
    <3>2. QED
      BY <2>1, <2>3, <3>1, UnderwayOn
  <2>4. QED
    BY <2>1, <2>2, <2>3
<1>4. QED
  BY <1>1, <1>2, <1>3, PTL DEF Spec
=============================================================================
