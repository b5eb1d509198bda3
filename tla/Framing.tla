------------------------------- MODULE Framing -------------------------------
(***************************************************************************)
(* The wire format of TransportTCP in message mode (transport_tcp.cpp) and *)
(* the two incremental state machines that write and parse it.             *)
(*                                                                         *)
(* A message is a sequence of frames.  On the wire it is the number of     *)
(* frames and then, for each frame, its size and its bytes; numbers are    *)
(* fields of Width digits to the base Base, least significant first (four  *)
(* bytes of a little-endian machine in the code).  Each call of            *)
(* writeMessage or readMessage makes one send() or recv(), which may       *)
(* transfer fewer bytes than asked for, and the next call goes on there.   *)
(*                                                                         *)
(* Locks and interest in POLLIN/POLLOUT are the subject of TransportTCP:   *)
(* here the writer may run whenever there is something to send and the     *)
(* reader whenever there is something to receive.                          *)
(*                                                                         *)
(* The initial states and so on are named after the module, which          *)
(* TCPStreamProofs extends together with TCPPublish.                       *)
(***************************************************************************)
EXTENDS Naturals, Sequences

CONSTANTS
  Base, Width,    \* a number is Width digits to the base Base
  Messages,       \* the messages that are offered, nonempty sequences of frames
  CutZeros,       \* the size of a frame may be cut behind digits that are all zero
  Filter,         \* filter_: every Filter-th message is sent
  MaxOffered,     \* bound: messages offered to sendFrames
  WireCap         \* bound: bytes the connection buffers

Byte == 0 .. (Base - 1)

\* What is left of a number behind its first i digits: rest[i].  It fits if nothing is left
\* behind Width digits.
Rest(n) ==
  LET rest[i \in 0 .. Width] == IF i = 0 THEN n ELSE rest[i - 1] \div Base
  IN  rest
Fits(n) == Rest(n)[Width] = 0

ASSUME FramingAssumption ==
  /\ Base \in Nat /\ Base > 1
  /\ Width \in Nat \ {0}
  /\ Messages \subseteq Seq(Seq(Byte)) \ {<<>>}
  /\ \A m \in Messages : Fits(Len(m)) /\ \A i \in 1 .. Len(m) : Fits(Len(m[i]))
  /\ CutZeros \in BOOLEAN
  /\ Filter \in Nat \ {0}
  /\ MaxOffered \in Nat
  /\ WireCap \in Nat /\ WireCap >= Width

VARIABLES
  msg_counter,   \* msg_counter_
  offered,       \* calls of sendFrames
  send_msgs,     \* send_msgs_: the messages
  out,           \* the progress fields of the first message of send_msgs_
  wire,          \* bytes sent and not yet received
  reading,       \* reading_
  in,            \* read_msg_
  sent, delivered, closed    \* as in MessageChannel

sender == <<msg_counter, offered, send_msgs, out>>
receiver == <<reading, in>>
framingVars == <<sender, wire, receiver, sent, delivered, closed>>

\* The digits of a number, and the number that the digits received so far make up in a
\* variable that was zero before (Frame is value-initialized by vector::resize).
Encode(n) == [i \in 1 .. Width |-> Rest(n)[i - 1] % Base]
Value(digits) ==
  LET last[i \in 0 .. Len(digits)] ==       \* of the last i digits
        IF i = 0 THEN 0 ELSE digits[Len(digits) - i + 1] + Base * last[i - 1]
  IN  last[Len(digits)]

Fresh == [numframes_filled |-> 0, frame_ind |-> 1, frame_filled |-> 0, frame_sz_filled |-> 0]

\* A Frame that is being received: the digits of its size, and its data.
NoFrame == [size |-> <<>>, data |-> <<>>]

FramingInit ==
  /\ msg_counter = Filter - 1               \* setFilter
  /\ offered = 0
  /\ send_msgs = <<>>
  /\ out = Fresh
  /\ wire = <<>>
  /\ reading = FALSE
  /\ in = [numframes |-> <<>>, frames |-> <<>>, frame |-> NoFrame]
  /\ sent = <<>> /\ delivered = <<>> /\ closed = FALSE

(***************************************************************************)
(* The sender.                                                             *)
(***************************************************************************)

\* sendFrames that counts only the messages it sends.
sendFramesStuck(m) ==
  /\ offered < MaxOffered
  /\ offered' = offered + 1
  /\ IF msg_counter = Filter - 1
       THEN /\ msg_counter' = 0
            /\ send_msgs' = Append(send_msgs, m)
            /\ sent' = Append(sent, m)
       ELSE UNCHANGED <<msg_counter, send_msgs, sent>>
  /\ UNCHANGED <<out, wire, receiver, delivered, closed>>

\* sendFrames (sendMessage is the case of one frame): the filter, then the queue.
sendFrames(m) ==
  /\ offered < MaxOffered
  /\ offered' = offered + 1
  /\ msg_counter' = (msg_counter + 1) % Filter
  /\ IF msg_counter' # 0
       THEN UNCHANGED <<send_msgs, sent>>
       ELSE send_msgs' = Append(send_msgs, m) /\ sent' = Append(sent, m)
  /\ UNCHANGED <<out, wire, receiver, delivered, closed>>

Room == WireCap - Len(wire)
Smaller(a, b) == IF a < b THEN a ELSE b

\* How many of the "left" bytes one call transfers: send() may take none of them.
WriteChunks(left) == 0 .. Smaller(left, Room)
ReadChunks(left) == 1 .. Smaller(left, Len(wire))

\* The n bytes of field after the first "filled" go onto the wire.
Put(field, filled, n) == wire' = wire \o SubSeq(field, filled + 1, filled + n)

\* writeMessage: the number of frames.
writeNumFrames ==
  /\ send_msgs # <<>> /\ ~closed
  /\ out.numframes_filled < Width
  /\ \E n \in WriteChunks(Width - out.numframes_filled) :
       /\ Put(Encode(Len(Head(send_msgs))), out.numframes_filled, n)
       /\ out' = [out EXCEPT !.numframes_filled = @ + n]
  /\ UNCHANGED <<msg_counter, offered, send_msgs, receiver, sent, delivered, closed>>

\* The tail of writeFrame without the step to the next frame.
frameWrittenStuck(progress) ==
  LET msg == Head(send_msgs)
  IN  IF progress.frame_filled # Len(msg[progress.frame_ind]) \/ progress.frame_ind < Len(msg)
        THEN out' = progress /\ UNCHANGED send_msgs
        ELSE out' = Fresh /\ send_msgs' = Tail(send_msgs)

\* The tail of writeFrame, with the progress of the current frame so far.
frameWritten(progress) ==
  LET msg == Head(send_msgs)
  IN  IF progress.frame_filled # Len(msg[progress.frame_ind])
        THEN out' = progress /\ UNCHANGED send_msgs
      ELSE IF progress.frame_ind < Len(msg)
        THEN /\ out' = [progress EXCEPT !.frame_ind = @ + 1, !.frame_filled = 0,
                                        !.frame_sz_filled = 0]
             /\ UNCHANGED send_msgs
        ELSE out' = Fresh /\ send_msgs' = Tail(send_msgs)

\* writeFrame: the size of the current frame.  The check for the end of the frame
\* follows whatever part of the size went out.
writeFrameSize ==
  /\ send_msgs # <<>> /\ ~closed
  /\ out.numframes_filled = Width
  /\ out.frame_sz_filled < Width
  /\ \E n \in WriteChunks(Width - out.frame_sz_filled) :
       /\ CutZeros \/ out.frame_sz_filled + n = Width \/ Head(send_msgs)[out.frame_ind] # <<>>
       /\ Put(Encode(Len(Head(send_msgs)[out.frame_ind])), out.frame_sz_filled, n)
       /\ frameWritten([out EXCEPT !.frame_sz_filled = @ + n])
  /\ UNCHANGED <<msg_counter, offered, receiver, sent, delivered, closed>>

\* writeFrame that starts every call at the beginning of the frame.
writeFrameDataRestarting ==
  /\ send_msgs # <<>> /\ ~closed
  /\ out.numframes_filled = Width
  /\ out.frame_sz_filled = Width
  /\ LET frame == Head(send_msgs)[out.frame_ind]
     IN \E n \in WriteChunks(Len(frame) - out.frame_filled) :
          /\ Put(frame, 0, n)
          /\ frameWritten([out EXCEPT !.frame_filled = @ + n])
  /\ UNCHANGED <<msg_counter, offered, receiver, sent, delivered, closed>>

\* writeFrame: the bytes of the current frame.
writeFrameData ==
  /\ send_msgs # <<>> /\ ~closed
  /\ out.numframes_filled = Width
  /\ out.frame_sz_filled = Width
  /\ LET frame == Head(send_msgs)[out.frame_ind]
     IN \E n \in WriteChunks(Len(frame) - out.frame_filled) :
          /\ Put(frame, out.frame_filled, n)
          /\ frameWritten([out EXCEPT !.frame_filled = @ + n])
  /\ UNCHANGED <<msg_counter, offered, receiver, sent, delivered, closed>>

(***************************************************************************)
(* The receiver.                                                           *)
(***************************************************************************)

Take(n) == wire' = SubSeq(wire, n + 1, Len(wire))
Got(n) == SubSeq(wire, 1, n)

\* readMessage: a new message begins, or its number of frames goes on.  A message of no
\* frames closes the connection.
readNumFrames ==
  /\ ~closed
  /\ ~reading \/ Len(in.numframes) < Width
  /\ LET soFar == IF reading THEN in.numframes ELSE <<>>
     IN \E n \in ReadChunks(Width - Len(soFar)) :
          /\ Take(n)
          /\ in' = [numframes |-> soFar \o Got(n), frames |-> <<>>, frame |-> NoFrame]
          /\ closed' = (Len(soFar) + n = Width /\ Value(soFar \o Got(n)) = 0)
  /\ reading' = TRUE
  /\ UNCHANGED <<sender, sent, delivered>>

\* The tail of readFrame, with the current frame as far as it was received: it is done
\* when as much data is there as its size says.
frameRead(frame) ==
  LET frames == Append(in.frames, frame.data)
  IN  IF Len(frame.data) # Value(frame.size)
        THEN in' = [in EXCEPT !.frame = frame] /\ UNCHANGED <<reading, delivered>>
      ELSE IF Len(frames) < Value(in.numframes)
        THEN /\ in' = [in EXCEPT !.frames = frames, !.frame = NoFrame]
             /\ UNCHANGED <<reading, delivered>>
        ELSE /\ delivered' = Append(delivered, frames)         \* readmsg_cb_
             /\ reading' = FALSE
             /\ in' = [numframes |-> <<>>, frames |-> <<>>, frame |-> NoFrame]

\* readFrame: the size of the current frame.  The check for the end of the frame
\* follows whatever part of the size has arrived.
readFrameSize ==
  /\ ~closed /\ reading
  /\ Len(in.numframes) = Width
  /\ Len(in.frame.size) < Width
  /\ \E n \in ReadChunks(Width - Len(in.frame.size)) :
       LET size == in.frame.size \o Got(n)
       IN /\ CutZeros \/ Len(size) = Width \/ Value(size) # 0
          /\ Take(n)
          /\ frameRead([in.frame EXCEPT !.size = size])
  /\ UNCHANGED <<sender, sent, closed>>

\* readFrame: the bytes of the current frame.
readFrameData ==
  /\ ~closed /\ reading
  /\ Len(in.numframes) = Width
  /\ Len(in.frame.size) = Width
  /\ \E n \in ReadChunks(Value(in.frame.size) - Len(in.frame.data)) :
       /\ Take(n)
       /\ frameRead([in.frame EXCEPT !.data = @ \o Got(n)])
  /\ UNCHANGED <<sender, sent, closed>>

\* Either side closes, or the connection fails; what was on its way is lost.
disconnect ==
  /\ ~closed
  /\ closed' = TRUE
  /\ UNCHANGED <<sender, wire, receiver, sent, delivered>>

Write == writeNumFrames \/ writeFrameSize \/ writeFrameData
Read == readNumFrames \/ readFrameSize \/ readFrameData

FramingNext ==
  \/ \E m \in Messages : sendFrames(m)
  \/ Write
  \/ Read
  \/ disconnect
  \/ (closed \/ send_msgs = <<>>) /\ offered = MaxOffered /\ UNCHANGED framingVars

FramingSpec == FramingInit /\ [][FramingNext]_framingVars

\* The poll threads of both sides run, and a socket that poll() reports as writable
\* takes at least one byte sooner or later.
Progress == Write /\ (wire' # wire \/ out' # out)
FramingFairSpec == FramingSpec /\ WF_framingVars(Progress) /\ WF_framingVars(Read)

(***************************************************************************)
(* Properties.                                                             *)
(***************************************************************************)

Channel == INSTANCE MessageChannel WITH
  Messages <- Messages, sent <- sent, delivered <- delivered, closed <- closed

\* The two state machines implement a channel of whole messages in order, however the
\* kernel cuts the stream into pieces, except behind the zeros that begin the size of a
\* frame: what happens there is the business of DeliveredInOrder.
ImplementsChannel == Channel!Spec

\* What readmsg_cb_ has been given is a prefix of what sendFrames has accepted.  read() is
\* "Not guaranteed to actually read that number of bytes".
DeliveredInOrder ==
  /\ Len(delivered) <= Len(sent)
  /\ delivered = SubSeq(sent, 1, Len(delivered))

\* Every message that was accepted arrives, unless the connection is closed.
EventuallyDelivered ==
  \A n \in 1 .. MaxOffered : Len(sent) >= n ~> (Len(delivered) >= n \/ closed)

\* The filter passes the first message after setFilter and every Filter-th one after it.
FilterRate == Len(sent) = (offered + Filter - 1) \div Filter
=============================================================================
