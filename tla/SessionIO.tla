----------------------------- MODULE SessionIO ------------------------------
(***************************************************************************)
(* The bytes of one session: frames the client sends are cut into chunks   *)
(* by TCP and put together again by FrameBuffer (src/wire/frame_buffer.hpp) *)
(* inside HandleReadable; answers collect in outbuf and leave it as the    *)
(* socket takes them, with EPOLLOUT asked for while some are left          *)
(* (SendBytes, HandleWritable and UpdateInterest in src/hub/reactor.cpp).  *)
(*                                                                         *)
(* A byte is <<i, k>>, the k-th byte of frame i.  DecodeHeader compares    *)
(* four bytes with the magic and nothing else: a header read at k = 1      *)
(* decodes when the frame's checksum is right, and one read further on     *)
(* when the bytes there happen to have the magic in the right place.       *)
(***************************************************************************)
EXTENDS Integers, Sequences

CONSTANTS
  kWireHeaderSize,  (* bytes of a header; 20 in the code                   *)
  PayloadLens,      (* payload lengths the client uses                     *)
  Inner,            (* what may be found inside a frame: functions from    *)
                    (* the places where a header decodes to its fields     *)
  AckSize,          (* bytes of an outgoing frame                          *)
  SndBuf,           (* bytes the socket takes before send returns EAGAIN   *)
  MaxFrames,        (* bound: frames the client sends                      *)
  MaxSends          (* bound: frames that come through the send queue      *)

ASSUME SessionIOAssumption ==
  /\ kWireHeaderSize \in Nat \ {0} /\ AckSize \in Nat \ {0} /\ SndBuf \in Nat \ {0}
  /\ PayloadLens \subseteq Nat /\ MaxFrames \in Nat /\ MaxSends \in Nat
  /\ \A g \in Inner : \A k \in DOMAIN g : g[k].length \in Nat

\* What HandleReadable does with a frame: enqueue it (or, for a system frame of
\* unknown type, nothing), answer it, or return at once, as HandleSystem has it
\* do after an UNSUB that comes before AUTH or is too short.
Kinds == {"inbound", "system", "refused"}

\* A frame, and what its bytes look like when they are read from a place other
\* than the first.  Of what kind it is matters only with a right checksum.
FrameType ==
  {f \in [length : PayloadLens, chksum : BOOLEAN, kind : Kinds, inner : Inner] :
     /\ DOMAIN f.inner \subseteq 2 .. kWireHeaderSize + f.length
     /\ ~f.chksum => f.kind = "inbound"}

VARIABLES
  sent,        (* history: frames the client has sent                      *)
  wire,        (* bytes sent and not yet received                          *)
  buf_,        (* FrameBuffer::buf_                                        *)
  handled,     (* history: the bytes of each frame popped                  *)
  at,          (* the function the reactor is in, for this session         *)
  back,        (* where HandleWritable returns to                          *)
  outbuf,      (* number of bytes in Session::outbuf                       *)
  room,        (* bytes the socket would take now                          *)
  want_write,  (* EPOLLOUT is asked for                                    *)
  sends        (* frames taken from the send queue                         *)

input == <<sent, wire, buf_, handled>>
output == <<outbuf, room, want_write, sends>>
sessionVars == <<input, at, back, output>>

\* Frame i, as EncodeFrame has laid it out
FrameLen(i) == kWireHeaderSize + sent[i].length

Bytes(i) == [k \in 1 .. FrameLen(i) |-> <<i, k>>]

\* The fields of a header read at byte b
Decoded(b) == IF b[2] = 1 THEN sent[b[1]] ELSE sent[b[1]].inner[b[2]]

SessionTypeOK ==
  /\ sent \in Seq(FrameType) /\ Len(sent) <= MaxFrames
  /\ \A s \in {wire, buf_} \cup {handled[n] : n \in 1 .. Len(handled)} :
       \A m \in 1 .. Len(s) :
         s[m][1] \in 1 .. Len(sent) /\ s[m][2] \in 1 .. FrameLen(s[m][1])
  /\ at \in {"wait", "recv", "pop", "write"}
  /\ back \in {"wait", "pop"}
  /\ outbuf \in 0 .. AckSize * (Len(handled) + sends)
  /\ room \in 0 .. SndBuf
  /\ want_write \in BOOLEAN
  /\ sends \in 0 .. MaxSends

SessionInit ==
  /\ sent = << >> /\ wire = << >> /\ buf_ = << >> /\ handled = << >>
  /\ at = "wait" /\ back = "wait"
  /\ outbuf = 0 /\ room = SndBuf /\ want_write = FALSE /\ sends = 0

-----------------------------------------------------------------------------
(* The client and the network                                               *)

ClientSends(f) ==
  /\ Len(sent) < MaxFrames
  /\ sent' = Append(sent, f)
  /\ wire' = wire \o [k \in 1 .. kWireHeaderSize + f.length |-> <<Len(sent) + 1, k>>]
  /\ UNCHANGED <<buf_, handled, at, back, output>>

ClientReads ==
  /\ room < SndBuf
  /\ room' \in room + 1 .. SndBuf
  /\ UNCHANGED <<input, at, back, outbuf, want_write, sends>>

-----------------------------------------------------------------------------
(* HandleReadable                                                           *)

EpollIn ==
  /\ at = "wait" /\ wire # << >>
  /\ at' = "recv"
  /\ UNCHANGED <<input, back, output>>

\* recv returns what has arrived so far.
Recv ==
  /\ at = "recv"
  /\ \E n \in 1 .. Len(wire) :
       /\ buf_' = buf_ \o SubSeq(wire, 1, n)
       /\ wire' = SubSeq(wire, n + 1, Len(wire))
  /\ at' = "pop"
  /\ UNCHANGED <<sent, handled, back, output>>

\* EAGAIN
RecvBlocks ==
  /\ at = "recv"
  /\ at' = "wait"
  /\ UNCHANGED <<input, back, output>>

HasHeader == Len(buf_) >= kWireHeaderSize

\* Mutant: any checksum will do.
HeaderUnchecked == buf_[1][2] = 1

\* DecodeHeader
HeaderValid ==
  LET f == sent[buf_[1][1]] IN
  IF buf_[1][2] = 1 THEN f.chksum ELSE buf_[1][2] \in DOMAIN f.inner

\* frame_len
PieceLen == kWireHeaderSize + Decoded(buf_[1]).length

FrameComplete == HasHeader /\ HeaderValid /\ Len(buf_) >= PieceLen

\* TryPopFrame finds no whole frame: back to recv.
PopNothing ==
  /\ at = "pop" /\ ~FrameComplete
  /\ HasHeader => HeaderValid
  /\ at' = "recv"
  /\ UNCHANGED <<input, back, output>>

\* The header does not decode: nothing is kept.
PopClears ==
  /\ at = "pop" /\ HasHeader /\ ~HeaderValid
  /\ buf_' = << >>
  /\ at' = "recv"
  /\ UNCHANGED <<sent, wire, handled, back, output>>

\* Mutant: one frame for each recv.
NextInbound == "recv"

\* Where an inbound frame leaves the loop: at the next frame.
AfterInbound == "pop"

\* SendBytes, up to the call of HandleWritable
SendBytes ==
  /\ outbuf' = outbuf + AckSize
  /\ want_write' = TRUE
  /\ at' = "write"
  /\ UNCHANGED room

PopFrame ==
  /\ at = "pop" /\ FrameComplete
  /\ buf_' = SubSeq(buf_, PieceLen + 1, Len(buf_))
  /\ handled' = Append(handled, SubSeq(buf_, 1, PieceLen))
  /\ LET kind == Decoded(buf_[1]).kind IN
     \/ /\ kind = "system"
        /\ SendBytes /\ back' = "pop"
     \/ /\ kind # "system"
        /\ at' = IF kind = "refused" THEN "wait" ELSE AfterInbound
        /\ UNCHANGED <<back, outbuf, room, want_write>>
  /\ UNCHANGED <<sent, wire, sends>>

-----------------------------------------------------------------------------
(* HandleWritable                                                           *)

\* DrainSendQueue has a frame for the session.
SendFrame ==
  /\ at = "wait" /\ sends < MaxSends
  /\ SendBytes /\ back' = "wait"
  /\ sends' = sends + 1
  /\ UNCHANGED input

EpollOut ==
  /\ at = "wait" /\ want_write /\ room > 0
  /\ at' = "write" /\ back' = "wait"
  /\ UNCHANGED <<input, output>>

\* Mutant: as many bytes are erased as the socket had room for.
WriteRoom ==
  /\ at = "write" /\ outbuf > 0 /\ room > 0
  /\ outbuf' = outbuf - room
  /\ room' = 0
  /\ UNCHANGED <<input, at, back, want_write, sends>>

\* send takes some of outbuf.
Write ==
  /\ at = "write" /\ outbuf > 0 /\ room > 0
  /\ \E n \in 1 .. room :
       /\ n <= outbuf
       /\ outbuf' = outbuf - n
       /\ room' = room - n
  /\ UNCHANGED <<input, at, back, want_write, sends>>

\* Mutants: EPOLLOUT is given up, or kept.
InterestDropped == FALSE

InterestKept == want_write

Interest == outbuf > 0

\* outbuf is empty, or send returns EAGAIN.
WriteEnds ==
  /\ at = "write" /\ (outbuf = 0 \/ room = 0)
  /\ want_write' = Interest
  /\ at' = back
  /\ UNCHANGED <<input, back, outbuf, room, sends>>

-----------------------------------------------------------------------------
ReactorStep ==
  \/ EpollIn \/ Recv \/ RecvBlocks
  \/ PopNothing \/ PopClears \/ PopFrame
  \/ EpollOut \/ Write \/ WriteEnds

SessionNext ==
  \/ \E f \in FrameType : ClientSends(f)
  \/ ClientReads
  \/ ReactorStep
  \/ SendFrame

SessionSpec == SessionInit /\ [][SessionNext]_sessionVars

\* The reactor runs, the client reads what it is sent, and each epoll_wait
\* reports a writable socket, whatever else it reports.
SessionFairSpec ==
  /\ SessionSpec
  /\ WF_sessionVars(ReactorStep) /\ SF_sessionVars(EpollOut) /\ WF_sessionVars(ClientReads)

-----------------------------------------------------------------------------
\* The frames all of whose bytes have been received.
Received == {i \in 1 .. Len(sent) : \A n \in 1 .. Len(wire) : wire[n][1] # i}

NoneBad == \A i \in 1 .. Len(sent) : sent[i].chksum

NoneDisguised == \A i \in 1 .. Len(sent) : sent[i].inner = << >>

LastRefused == handled # << >> /\ Decoded(handled[Len(handled)][1]).kind = "refused"

\* Byte b follows byte a in the stream.
Before(a, b) == a[1] < b[1] \/ (a[1] = b[1] /\ a[2] < b[2])

(***************************************************************************)
(* However TCP cuts the stream and whatever the payloads look like, when   *)
(* the reactor leaves a session the frames it has handled are those        *)
(* received whole, each once and in order; only after a frame that         *)
(* HandleSystem refuses may some be left behind in the buffer.             *)
(***************************************************************************)
FramedExactly ==
  NoneBad /\ at \in {"wait", "recv"} =>
    /\ \A n \in 1 .. Len(handled) : handled[n] = Bytes(n)
    /\ Len(handled) \in Received \cup {0}
    /\ ~LastRefused => \A i \in Received : i <= Len(handled)

(***************************************************************************)
(* What a wrong checksum can spoil once it has had TryPopFrame clear the   *)
(* buffer, perhaps in the middle of a later frame.  What comes before the  *)
(* first wrong checksum is handled frame by frame; no byte is ever handled *)
(* twice or out of order; and if no payload looks like a header, what is   *)
(* handled are whole frames with a right checksum still.                   *)
(***************************************************************************)
BadFrameContained ==
  /\ \A n \in 1 .. Len(handled) :
       (\A i \in 1 .. handled[n][1][1] : sent[i].chksum) => handled[n] = Bytes(n)
  /\ \A n \in 2 .. Len(handled) :
       Before(handled[n - 1][Len(handled[n - 1])], handled[n][1])
  /\ NoneDisguised => \A n \in 1 .. Len(handled) :
       \E i \in 1 .. Len(sent) : sent[i].chksum /\ handled[n] = Bytes(i)

(***************************************************************************)
(* "length + 20 == frame length and chksum valid, only then delivered", as *)
(* bus wire v1 (line 55) has it: what HandleReadable handles is a frame    *)
(* that was sent, with a right checksum.  It is not so: where TryPopFrame  *)
(* has cleared the buffer in the middle of a frame, payload with the magic *)
(* in the right place is popped as a frame.                                *)
(***************************************************************************)
OnlyFramesHandled ==
  \A n \in 1 .. Len(handled) :
    \E i \in 1 .. Len(sent) : sent[i].chksum /\ handled[n] = Bytes(i)

(***************************************************************************)
(* While the reactor is elsewhere, EPOLLOUT is asked for exactly when the  *)
(* session has bytes to send: else it would starve the client or spin.     *)
(***************************************************************************)
InterestMatches == at # "write" => want_write = (outbuf > 0)

(***************************************************************************)
(* What is in outbuf is sent, if the client reads.                         *)
(***************************************************************************)
OutputDrains == outbuf > 0 ~> outbuf = 0

=============================================================================
