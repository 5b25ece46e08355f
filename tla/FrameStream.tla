----------------------------- MODULE FrameStream -----------------------------
(***************************************************************************)
(* The way of the bytes of one connection to the handler, the same in both *)
(* servers:                                                                *)
(*                                                                         *)
(*   framer    DelimiterBasedFrameDecoder(8192, false, CR LF): cuts what   *)
(*             has arrived after each CR LF, the CR LF included            *)
(*   dec       ByteToMessageDec: passes on what it holds once that is more *)
(*             than four bytes                                             *)
(*   handler   DiscardServerHandler.channelRead0: takes a message that     *)
(*             begins with $$ and is as long as its length field says      *)
(*                                                                         *)
(* A frame is binary: CR LF may also come up inside it, in its length, its *)
(* data or its checksum.  Bytes are told apart by their positions only:    *)
(* byte p is the p-th byte of the connection, a message is a stretch of    *)
(* bytes, and stream says behind which bytes frames and CR LFs end.  What  *)
(* begins inside a frame is taken not to begin with $$.                    *)
(***************************************************************************)
EXTENDS Naturals

CONSTANTS
  Streams,        (* what a device may send: [ends, delims, segments]; the *)
                  (* last says where TCP segments may end                  *)
  MaxFrame,       (* the framer's limit (8192)                             *)
  MinFrame        (* bytes of a frame without data (17)                    *)

Shortest == 4     (* ByteToMessageDec keeps that many bytes or fewer       *)

(* A stream ends with a frame; no CR LF overlaps another one, and none is  *)
(* in the head $$ of a frame.                                              *)
ASSUME StreamAssumption ==
  /\ MaxFrame \in Nat /\ MinFrame \in Nat /\ MinFrame > Shortest /\ MaxFrame > MinFrame
  /\ \A s \in Streams :
       /\ s.delims \subseteq Nat /\ s.ends \subseteq s.delims
       /\ \A d \in s.delims : d >= Shortest /\ \A e \in s.delims : d < e => d + 2 <= e
       /\ \A d \in s.ends : d >= MinFrame /\ \A e \in s.ends : d < e => d + MinFrame <= e
       /\ \A d \in s.ends : \A e \in s.delims : d < e => d + Shortest <= e
       /\ s.segments \subseteq Nat

VARIABLES
  stream,         (* what the device sends on this connection              *)
  arrived,        (* bytes that have arrived                               *)
  closed,         (* the connection has ended                              *)
  reading,        (* the framer's decode loop is running                   *)
  framed,         (* bytes the framer has cut off, passed on or dropped    *)
  discarding,     (* discardingTooLongFrame                                *)
  held,           (* what dec holds: size bytes, the first one behind from *)
  accepted        (* the frames the handler took, by their last bytes      *)

(* History, read by properties only. *)
VARIABLE
  crDropped       (* the framer dropped a CR whose LF had not arrived      *)

streamVars == <<stream, arrived, closed, reading, framed, discarding, held, accepted,
                crDropped>>

StreamInit ==
  /\ stream \in Streams
  /\ arrived = 0 /\ framed = 0
  /\ closed = FALSE /\ reading = FALSE /\ discarding = FALSE
  /\ held = [from |-> 0, size |-> 0]
  /\ accepted = {} /\ crDropped = FALSE

(* The CR LFs in the framer's buffer: both bytes are there. *)
Found == {d \in stream.delims : framed + 2 <= d /\ d <= arrived}

(* indexOf: the first one. *)
First(d) == d \in Found /\ \A c \in Found : d <= c

(* The bytes behind a up to b are a frame: it starts where the one before  *)
(* ended, and its length is right.                                         *)
IsFrame(a, b) ==
  /\ a \in {0} \cup stream.ends /\ b \in stream.ends /\ a < b
  /\ \A e \in stream.ends : ~(a < e /\ e < b)

(* Mutant of Held: what is too short is thrown away. *)
HeldDropped(d) == [from |-> d, size |-> 0]

Held(d) ==
  IF held.size = 0 THEN [from |-> framed, size |-> d - framed]
  ELSE [held EXCEPT !.size = @ + (d - framed)]

-----------------------------------------------------------------------------
(* A segment arrives: channelRead of the framer. *)
Arrive ==
  /\ ~reading /\ ~closed
  /\ arrived' \in {p \in stream.segments : arrived < p}
  /\ reading' = TRUE
  /\ UNCHANGED <<stream, closed, framed, discarding, held, accepted, crDropped>>

(* channelInactive: the framer decodes what is left once more. *)
Close ==
  /\ ~reading /\ ~closed
  /\ closed' = TRUE /\ reading' = TRUE
  /\ UNCHANGED <<stream, arrived, framed, discarding, held, accepted, crDropped>>

(* Mutant of Handle: a frame is taken whatever is in front of it. *)
HandleAny(m) ==
  accepted' = IF m.from + m.size \in stream.ends
              THEN accepted \cup {m.from + m.size} ELSE accepted

(* channelRead0: $$ and length == l, or the message is ignored. *)
Handle(m) ==
  accepted' = IF IsFrame(m.from, m.from + m.size)
              THEN accepted \cup {m.from + m.size} ELSE accepted

(* Mutant of Pass: the limit is off by one. *)
PassLater(d) ==
  LET m == Held(d)
  IN  IF m.size > Shortest + 1
      THEN /\ held' = [from |-> d, size |-> 0]
           /\ IF m.from + m.size = d THEN Handle(m) ELSE UNCHANGED accepted
      ELSE held' = m /\ UNCHANGED accepted

(* ByteToMessageDec.decode with the piece that ends at d.  A message whose *)
(* bytes are not one stretch is no frame.                                  *)
Pass(d) ==
  LET m == Held(d)
  IN  IF m.size > Shortest
      THEN /\ held' = [from |-> d, size |-> 0]
           /\ IF m.from + m.size = d THEN Handle(m) ELSE UNCHANGED accepted
      ELSE held' = m /\ UNCHANGED accepted

(* One round of the decode loop. *)
Cut ==
  /\ reading /\ ~discarding
  /\ \E d \in Found :
       /\ First(d) /\ d - framed <= MaxFrame + 2
       /\ framed' = d
       /\ Pass(d)
  /\ UNCHANGED <<stream, arrived, closed, reading, discarding, crDropped>>

(* The piece is too long: it is dropped and TooLongFrameException ends the *)
(* loop; what is behind it stays in the buffer until the next read.        *)
CutTooLong ==
  /\ reading /\ ~discarding
  /\ \E d \in Found : First(d) /\ d - framed > MaxFrame + 2 /\ framed' = d
  /\ reading' = FALSE
  /\ UNCHANGED <<stream, arrived, closed, discarding, held, accepted, crDropped>>

(* buffer.skipBytes(readableBytes): a CR at the end goes without its LF.   *)
DropAll ==
  /\ framed' = arrived
  /\ crDropped' = (crDropped \/ arrived + 1 \in stream.delims)

(* There is too much without a CR LF: all of it is dropped.                *)
StartDiscarding ==
  /\ reading /\ ~discarding /\ Found = {}
  /\ arrived - framed > MaxFrame
  /\ DropAll
  /\ discarding' = TRUE /\ reading' = FALSE
  /\ UNCHANGED <<stream, arrived, closed, held, accepted>>

StopDiscarding ==
  /\ reading /\ discarding
  /\ \E d \in Found : First(d) /\ framed' = d
  /\ discarding' = FALSE
  /\ UNCHANGED <<stream, arrived, closed, reading, held, accepted, crDropped>>

(* The loop ends: nothing more to cut. *)
NothingFound ==
  /\ reading /\ Found = {}
  /\ discarding \/ arrived - framed <= MaxFrame
  /\ IF discarding THEN DropAll ELSE UNCHANGED <<framed, crDropped>>
  /\ reading' = FALSE
  /\ UNCHANGED <<stream, arrived, closed, discarding, held, accepted>>

Decode == Cut \/ CutTooLong \/ StartDiscarding \/ StopDiscarding \/ NothingFound

StreamNext == Arrive \/ Close \/ Decode

StreamSpec == StreamInit /\ [][StreamNext]_streamVars

-----------------------------------------------------------------------------

(* The variables keep their types, and the stations of the way are in order.*)
StreamTypeOK ==
  /\ arrived \in Nat /\ framed \in 0 .. arrived
  /\ closed \in BOOLEAN /\ reading \in BOOLEAN /\ discarding \in BOOLEAN
  /\ held \in [from : 0 .. framed, size : 0 .. Shortest]
  /\ accepted \subseteq stream.ends /\ crDropped \in BOOLEAN

(* The bytes behind q up to d are a piece: a CR LF at its end only. *)
IsPiece(q, d) ==
  /\ q \in {0} \cup stream.delims /\ d \in stream.delims /\ q < d
  /\ \A c \in stream.delims : ~(q < c /\ c < d)

(* No CR LF in the frame but in its length field, and shorter than the     *)
(* framer's limit.                                                         *)
Clean(s, e) ==
  /\ \A d \in stream.delims : s < d /\ d < e => d = s + Shortest
  /\ e - s < MaxFrame + 2

(* Dec may still hold a piece of so few bytes at s: there is none behind   *)
(* it but such as the framer drops.                                        *)
Exposed(s) ==
  \E q \in {0} \cup stream.delims, d \in stream.delims :
    /\ IsPiece(q, d) /\ d - q <= Shortest /\ d <= s
    /\ \A a, b \in stream.delims : IsPiece(a, b) /\ d <= a /\ b <= s => b - a >= MaxFrame + 2

(* However the bytes arrive, a clean frame gets to the handler unless the  *)
(* frame just before it, too long ones not counted, has a CR LF in its     *)
(* last bytes: a damaged frame costs one more frame at most, and a too     *)
(* long one none, as long as no segment ends between the CR and the LF of  *)
(* what the framer drops.                                                  *)
CleanFrameAccepted ==
  \A s \in {0} \cup stream.ends, e \in stream.ends :
    IsFrame(s, e) /\ Clean(s, e) /\ ~Exposed(s) /\ e <= framed /\ ~crDropped
      => e \in accepted

(* The handler takes no frame that has a CR LF in its data or checksum, in *)
(* whatever pieces it arrives: it gets a device's frame as a whole.        *)
DamagedFrameIgnored ==
  \A s \in {0} \cup stream.ends, e \in accepted :
    IsFrame(s, e) => \A d \in stream.delims : s < d /\ d < e => d = s + Shortest

=============================================================================
