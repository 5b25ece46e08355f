-------------------------- MODULE FrameStream_proofs --------------------------
(***************************************************************************)
(* Proofs for module FrameStream: which frames get through, for every      *)
(* stream and every way in which its bytes arrive.                         *)
(***************************************************************************)
EXTENDS FrameStream, TLAPS

Border == {0} \cup stream.delims

(* What dec holds lies in front of framed, and it reaches up to it only    *)
(* behind a CR LF.                                                         *)
HeldBehind ==
  /\ held.from + held.size <= framed
  /\ held.size > 0 /\ held.from + held.size = framed => framed \in stream.delims

(* As long as no CR was dropped: the framer stands at a border of pieces,  *)
(* or it drops a piece that is too long, none of whose borders it missed.  *)
AtBorder ==
  ~crDropped =>
    /\ ~discarding => framed \in Border
    /\ discarding =>
         /\ framed + 1 \notin stream.delims
         /\ \E q \in Border :
              /\ q + MaxFrame < framed
              /\ \A c \in stream.delims : ~(q < c /\ c <= framed)

(* ... dec holds something only where the next frame is exposed, and ...   *)
HeldExposes == ~crDropped /\ held.size > 0 => Exposed(framed)

(* ... it holds the head of a frame whose length is a CR LF.               *)
HeadHeld ==
  ~crDropped /\ ~discarding =>
    \A s \in {0} \cup stream.ends, e \in stream.ends :
      /\ IsFrame(s, e) /\ s + Shortest \in stream.delims /\ ~Exposed(s)
      /\ framed = s + Shortest
      => held.from = s /\ held.size = Shortest

FInv ==
  /\ stream \in Streams /\ StreamTypeOK
  /\ HeldBehind /\ AtBorder /\ HeldExposes /\ HeadHeld
  /\ DamagedFrameIgnored /\ CleanFrameAccepted

(* The assumption, of the stream on this connection. *)
LEMMA StreamFacts ==
  ASSUME stream \in Streams
  PROVE  /\ MaxFrame \in Nat /\ MinFrame \in Nat /\ MinFrame > Shortest /\ MaxFrame > MinFrame
         /\ stream.delims \subseteq Nat /\ stream.ends \subseteq stream.delims
         /\ \A d \in stream.delims : d >= Shortest
         /\ \A d, e \in stream.delims : d < e => d + 2 <= e
         /\ \A d \in stream.ends : d >= MinFrame
         /\ \A d, e \in stream.ends : d < e => d + MinFrame <= e
         /\ \A d \in stream.ends, e \in stream.delims : d < e => d + Shortest <= e
         /\ stream.segments \subseteq Nat
  BY StreamAssumption DEF StreamAssumption

LEMMA FInvInit == StreamInit => FInv
<1> SUFFICES ASSUME StreamInit PROVE FInv
  OBVIOUS
<1> USE DEF StreamInit
<1>1. stream \in Streams
  OBVIOUS
<1>2. StreamTypeOK
  <2>1. /\ arrived \in Nat /\ framed \in 0 .. arrived
        /\ held \in [from : 0 .. framed, size : 0 .. Shortest]
    BY DEF Shortest
  <2>2. accepted \subseteq stream.ends
    OBVIOUS
  <2> QED
    BY <2>1, <2>2 DEF StreamTypeOK
<1>3. HeldBehind /\ HeldExposes
  BY DEF HeldBehind, HeldExposes
<1>4. AtBorder
  BY DEF AtBorder, Border
<1>5. HeadHeld
  BY StreamFacts, <1>1 DEF HeadHeld, Shortest
<1>6. DamagedFrameIgnored
  BY DEF DamagedFrameIgnored
<1>7. CleanFrameAccepted
  BY StreamFacts, <1>1 DEF CleanFrameAccepted, Shortest
<1> QED
  BY <1>1, <1>2, <1>3, <1>4, <1>5, <1>6, <1>7 DEF FInv

-----------------------------------------------------------------------------
(* What the framer finds. *)

LEMMA FirstFacts ==
  ASSUME stream \in Streams, StreamTypeOK, NEW d, First(d)
  PROVE  /\ d \in stream.delims /\ d \in Nat /\ framed + 2 <= d /\ d <= arrived
         /\ \A c \in stream.delims : framed < c /\ c < d => c = framed + 1
<1>1. d \in stream.delims /\ framed + 2 <= d /\ d <= arrived
  BY DEF First, Found
<1>2. d \in Nat
  BY <1>1, StreamFacts
<1>3. ASSUME NEW c \in stream.delims, framed < c, c < d PROVE c = framed + 1
  <2>1. c \in Nat /\ arrived \in Nat /\ framed \in Nat
    BY StreamFacts DEF StreamTypeOK
  <2>2. c \notin Found
    BY <1>2, <1>3, <2>1 DEF First
  <2> QED
    BY <1>1, <1>2, <1>3, <2>1, <2>2 DEF Found
<1> QED
  BY <1>1, <1>2, <1>3

(* At a border, and where it drops, it misses none. *)
LEMMA NextPiece ==
  ASSUME stream \in Streams, StreamTypeOK, AtBorder, ~crDropped
  PROVE  framed + 1 \notin stream.delims
<1>0. framed \in Nat
  BY DEF StreamTypeOK
<1>1. CASE discarding
  BY <1>1 DEF AtBorder
<1>2. CASE ~discarding
  BY <1>0, <1>2, StreamFacts DEF AtBorder, Border, Shortest
<1> QED
  BY <1>1, <1>2

LEMMA NoneDropped ==
  ASSUME stream \in Streams, StreamTypeOK, AtBorder, ~crDropped, Found = {}
  PROVE  \A c \in stream.delims : ~(framed < c /\ c <= arrived)
<1> SUFFICES ASSUME NEW c \in stream.delims, framed < c, c <= arrived PROVE FALSE
  OBVIOUS
<1>1. c \in Nat /\ framed \in Nat
  BY StreamFacts DEF StreamTypeOK
<1>2. c # framed + 1
  BY NextPiece
<1>3. c \in Found
  BY <1>1, <1>2 DEF Found
<1> QED
  BY <1>3

-----------------------------------------------------------------------------
(* Types and what dec holds. *)

LEMMA StreamTypeStep ==
  ASSUME stream \in Streams, StreamTypeOK, HeldBehind, [StreamNext]_streamVars
  PROVE  stream' \in Streams /\ StreamTypeOK' /\ HeldBehind'
<1>0. /\ arrived \in Nat /\ framed \in Nat /\ framed <= arrived
      /\ held \in [from : 0 .. framed, size : 0 .. Shortest]
      /\ held.from \in Nat /\ held.size \in 0 .. Shortest /\ held.from <= framed
      /\ accepted \subseteq stream.ends
  BY DEF StreamTypeOK
<1>b. closed \in BOOLEAN /\ reading \in BOOLEAN /\ discarding \in BOOLEAN /\ crDropped \in BOOLEAN
  BY DEF StreamTypeOK
<1> DEFINE Bools == closed \in BOOLEAN /\ reading \in BOOLEAN /\ discarding \in BOOLEAN
                    /\ crDropped \in BOOLEAN
           Numbers == /\ arrived \in Nat /\ framed \in 0 .. arrived
                      /\ held \in [from : 0 .. framed, size : 0 .. Shortest]
                      /\ accepted \subseteq stream.ends
                      /\ stream \in Streams /\ HeldBehind
<1> SUFFICES Bools' /\ Numbers'
  BY DEF StreamTypeOK
<1>1. CASE UNCHANGED streamVars
  BY <1>0, <1>b, <1>1 DEF streamVars, HeldBehind
<1>2. CASE Arrive
  <2>1. Bools'
    BY <1>2, <1>b DEF Arrive
  <2>2. Numbers'
    BY <1>2, <1>0, StreamFacts DEF Arrive, HeldBehind
  <2> QED
    BY <2>1, <2>2
<1>3. CASE Close
  <2>1. Bools'
    BY <1>3, <1>b DEF Close
  <2>2. Numbers'
    BY <1>3, <1>0 DEF Close, HeldBehind
  <2> QED
    BY <2>1, <2>2
<1>4. CASE Cut
  <2>1. Bools'
    BY <1>4, <1>b DEF Cut
  <2>2. PICK d \in Found : First(d) /\ framed' = d /\ Pass(d)
    BY <1>4 DEF Cut
  <2>3. UNCHANGED <<stream, arrived>>
    BY <1>4 DEF Cut
  <2>4. d \in stream.delims /\ d \in Nat /\ framed + 2 <= d /\ d <= arrived
    BY <2>2, FirstFacts
  <2>5. accepted' \subseteq stream.ends
    BY <1>0, <2>2 DEF Pass, Handle, IsFrame
  <2>6. \/ held' = [from |-> d, size |-> 0]
        \/ held' = Held(d) /\ Held(d).size <= Shortest
    <3>1. Held(d).size \in Nat
      BY <1>0, <2>4 DEF Held, Shortest
    <3> QED
      BY <2>2, <3>1 DEF Pass, Shortest
  <2>7. held' \in [from : 0 .. d, size : 0 .. Shortest]
    BY <1>0, <2>4, <2>6 DEF Held, Shortest
  <2>8. HeldBehind'
    BY <1>0, <2>2, <2>3, <2>4, <2>6 DEF Held, Shortest, HeldBehind
  <2> QED
    BY <1>0, <2>1, <2>2, <2>3, <2>4, <2>5, <2>7, <2>8
<1>5. CASE CutTooLong \/ StopDiscarding
  <2>1. Bools'
    BY <1>5, <1>b DEF CutTooLong, StopDiscarding
  <2>2. PICK d \in Found : First(d) /\ framed' = d
    BY <1>5 DEF CutTooLong, StopDiscarding
  <2>3. UNCHANGED <<stream, arrived, held, accepted>>
    BY <1>5 DEF CutTooLong, StopDiscarding
  <2>4. d \in stream.delims /\ d \in Nat /\ framed + 2 <= d /\ d <= arrived
    BY <2>2, FirstFacts
  <2>5. Numbers'
    BY <1>0, <2>2, <2>3, <2>4 DEF HeldBehind, Shortest
  <2> QED
    BY <2>1, <2>5
<1>6. CASE StartDiscarding \/ NothingFound
  <2>1. Bools'
    BY <1>6, <1>b DEF StartDiscarding, NothingFound, DropAll
  <2>2. framed' = framed \/ framed' = arrived
    BY <1>6 DEF StartDiscarding, NothingFound, DropAll
  <2>3. UNCHANGED <<stream, arrived, held, accepted>>
    BY <1>6 DEF StartDiscarding, NothingFound
  <2>4. Numbers'
    BY <1>0, <2>2, <2>3 DEF HeldBehind, Shortest
  <2> QED
    BY <2>1, <2>4
<1> QED
  BY <1>1, <1>2, <1>3, <1>4, <1>5, <1>6 DEF StreamNext, Decode

-----------------------------------------------------------------------------
(* The steps, by what they do to the framer: nothing, a cut that ends at a *)
(* CR LF, or a drop of all there is.                                       *)

Rests == UNCHANGED <<stream, framed, discarding, held, accepted, crDropped>>

Drops ==
  /\ Found = {} /\ framed' = arrived /\ discarding' = TRUE
  /\ crDropped' = (crDropped \/ arrived + 1 \in stream.delims)
  /\ discarding \/ arrived - framed > MaxFrame
  /\ UNCHANGED <<stream, held, accepted>>

Cuts(d) ==
  /\ First(d) /\ framed' = d /\ discarding' = FALSE
  /\ UNCHANGED <<stream, crDropped>>
  /\ \/ ~discarding /\ Pass(d)
     \/ /\ discarding \/ d - framed > MaxFrame + 2
        /\ UNCHANGED <<held, accepted>>

LEMMA Steps ==
  ASSUME StreamTypeOK, [StreamNext]_streamVars
  PROVE  Rests \/ Drops \/ \E d \in Found : Cuts(d)
<1>1. CASE UNCHANGED streamVars \/ Arrive \/ Close
  BY <1>1 DEF streamVars, Arrive, Close, Rests
<1>2. ASSUME Cut PROVE \E d \in Found : Cuts(d)
  BY <1>2 DEF Cut, Cuts
<1>3. ASSUME CutTooLong PROVE \E d \in Found : Cuts(d)
  BY <1>3 DEF CutTooLong, Cuts
<1>4. ASSUME StopDiscarding PROVE \E d \in Found : Cuts(d)
  BY <1>4 DEF StopDiscarding, Cuts
<1>5. CASE StartDiscarding
  BY <1>5 DEF StartDiscarding, DropAll, Drops
<1>6. CASE NothingFound
  <2>1. discarding \in BOOLEAN
    BY DEF StreamTypeOK
  <2> QED
    BY <1>6, <2>1 DEF NothingFound, DropAll, Drops, Rests
<1> QED
  BY <1>1, <1>2, <1>3, <1>4, <1>5, <1>6 DEF StreamNext, Decode

(* Which places are exposed, and which frames are clean, does not change.  *)
LEMMA SameStream ==
  ASSUME UNCHANGED stream
  PROVE  /\ HeldExposes' <=> (~crDropped' /\ held'.size > 0 => Exposed(framed'))
         /\ CleanFrameAccepted' <=>
              \A s \in {0} \cup stream.ends, e \in stream.ends :
                IsFrame(s, e) /\ Clean(s, e) /\ ~Exposed(s) /\ e <= framed' /\ ~crDropped'
                  => e \in accepted'
<1>1. HeldExposes' <=> (~crDropped' /\ held'.size > 0 => Exposed(framed'))
  BY DEF HeldExposes, Exposed, IsPiece
<1>2. ASSUME NEW s, NEW e
      PROVE  /\ IsFrame(s, e)' <=> IsFrame(s, e)
             /\ Clean(s, e)' <=> Clean(s, e)
             /\ Exposed(s)' <=> Exposed(s)
  BY DEF IsFrame, Clean, Exposed, IsPiece
<1>3. CleanFrameAccepted' <=>
        \A s \in {0} \cup stream.ends, e \in stream.ends :
          IsFrame(s, e) /\ Clean(s, e) /\ ~Exposed(s) /\ e <= framed' /\ ~crDropped'
            => e \in accepted'
  BY <1>2 DEF CleanFrameAccepted
<1> QED
  BY <1>1, <1>3

LEMMA RestsStep ==
  ASSUME FInv, Rests
  PROVE  AtBorder' /\ HeldExposes' /\ HeadHeld' /\ DamagedFrameIgnored' /\ CleanFrameAccepted'
  BY DEF FInv, Rests, AtBorder, HeldExposes, HeadHeld, DamagedFrameIgnored, CleanFrameAccepted,
         Border, Exposed, IsPiece, IsFrame, Clean

LEMMA DropsStep ==
  ASSUME FInv, Drops
  PROVE  AtBorder' /\ HeldExposes' /\ HeadHeld' /\ DamagedFrameIgnored' /\ CleanFrameAccepted'
<1> USE DEF FInv
<1>0. /\ framed \in Nat /\ arrived \in Nat /\ framed <= arrived
      /\ stream.delims \subseteq Nat /\ stream.ends \subseteq stream.delims
      /\ MaxFrame \in Nat
  BY StreamFacts DEF StreamTypeOK
<1>a. /\ UNCHANGED <<stream, held, accepted>> /\ framed' = arrived
  BY DEF Drops
<1>b. ASSUME ~crDropped'
      PROVE  /\ ~crDropped /\ arrived + 1 \notin stream.delims
             /\ \A c \in stream.delims : ~(framed < c /\ c <= arrived)
  <2>1. ~crDropped /\ arrived + 1 \notin stream.delims /\ Found = {}
    BY <1>b DEF Drops
  <2> QED
    BY <2>1, NoneDropped
<1>1. AtBorder'
  <2> SUFFICES ASSUME ~crDropped'
               PROVE  \E q \in Border :
                        /\ q + MaxFrame < arrived
                        /\ \A c \in stream.delims : ~(q < c /\ c <= arrived)
    BY <1>a, <1>b DEF AtBorder, Border, Drops
  <2>1. CASE discarding
    <3>1. PICK q \in Border : /\ q + MaxFrame < framed
                              /\ \A c \in stream.delims : ~(q < c /\ c <= framed)
      BY <1>b, <2>1 DEF AtBorder
    <3>2. q \in Nat
      BY <1>0 DEF Border
    <3>3. ASSUME NEW c \in stream.delims, q < c, c <= arrived PROVE FALSE
      <4>1. c \in Nat /\ (c <= framed \/ framed < c)
        BY <1>0
      <4> QED
        BY <1>b, <3>1, <3>3, <4>1
    <3>4. q + MaxFrame < arrived
      BY <1>0, <3>1, <3>2
    <3> QED
      BY <3>3, <3>4
  <2>2. CASE ~discarding
    <3>1. framed \in Border
      BY <1>b, <2>2 DEF AtBorder
    <3>2. framed + MaxFrame < arrived
      BY <1>0, <2>2 DEF Drops
    <3> QED
      BY <1>b, <3>1, <3>2
  <2> QED
    BY <2>1, <2>2
<1>2. HeldExposes'
  <2> SUFFICES ASSUME ~crDropped', held.size > 0 PROVE Exposed(arrived)
    BY <1>a, SameStream
  <2>1. Exposed(framed)
    BY <1>b DEF HeldExposes
  <2>2. PICK q \in {0} \cup stream.delims, d \in stream.delims :
          /\ IsPiece(q, d) /\ d - q <= Shortest /\ d <= framed
          /\ \A a, b \in stream.delims : IsPiece(a, b) /\ d <= a /\ b <= framed => b - a >= MaxFrame + 2
    BY <2>1 DEF Exposed
  <2>3. d <= arrived
    BY <1>0, <2>2
  <2>4. ASSUME NEW a \in stream.delims, NEW b \in stream.delims, IsPiece(a, b), d <= a, b <= arrived
        PROVE  b - a >= MaxFrame + 2
    <3>1. b <= framed
      BY <1>0, <1>b, <2>4
    <3> QED
      BY <2>2, <2>4, <3>1
  <2>5. Exposed(arrived)
    BY <2>2, <2>3, <2>4 DEF Exposed
  <2> QED
    BY <1>a, <2>5
<1>3. HeadHeld'
  BY DEF HeadHeld, Drops
<1>4. DamagedFrameIgnored'
  BY <1>a DEF DamagedFrameIgnored, IsFrame
<1>5. CleanFrameAccepted'
  <2> SUFFICES ASSUME ~crDropped', NEW s \in {0} \cup stream.ends, NEW e \in stream.ends,
                      IsFrame(s, e), Clean(s, e), ~Exposed(s), e <= arrived
               PROVE  e \in accepted
    BY <1>a, SameStream
  <2>1. e <= framed
    BY <1>0, <1>b
  <2> QED
    BY <1>b, <2>1 DEF CleanFrameAccepted
<1> QED
  BY <1>1, <1>2, <1>3, <1>4, <1>5

-----------------------------------------------------------------------------
(* A cut: where the piece begins that ends with it, and what dec does. *)

(* Without discarding the piece begins at framed; else it began before and *)
(* is too long.                                                            *)
LEMMA CutPiece ==
  ASSUME FInv, NEW d, Cuts(d), ~crDropped
  PROVE  \E q \in Border :
           /\ IsPiece(q, d) /\ q <= framed
           /\ \A c \in stream.delims : ~(q < c /\ c <= framed)
           /\ ~discarding => q = framed
           /\ discarding => d - q >= MaxFrame + 2
<1> USE DEF FInv
<1>1. /\ d \in stream.delims /\ d \in Nat /\ framed + 2 <= d
      /\ \A c \in stream.delims : framed < c /\ c < d => c = framed + 1
  BY FirstFacts DEF Cuts
<1>2. framed \in Nat /\ stream.delims \subseteq Nat /\ MaxFrame \in Nat
  BY StreamFacts DEF StreamTypeOK
<1>3. \A c \in stream.delims : ~(framed < c /\ c < d)
  BY <1>1, NextPiece
<1>4. CASE ~discarding
  <2>1. framed \in Border
    BY <1>4 DEF AtBorder
  <2>2. framed < d /\ \A c \in stream.delims : ~(framed < c /\ c <= framed)
    BY <1>1, <1>2
  <2>3. IsPiece(framed, d)
    BY <1>1, <1>3, <2>1, <2>2 DEF IsPiece, Border
  <2> QED
    BY <1>2, <1>4, <2>1, <2>2, <2>3
<1>5. CASE discarding
  <2>1. PICK q \in Border : /\ q + MaxFrame < framed
                            /\ \A c \in stream.delims : ~(q < c /\ c <= framed)
    BY <1>5 DEF AtBorder
  <2>2. q \in Nat
    BY <1>2 DEF Border
  <2>3. q < d /\ q <= framed /\ d - q >= MaxFrame + 2
    BY <1>1, <1>2, <2>1, <2>2
  <2>4. \A c \in stream.delims : ~(q < c /\ c < d)
    <3> SUFFICES ASSUME NEW c \in stream.delims, q < c, c < d PROVE FALSE
      OBVIOUS
    <3>1. c <= framed \/ framed < c
      BY <1>2
    <3> QED
      BY <1>3, <2>1, <3>1
  <2>5. IsPiece(q, d)
    BY <1>1, <2>3, <2>4 DEF IsPiece, Border
  <2> QED
    BY <1>5, <2>1, <2>3, <2>5
<1> QED
  BY <1>4, <1>5

LEMMA FrameStart ==
  ASSUME stream \in Streams, NEW s, NEW r, NEW e, IsFrame(s, e), IsFrame(r, e)
  PROVE  s = r
  BY StreamFacts DEF IsFrame

(* Dec's message is a frame only if it is undamaged. *)
LEMMA CutDamaged ==
  ASSUME FInv, NEW d, Cuts(d)
  PROVE  DamagedFrameIgnored'
<1> USE DEF FInv
<1>1. /\ d \in stream.delims /\ d \in Nat /\ framed + 2 <= d
      /\ \A c \in stream.delims : framed < c /\ c < d => c = framed + 1
  BY FirstFacts DEF Cuts
<1>2. /\ framed \in Nat /\ stream.delims \subseteq Nat /\ stream.ends \subseteq stream.delims
      /\ held.from \in Nat /\ held.size \in 0 .. Shortest
      /\ held = [from |-> held.from, size |-> held.size]
  BY StreamFacts DEF StreamTypeOK
<1>3. UNCHANGED stream
  BY DEF Cuts
<1>4. CASE UNCHANGED accepted
  BY <1>3, <1>4 DEF DamagedFrameIgnored, IsFrame
<1>5. CASE accepted' # accepted
  <2> DEFINE m == Held(d)
  <2>1. /\ m.size > Shortest /\ m.from + m.size = d /\ IsFrame(m.from, d)
        /\ accepted' = accepted \cup {d}
    BY <1>5 DEF Cuts, Pass, Handle
  <2>2. ASSUME NEW c \in stream.delims, m.from < c, c < d PROVE c = m.from + Shortest
    <3>0. c \in Nat /\ m.from \in {0} \cup stream.ends
      BY <1>2, <2>1 DEF IsFrame
    <3>1. m.from + Shortest <= c
      BY <3>0, <2>2, StreamFacts DEF Shortest
    <3>2. CASE held.size = 0
      <4>1. m.from = framed
        BY <3>2 DEF Held
      <4> QED
        BY <1>1, <1>2, <2>2, <3>0, <3>1, <4>1 DEF Shortest
    <3>3. CASE held.size > 0
      <4>1. m.from = held.from /\ m.size = held.size + (d - framed)
        BY <1>2, <3>3 DEF Held
      <4>2. held.from + held.size = framed
        BY <1>1, <1>2, <2>1, <4>1
      <4>3. framed \in stream.delims
        BY <3>3, <4>2 DEF HeldBehind
      <4>4. framed + 1 \notin stream.delims
        BY <1>2, <4>3, StreamFacts
      <4>5. c <= framed
        BY <1>1, <1>2, <2>2, <3>0, <4>4
      <4> QED
        BY <1>2, <3>0, <3>1, <4>1, <4>2, <4>5 DEF Shortest
    <3> QED
      BY <1>2, <3>2, <3>3
  <2>3. ASSUME NEW s \in {0} \cup stream.ends, NEW e \in accepted', IsFrame(s, e),
               NEW c \in stream.delims, s < c, c < e
        PROVE  c = s + Shortest
    <3>1. CASE e \in accepted
      BY <2>3, <3>1 DEF DamagedFrameIgnored
    <3>2. CASE e = d
      BY <2>1, <2>2, <2>3, <3>2, FrameStart
    <3> QED
      BY <2>1, <3>1, <3>2
  <2> QED
    BY <1>3, <2>3 DEF DamagedFrameIgnored, IsFrame
<1> QED
  BY <1>4, <1>5

LEMMA CutBorder ==
  ASSUME FInv, NEW d, Cuts(d)
  PROVE  AtBorder'
<1>1. d \in stream.delims
  BY FirstFacts DEF Cuts, FInv
<1> QED
  BY <1>1 DEF AtBorder, Border, Cuts

(* What dec holds after a cut. *)
LEMMA CutExposes ==
  ASSUME FInv, NEW d, Cuts(d)
  PROVE  HeldExposes'
<1> USE DEF FInv
<1>1. d \in stream.delims /\ d \in Nat /\ framed + 2 <= d
  BY FirstFacts DEF Cuts
<1>2. /\ framed \in Nat /\ stream.delims \subseteq Nat /\ MaxFrame \in Nat
      /\ held.size \in 0 .. Shortest /\ held \in [from : 0 .. framed, size : 0 .. Shortest]
  BY StreamFacts DEF StreamTypeOK
<1>3. UNCHANGED <<stream, crDropped>> /\ framed' = d
  BY DEF Cuts
<1> SUFFICES ASSUME ~crDropped, held'.size > 0 PROVE Exposed(d)
  BY <1>3, SameStream
<1>4. PICK q \in Border : /\ IsPiece(q, d) /\ q <= framed
                          /\ \A c \in stream.delims : ~(q < c /\ c <= framed)
                          /\ ~discarding => q = framed
                          /\ discarding => d - q >= MaxFrame + 2
  BY CutPiece
<1>5. q \in Nat
  BY <1>2 DEF Border
<1>6. CASE ~discarding /\ Pass(d)
  <2>1. held' = Held(d) /\ ~(Held(d).size > Shortest)
    BY <1>6 DEF Pass
  <2>2. d - q <= Shortest
    <3>1. Held(d).size \in Nat /\ Held(d).size >= d - framed
      BY <1>1, <1>2 DEF Held, Shortest
    <3> QED
      BY <1>1, <1>2, <1>4, <1>6, <2>1, <3>1 DEF Shortest
  <2>3. \A a, b \in stream.delims : IsPiece(a, b) /\ d <= a /\ b <= d => b - a >= MaxFrame + 2
    BY <1>1, <1>2 DEF IsPiece
  <2>4. d <= d /\ q \in {0} \cup stream.delims
    BY <1>1 DEF Border
  <2> QED
    BY <1>1, <1>4, <2>2, <2>3, <2>4, Zenon DEF Exposed
<1>7. CASE (discarding \/ d - framed > MaxFrame + 2) /\ UNCHANGED held
  <2>1. Exposed(framed)
    BY <1>7 DEF HeldExposes
  <2>2. PICK p \in {0} \cup stream.delims, c \in stream.delims :
          /\ IsPiece(p, c) /\ c - p <= Shortest /\ c <= framed
          /\ \A a, b \in stream.delims : IsPiece(a, b) /\ c <= a /\ b <= framed => b - a >= MaxFrame + 2
    BY <2>1 DEF Exposed
  <2>3. ASSUME NEW a \in stream.delims, NEW b \in stream.delims, IsPiece(a, b), c <= a, b <= d
        PROVE  b - a >= MaxFrame + 2
    <3>0. a \in Nat /\ b \in Nat /\ a < b
      BY <1>2, <2>3 DEF IsPiece
    <3>1. CASE b <= framed
      BY <2>2, <2>3, <3>1
    <3>2. CASE framed < b
      <4>1. b = d
        BY <1>2, <1>4, <1>5, <2>3, <3>0, <3>2 DEF IsPiece
      <4>2. ~(q < a)
        BY <1>4, <2>3, <3>0, <4>1 DEF IsPiece
      <4>3. ~(a < q)
        <5>1. q = 0 \/ q \in stream.delims
          BY DEF Border
        <5>2. q < d
          BY <1>4 DEF IsPiece
        <5> QED
          BY <2>3, <3>0, <4>1, <5>1, <5>2 DEF IsPiece
      <4>4. a = q
        BY <1>5, <3>0, <4>2, <4>3
      <4> QED
        BY <1>1, <1>2, <1>4, <1>5, <1>7, <4>1, <4>4
    <3> QED
      BY <1>2, <3>0, <3>1, <3>2
  <2>4. c <= d
    BY <1>1, <1>2, <2>2
  <2> QED
    BY <2>2, <2>3, <2>4 DEF Exposed
<1> QED
  BY <1>6, <1>7 DEF Cuts

-----------------------------------------------------------------------------
(* Which frames get through. *)

(* A cut ends a frame, or its head: it begins where the frame does, or     *)
(* behind the head, unless a CR was dropped.                               *)
LEMMA CutFrame ==
  ASSUME FInv, NEW d, Cuts(d), ~crDropped,
         NEW s \in {0} \cup stream.ends, NEW q \in Border, IsPiece(q, d), s < d,
         \A c \in stream.delims : s < c /\ c < d => c = s + Shortest
  PROVE  q = s \/ q = s + Shortest
<1>1. stream.delims \subseteq Nat /\ stream.ends \subseteq stream.delims
  BY StreamFacts DEF FInv
<1>2. s \in Nat /\ q \in Nat /\ q < d
  BY <1>1 DEF Border, IsPiece
<1>3. ~(q < s)
  BY <1>1, <1>2 DEF IsPiece
<1>4. CASE s < q
  BY <1>2, <1>4 DEF Border
<1> QED
  BY <1>2, <1>3, <1>4

LEMMA CutHead ==
  ASSUME FInv, NEW d, Cuts(d)
  PROVE  HeadHeld'
<1> USE DEF FInv
<1>1. d \in stream.delims /\ d \in Nat /\ framed + 2 <= d
  BY FirstFacts DEF Cuts
<1>2. /\ framed \in Nat /\ stream.delims \subseteq Nat /\ stream.ends \subseteq stream.delims
      /\ MaxFrame \in Nat /\ MaxFrame > 4
      /\ \A c \in stream.delims : c >= 4
      /\ \A c \in stream.ends, e \in stream.delims : c < e => c + 4 <= e
      /\ held.size \in 0 .. 4
  BY StreamFacts DEF StreamTypeOK, Shortest
<1>3. UNCHANGED <<stream, crDropped>> /\ framed' = d
  BY DEF Cuts
<1> SUFFICES ASSUME ~crDropped, NEW s \in {0} \cup stream.ends, NEW e \in stream.ends,
                    IsFrame(s, e), s + 4 \in stream.delims, ~Exposed(s), d = s + 4
             PROVE  held'.from = s /\ held'.size = 4
  BY <1>3 DEF HeadHeld, IsFrame, Exposed, IsPiece, Shortest
<1>4. PICK q \in Border : /\ IsPiece(q, d) /\ q <= framed
                          /\ \A c \in stream.delims : ~(q < c /\ c <= framed)
                          /\ ~discarding => q = framed
                          /\ discarding => d - q >= MaxFrame + 2
  BY CutPiece
<1>5. q \in Nat /\ s \in Nat /\ q < d
  BY <1>2, <1>4 DEF Border, IsPiece
<1>6. \A c \in stream.delims : s < c /\ c < d => c = s + Shortest
  <2> SUFFICES ASSUME NEW c \in stream.delims, s < c, c < d PROVE FALSE
    OBVIOUS
  <2>1. c \in Nat /\ (s = 0 \/ s \in stream.ends)
    BY <1>2
  <2>2. s + 4 <= c
    BY <1>2, <2>1
  <2> QED
    BY <1>5, <2>1, <2>2
<1>7. q = s
  <2>1. q = s \/ q = s + Shortest
    BY <1>4, <1>5, <1>6, CutFrame
  <2> QED
    BY <1>5, <2>1 DEF Shortest
<1>8. ~discarding /\ framed = s /\ Pass(d)
  BY <1>1, <1>2, <1>4, <1>5, <1>7 DEF Cuts
<1>9. held.size = 0
  BY <1>2, <1>8 DEF HeldExposes
<1>10. Held(d) = [from |-> s, size |-> 4]
  BY <1>5, <1>8, <1>9 DEF Held
<1>11. held' = [from |-> s, size |-> 4]
  BY <1>8, <1>10 DEF Pass, Shortest
<1> QED
  BY <1>11

LEMMA CutClean ==
  ASSUME FInv, NEW d, Cuts(d)
  PROVE  CleanFrameAccepted'
<1> USE DEF FInv
<1>1. d \in stream.delims /\ d \in Nat /\ framed + 2 <= d
  BY FirstFacts DEF Cuts
<1>2. /\ framed \in Nat /\ stream.delims \subseteq Nat /\ stream.ends \subseteq stream.delims
      /\ MaxFrame \in Nat /\ MinFrame \in Nat /\ MinFrame > 4
      /\ \A c \in stream.ends : c >= MinFrame
      /\ \A c, e \in stream.ends : c < e => c + MinFrame <= e
      /\ held.size \in 0 .. 4
  BY StreamFacts DEF StreamTypeOK, Shortest
<1>3. UNCHANGED <<stream, crDropped>> /\ framed' = d
  BY DEF Cuts
<1>4. accepted \subseteq accepted'
  BY DEF Cuts, Pass, Handle
<1> SUFFICES ASSUME ~crDropped, NEW s \in {0} \cup stream.ends, NEW e \in stream.ends,
                    IsFrame(s, e), Clean(s, e), ~Exposed(s), e <= d
             PROVE  e \in accepted'
  BY <1>3, SameStream
<1>5. CASE e <= framed
  BY <1>4, <1>5 DEF CleanFrameAccepted
<1>6. CASE framed < e
  <2>1. PICK q \in Border : /\ IsPiece(q, d) /\ q <= framed
                            /\ \A c \in stream.delims : ~(q < c /\ c <= framed)
                            /\ ~discarding => q = framed
                            /\ discarding => d - q >= MaxFrame + 2
    BY CutPiece
  <2>2. e = d
    <3>1. e \in Nat /\ q \in Nat
      BY <1>2 DEF Border
    <3>2. ~(e < d)
      BY <1>2, <1>6, <2>1, <3>1 DEF IsPiece
    <3> QED
      BY <1>1, <3>1, <3>2
  <2>3. q \in Nat /\ s \in Nat /\ q < d /\ s < d
    BY <1>2, <2>1, <2>2 DEF Border, IsPiece, IsFrame
  <2>4. q = s \/ q = s + 4
    <3>1. \A c \in stream.delims : s < c /\ c < d => c = s + Shortest
      BY <2>2 DEF Clean
    <3>2. q = s \/ q = s + Shortest
      BY <2>1, <2>3, <3>1, CutFrame
    <3> QED
      BY <3>2 DEF Shortest
  <2>5. d - s < MaxFrame + 2
    BY <2>2 DEF Clean
  <2>6. ~discarding /\ framed = q /\ Pass(d)
    BY <1>1, <1>2, <2>1, <2>3, <2>4, <2>5 DEF Cuts
  <2>7. d - s > 4
    BY <1>1, <1>2, <2>2, <2>3
  <2>8. Held(d) = [from |-> s, size |-> d - s]
    <3>1. CASE q = s
      <4>1. held.size = 0
        BY <1>2, <2>6, <3>1 DEF HeldExposes
      <4> QED
        BY <2>6, <3>1, <4>1 DEF Held
    <3>2. CASE q = s + 4
      <4>1. q \in stream.delims
        BY <2>3, <3>2 DEF Border
      <4>2. held.from = s /\ held.size = 4
        BY <2>6, <3>2, <4>1 DEF HeadHeld, Shortest
      <4>3. held = [from |-> held.from, size |-> held.size]
        BY DEF StreamTypeOK
      <4>4. 4 + (d - framed) = d - s
        BY <1>1, <2>3, <2>6, <3>2
      <4> QED
        BY <4>2, <4>3, <4>4 DEF Held
    <3> QED
      BY <2>4, <3>1, <3>2
  <2>9. s + (d - s) = d
    BY <1>1, <2>3
  <2> QED
    BY <2>2, <2>6, <2>7, <2>8, <2>9 DEF Pass, Handle, Shortest
<1> QED
  BY <1>2, <1>5, <1>6

-----------------------------------------------------------------------------

LEMMA FInvStep == FInv /\ [StreamNext]_streamVars => FInv'
<1> SUFFICES ASSUME FInv, [StreamNext]_streamVars PROVE FInv'
  OBVIOUS
<1>1. stream' \in Streams /\ StreamTypeOK' /\ HeldBehind'
  BY StreamTypeStep DEF FInv
<1>2. AtBorder' /\ HeldExposes' /\ HeadHeld' /\ DamagedFrameIgnored' /\ CleanFrameAccepted'
  <2>1. Rests \/ Drops \/ \E d \in Found : Cuts(d)
    BY Steps DEF FInv
  <2> QED
    BY <2>1, RestsStep, DropsStep, CutBorder, CutExposes, CutHead, CutDamaged, CutClean
<1> QED
  BY <1>1, <1>2 DEF FInv

(* Whatever a device sends and however it arrives, the pipeline's          *)
(* invariant holds.                                                        *)
THEOREM PipelineCorrect == StreamSpec => []FInv
  BY FInvInit, FInvStep, PTL DEF StreamSpec

(* The stations of the way of the bytes are in order. *)
THEOREM PipelineTypeCorrect == StreamSpec => []StreamTypeOK
<1>1. FInv => StreamTypeOK
  BY DEF FInv
<1> QED
  BY <1>1, PipelineCorrect, PTL

(* The handler takes no frame that has a CR LF in its data or checksum. *)
THEOREM PipelineIgnoresDamaged == StreamSpec => []DamagedFrameIgnored
<1>1. FInv => DamagedFrameIgnored
  BY DEF FInv
<1> QED
  BY <1>1, PipelineCorrect, PTL

(* A clean frame gets to the handler unless it is exposed or a CR was      *)
(* dropped without its LF.                                                 *)
THEOREM PipelineAcceptsClean == StreamSpec => []CleanFrameAccepted
<1>1. FInv => CleanFrameAccepted
  BY DEF FInv
<1> QED
  BY <1>1, PipelineCorrect, PTL

=============================================================================
