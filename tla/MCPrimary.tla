------------------------------ MODULE MCPrimary ------------------------------
EXTENDS PrimaryServer, Sequences, SequencesExt

CONSTANT MaxFrames      \* frames on the connection

(* A frame by its length and the ends of the CR LFs inside it: none; the   *)
(* checksum; the last bytes of the data; the length field (0D0A = 3338);   *)
(* at the framer's limit, over it; two inside.                             *)
Shapes ==
  { [len |-> 36, inner |-> {}],     [len |-> 36, inner |-> {34}],
    [len |-> 36, inner |-> {32}],   [len |-> 36, inner |-> {31, 34}],
    [len |-> 3338, inner |-> {4}],  [len |-> 8194, inner |-> {}],
    [len |-> 8300, inner |-> {}] }

EndOf(frames, k) == FoldLeft(LAMBDA sum, f : sum + f.len, 0, SubSeq(frames, 1, k))

(* Segments end before, in or behind a CR LF: elsewhere one end is like    *)
(* another.                                                                *)
StreamOf(frames) ==
  LET ends == {EndOf(frames, k) : k \in DOMAIN frames}
      delims == ends \cup UNION {{EndOf(frames, k - 1) + c : c \in frames[k].inner} : k \in DOMAIN frames}
      last == EndOf(frames, Len(frames))
  IN  [ends |-> ends, delims |-> delims,
       segments |-> {p \in UNION {{d - 2, d - 1, d} : d \in delims} : p <= last}]

MCStreams == {StreamOf(f) : f \in [1 .. MaxFrames -> Shapes]}

=============================================================================
