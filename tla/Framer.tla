------------------------------- MODULE Framer -------------------------------
(***************************************************************************)
(* Framer of transport.rs: HCI frames are reassembled from the fragments    *)
(* that USB transfers carry.  The radio (external) sends a stream of frames *)
(* of one packet type; the stream is cut into fragments; a fragment of      *)
(* audio may be lost.                                                       *)
(***************************************************************************)
EXTENDS Integers, Sequences, SequencesExt

CONSTANTS
    Kinds,     \* packet types: 2 is ACL, 3 is SCO, 4 is events
    Handle,    \* the handle of the link
    Payloads,  \* by packet type: payloads of the frames the radio sends
    Cuts,      \* by packet type: sizes of the fragments
    MaxFrame,  \* MAX_FRAME
    MaxAhead,  \* bound of the model: frames sent and not fully transferred
    MaxLosses  \* bound of the model, by packet type: fragments lost, framers emptied

\* The length of a header, by packet type.
HeaderOf(k) == CASE k = 2 -> 4 [] k = 3 -> 3 [] k = 4 -> 2

ASSUME FramerAssumption ==
    /\ Kinds \subseteq {2, 3, 4} /\ MaxFrame \in Nat
    /\ \A k \in Kinds : Cuts[k] \subseteq Nat \ {0} /\ MaxLosses[k] \in Nat

\* The radio sends frames that their headers can describe, of a length that the
\* framer accepts.
ASSUME RadioAssumption ==
    /\ Handle \in 0..4095
    /\ \A k \in Kinds : \A p \in Payloads[k] :
        /\ p \in Seq(0..255) /\ HeaderOf(k) + Len(p) <= MaxFrame
        /\ Len(p) < IF k = 2 THEN 65536 ELSE 256

VARIABLES
    kind,     \* the packet type of this framer
    buf,      \* Framer.bytes
    err,      \* push() has failed, which ends the service
    out,      \* the frames that the last push() returned
    due,      \* environment: frames sent and not fully transferred
    stream,   \* environment: their bytes not yet transferred
    ended,    \* history: the frames whose last byte was in the last fragment
    whole,    \* history: no byte of the first frame of due was lost so far
    clean,    \* history: frames ended in a row, up to 2, with no byte lost
    losses    \* fragments lost and framers emptied so far

vars == <<kind, buf, err, out, due, stream, ended, whole, clean, losses>>

-----------------------------------------------------------------------------
(* The parser.                                                              *)

HeaderLen == HeaderOf(kind)

\* handle(): twelve bits, the rest are flags.
HandleOf(b) == (b[1] + 256 * b[2]) % 4096

PayloadLen(b) == CASE kind = 2 -> b[3] + 256 * b[4]
                   [] kind = 3 -> b[3]
                   [] kind = 4 -> b[2]

Idle(b) == [bytes |-> b, frames |-> <<>>, skip |-> FALSE, err |-> FALSE]

\* Fault: the bytes after a foreign header are parsed on.
FaultyForeign(st, b) == [st EXCEPT !.bytes = <<>>]

\* A header of another handle: the rest of the fragment is discarded.
Foreign(st, b) == [st EXCEPT !.bytes = <<>>, !.skip = TRUE]

IsForeign(b) == kind = 3 /\ Len(b) = HeaderLen /\ HandleOf(b) # Handle

\* Fault: the largest frame is refused.
FaultyOversized(b) == HeaderLen + PayloadLen(b) >= MaxFrame

Oversized(b) == HeaderLen + PayloadLen(b) > MaxFrame

Complete(st, b) == [st EXCEPT !.bytes = <<>>, !.frames = Append(st.frames, b)]

\* The body of the loop of push() on one byte.
PushByte(st, byte) ==
    LET b == Append(st.bytes, byte) IN
    IF st.skip \/ st.err THEN st
    ELSE IF Len(b) < HeaderLen THEN [st EXCEPT !.bytes = b]
    ELSE IF IsForeign(b) THEN Foreign(st, b)
    ELSE IF Oversized(b) THEN [st EXCEPT !.bytes = <<>>, !.err = TRUE]
    ELSE IF Len(b) = HeaderLen + PayloadLen(b) THEN Complete(st, b)
    ELSE [st EXCEPT !.bytes = b]

\* The loop: after[i] is the state of the parser after i bytes of the fragment.
Push(b, fragment) ==
    LET after[i \in 0..Len(fragment)] ==
          IF i = 0 THEN Idle(b) ELSE PushByte(after[i - 1], fragment[i])
    IN  after[Len(fragment)]

-----------------------------------------------------------------------------
(* The radio and the bus.                                                   *)

\* A frame, as the radio encodes it.
Encode(p) == CASE kind = 2 -> <<Handle % 256, Handle \div 256, Len(p) % 256, Len(p) \div 256>> \o p
               [] kind = 3 -> <<Handle % 256, Handle \div 256, Len(p)>> \o p
               [] kind = 4 -> <<14, Len(p)>> \o p

Init ==
    /\ kind \in Kinds
    /\ buf = <<>> /\ err = FALSE /\ out = <<>>
    /\ due = <<>> /\ stream = <<>>
    /\ ended = <<>> /\ whole = TRUE /\ clean = 2 /\ losses = 0

Send ==
    /\ Len(due) < MaxAhead
    /\ \E p \in Payloads[kind] : /\ due' = Append(due, Encode(p))
                                 /\ stream' = stream \o Encode(p)
    /\ UNCHANGED <<kind, buf, err, out, ended, whole, clean, losses>>

\* The frames whose last byte is among the next n bytes of the stream.
Ending(n) == LET done == Len(FlattenSeq(due)) - Len(stream)   \* of the first frame
             IN  {k \in 1..Len(due) : Len(FlattenSeq(SubSeq(due, 1, k))) - done <= n}
NumEnding(n) == Cardinality(Ending(n))

\* The stream moves on by n bytes, all of them lost or none.
Transfer(n, lost) ==
    /\ n <= Len(stream)
    /\ stream' = SubSeq(stream, n + 1, Len(stream))
    /\ ended' = SubSeq(due, 1, NumEnding(n))
    /\ due' = SubSeq(due, NumEnding(n) + 1, Len(due))
    /\ IF NumEnding(n) = 0
       THEN whole' = (whole /\ ~lost) /\ UNCHANGED clean
       ELSE /\ whole' = TRUE
            /\ clean' = IF whole /\ ~lost THEN IF clean = 0 THEN 1 ELSE 2 ELSE 0

\* Transport::usb on a fragment.
Deliver(n) ==
    /\ ~err
    /\ Transfer(n, FALSE)
    /\ LET st == Push(buf, SubSeq(stream, 1, n)) IN
       /\ buf' = st.bytes /\ out' = st.frames /\ err' = st.err
    /\ UNCHANGED <<kind, losses>>

\* An isochronous packet that was not received intact is skipped.
Lose(n) ==
    /\ kind = 3 /\ ~err /\ losses < MaxLosses[kind]
    /\ Transfer(n, TRUE)
    /\ losses' = losses + 1
    /\ out' = <<>>
    /\ UNCHANGED <<kind, buf, err>>

\* A Reset of the host empties the framers of ACL and SCO, a change of the link
\* that of SCO.
Clear ==
    /\ kind # 4 /\ losses < MaxLosses[kind]
    /\ buf' = <<>> /\ out' = <<>> /\ ended' = <<>> /\ losses' = losses + 1
    /\ whole' = (whole /\ Len(FlattenSeq(due)) = Len(stream))
    /\ UNCHANGED <<kind, err, due, stream, clean>>

Next == Send \/ Clear \/ \E n \in Cuts[kind] : Deliver(n) \/ Lose(n)

Spec == Init /\ [][Next]_vars

-----------------------------------------------------------------------------
(* Properties.                                                              *)

\* Without losses the fragments leave no trace: push() returns the frames that
\* end in the fragment, unchanged, and keeps the beginning of the next one, for
\* every way of cutting the stream and whatever the payloads look like.
FragmentsIgnored ==
    losses = 0 => ~err /\ out = ended /\ buf \o stream = FlattenSeq(due)

\* Audio recovers from lost fragments: of two frames in a row that arrive whole
\* the second is returned intact, whatever was lost before.
Resyncs == kind = 3 /\ ended # <<>> /\ clean = 2 => ~err /\ out = ended /\ buf = <<>>
=============================================================================
