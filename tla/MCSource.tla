------------------------------ MODULE MCSource ------------------------------
(***************************************************************************)
(* One of two parts of an ingest: the set-up of the queues from the        *)
(* programs of small sources, and the packets of one of them, with a video *)
(* and an audio stream.                                                    *)
(***************************************************************************)
EXTENDS QueueSetup, IngestPackets

CONSTANT Parts     \* the parts that are checked

VARIABLE part

-----------------------------------------------------------------------------
VideoStream(pid, d) == [PID |-> pid, type |-> "video", language |-> ",,", descriptor |-> d]
AudioStream(pid, lang, d) == [PID |-> pid, type |-> "audio", language |-> lang, descriptor |-> d]

Segments == [p \in {1} |-> Explicit]
Both     == [p \in {1, 2} |-> Explicit]
After(pid) == [p \in {1} |-> pid]
Unknown  == [p \in {1, 10} |-> Explicit]

\* Video and two languages; the same languages on other PIDs; one language twice; no
\* descriptors; a boundary that follows another source's stream or none at all; a
\* partition that is out of range; two videos; no PMT.
InOrderPrograms == {
    <<VideoStream(481, Segments), AudioStream(482, "eng", After(481)), AudioStream(483, "fra", NULL)>>,
    <<VideoStream(481, Both), AudioStream(492, "eng", Segments), AudioStream(493, "fra", After(481))>>,
    <<VideoStream(481, NULL), AudioStream(482, "eng", NULL), AudioStream(483, "eng", Segments)>>,
    <<VideoStream(501, Segments), AudioStream(482, "eng", After(481))>>,
    <<VideoStream(481, Segments), AudioStream(483, "eng", NULL)>>,
    <<VideoStream(481, Unknown)>>,
    <<VideoStream(481, Both), VideoStream(491, Both), AudioStream(482, "eng", NULL)>>,
    <<>> }

OtherPrograms == {
    <<AudioStream(482, "eng", After(481)), VideoStream(481, Both)>>,
    <<VideoStream(481, Segments), AudioStream(483, "fra", NULL), AudioStream(482, "eng", Both)>>,
    <<AudioStream(483, "fra", NULL)>> }

AllPrograms == InOrderPrograms \cup OtherPrograms

-----------------------------------------------------------------------------
\* Partition 1 of the audio follows the video, the others are explicit.
FollowingBoundaries ==
    (481 :> [p \in {1, 2} |-> Explicit]) @@ (482 :> ((1 :> 481) @@ (2 :> Explicit)))

PES(stream, pts, ebp) == [stream |-> stream, PTS |-> pts, ebp |-> ebp, valid |-> TRUE]

Insert(id, time, adjustment) ==
    [command |-> "splice_insert", id |-> id, cancel |-> FALSE, program |-> TRUE,
     time |-> time, components |-> <<>>, pts_adjustment |-> adjustment]
Component(id, stream, time) ==
    [Insert(id, NULL, 0) EXCEPT !.program = FALSE, !.components = stream :> time]
Cancel(id) == [Insert(id, NULL, 0) EXCEPT !.program = FALSE, !.cancel = TRUE]
Signal(time, adjustment) ==
    [command |-> "time_signal", time |-> time, pts_adjustment |-> adjustment]

\* Packets before, at, near and after the splices; boundaries and packets without.
SmallPackets == {
    PES(481, 1, {1}), PES(481, 6, {1, 2}), PES(481, 9, NULL),
    PES(482, 7, {2}), [PES(482, 6, {1}) EXCEPT !.valid = FALSE],
    Insert(1, 4, 1), Insert(1, 8, 0), Insert(2, 6, 0),
    Component(1, 481, 7), Cancel(2), Signal(5, 0), Signal(3, 0), Signal(7, 3) }

-----------------------------------------------------------------------------
SourceInit ==
    /\ part \in Parts
    /\ SetupInit
    /\ part = "packets" => programs = [f \in Ingests |-> <<>>]
    /\ Init

SourceNext ==
    \/ part = "queues" /\ SetupNext /\ UNCHANGED <<part, vars>>
    \/ part = "packets" /\ Next /\ UNCHANGED <<part, setupVars>>

SourceSpec == SourceInit /\ [][SourceNext]_<<part, setupVars, vars>>
=============================================================================
