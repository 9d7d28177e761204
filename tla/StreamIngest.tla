---------------------------- MODULE StreamIngest ----------------------------
(***************************************************************************)
(* One multicast source, from its socket to its ingest thread              *)
(* (runStreamIngestMode in ATSTestApp.c).  The main thread starts the      *)
(* socket receive thread, which fills the circular buffer, joins the       *)
(* preread thread, which peeks at the buffer until it knows the program,   *)
(* starts the ingest thread, which reads the buffer from the first packet  *)
(* on, and on the user's "x" disables the buffer and joins the threads.    *)
(*                                                                         *)
(* The unit of data is a TS packet.  Reader is the preread thread and then *)
(* the ingest thread: they never live at the same time.  Its calls return  *)
(* from pthread_cond_wait on a signal only: WakesSpuriously is no step.    *)
(***************************************************************************)
EXTENDS EBPStreamBuffer

CONSTANT MaxDatagram \* packets of the largest datagram

ASSUME IngestAssumption == MaxDatagram \in Nat \ {0}

VARIABLES main,       \* where the main thread is
          socket,     \* where the socket receive thread is, and its locals
          reader,     \* where the preread or ingest thread is
          emptyWrite  \* nothing was written since the ingest thread started: history

ingestVars == <<bufferVars, main, socket, reader, emptyWrite>>

-----------------------------------------------------------------------------
\* The socket receive thread.

\* Mutation: the size of the buffer is taken for the space left in it.
SocketAsksForAll ==
    /\ socket.pc = "loop"
    /\ socket' = [socket EXCEPT !.pc = "select", !.availableSpace = BufSz]
    /\ UNCHANGED <<bufferVars, main, reader, emptyWrite>>

\* The top of the loop: how much to ask for, decided before the wait.
SocketAsks ==
    /\ socket.pc = "loop"
    /\ socket' = [socket EXCEPT !.pc = "select", !.availableSpace = AvailableWriteSize]
    /\ UNCHANGED <<bufferVars, main, reader, emptyWrite>>

\* recv takes what was asked for of a datagram of n packets; the rest is gone.
SocketReceives(n) ==
    /\ socket.pc = "select"
    /\ LET received == Least(n, socket.availableSpace)
       IN  /\ nWritten + received <= MaxBytes
           /\ socket' = [socket EXCEPT !.pc = "write", !.received = received]
    /\ UNCHANGED <<bufferVars, main, reader, emptyWrite>>

\* Mutation: a thread that sees no data does not look at the buffer.
SocketTimesOutUnaware ==
    /\ socket.pc = "select"
    /\ socket' = [socket EXCEPT !.pc = "loop"]
    /\ UNCHANGED <<bufferVars, main, reader, emptyWrite>>

\* select gives up after its timeout.
SocketTimesOut ==
    /\ socket.pc = "select"
    /\ socket' = [socket EXCEPT !.pc = IF disabled THEN "exited" ELSE "loop"]
    /\ UNCHANGED <<bufferVars, main, reader, emptyWrite>>

\* Setting up the socket, select or recv fails, or recv returns part of a
\* packet: the thread exits and leaves the buffer as it is.
SocketFails ==
    /\ socket.pc \in {"loop", "select"}
    /\ socket' = [socket EXCEPT !.pc = "exited"]
    /\ UNCHANGED <<bufferVars, main, reader, emptyWrite>>

\* Mutation: an empty datagram is not passed on to the buffer.
SocketWritesUnlessEmpty ==
    /\ socket.pc = "write"
    /\ IF socket.received = 0 THEN UNCHANGED bufferVars ELSE cb_write(socket.received)
    /\ socket' = [socket EXCEPT !.pc = IF ret'.code < 0 THEN "exited" ELSE "loop"]
    /\ UNCHANGED <<main, reader, emptyWrite>>

SocketWrites ==
    /\ socket.pc = "write"
    /\ cb_write(socket.received)
    /\ socket' = [socket EXCEPT !.pc = IF ret'.code < 0 THEN "exited" ELSE "loop"]
    /\ emptyWrite' = (emptyWrite \/ (socket.received = 0 /\ ret'.code = 0))
    /\ UNCHANGED <<main, reader>>

-----------------------------------------------------------------------------
\* The preread thread and the ingest thread.

\* What the thread does next, by what cb_peek or cb_read returned.  The preread
\* ends once the packets have told it enough, or nothing was returned.
After(op, code) ==
    IF op = "peek" THEN {"preread_over"} \cup (IF code > 0 THEN {"preread"} ELSE {})
    ELSE IF code > 0 THEN {"ingest"} ELSE {"ingest_over"}

\* A call that returns at once or parks.
Calls(op) ==
    /\ cb_read_or_peek(op, MaxRequest)
    /\ reader' \in IF call'.op = "none" THEN After(op, ret'.code) ELSE {reader}
    /\ UNCHANGED <<main, socket, emptyWrite>>

\* Mutation: the preread takes its packets out of the buffer.
PrereadReads == reader = "preread" /\ Calls("read")

Preread == reader = "preread" /\ Calls("peek")
Ingest  == reader = "ingest" /\ Calls("read")

\* A parked call comes back.
ReaderReturns ==
    /\ CallReturns
    /\ reader' \in After(call.op, ret'.code)
    /\ UNCHANGED <<main, socket, emptyWrite>>

Reads == Preread \/ Ingest \/ ReaderReturns

-----------------------------------------------------------------------------
\* The main thread.

\* It has joined the preread thread and starts the ingest thread.
StartsIngest ==
    /\ main = "preread"
    /\ reader = "preread_over"
    /\ main' = "menu"
    /\ reader' = "ingest"
    /\ emptyWrite' = FALSE
    /\ UNCHANGED <<bufferVars, socket>>

\* The user types "x".
Exits ==
    /\ main = "menu"
    /\ cb_disable
    /\ main' = "joining"
    /\ UNCHANGED <<socket, reader, emptyWrite>>

\* Both threads have been joined: the queues are torn down and cb_free runs.
Frees ==
    /\ main = "joining"
    /\ socket.pc = "exited"
    /\ reader = "ingest_over"
    /\ main' = "freed"
    /\ UNCHANGED <<bufferVars, socket, reader, emptyWrite>>

-----------------------------------------------------------------------------
\* The threads run from the start of the socket receive and preread threads on.
IngestInit ==
    /\ BufferInit
    /\ main = "preread"
    /\ socket = [pc |-> "loop", availableSpace |-> 0, received |-> 0]
    /\ reader = "preread"
    /\ emptyWrite = FALSE

Receives == \E n \in 1 .. MaxDatagram : SocketReceives(n)
Socket   == SocketAsks \/ Receives \/ SocketTimesOut \/ SocketWrites

IngestNext == Socket \/ SocketFails \/ Reads \/ StartsIngest \/ Exits \/ Frees

IngestSpec == IngestInit /\ [][IngestNext]_ingestVars

\* Every thread that can run is scheduled; the user may never type "x" and the
\* socket need not fail.
IngestFairSpec == /\ IngestSpec
                  /\ WF_ingestVars(Socket)
                  /\ WF_ingestVars(Reads)
                  /\ WF_ingestVars(StartsIngest)
                  /\ WF_ingestVars(Frees)

\* And the source keeps sending: select finds a datagram time and again.
SendingSpec == IngestFairSpec /\ SF_ingestVars(Receives)

-----------------------------------------------------------------------------
IngestTypeOK ==
    /\ BufferTypeOK
    /\ main \in {"preread", "menu", "joining", "freed"}
    /\ socket \in [pc : {"loop", "select", "write", "exited"},
                   availableSpace : 0 .. BufSz, received : 0 .. BufSz]
    /\ reader \in {"preread", "preread_over", "ingest", "ingest_over"}
    /\ emptyWrite \in BOOLEAN

\* The space the socket thread saw before select and recv is still there when
\* it writes (EBPSocketReceiveThread.c:214 and 267), so cb_write never refuses
\* what was received and the thread never gives up on a full buffer (274-281).
SpaceStillThere == socket.pc = "write" => socket.received <= AvailableWriteSize

\* Whatever the preread thread peeks at, also with its peek position around the
\* end of the buffer, the ingest thread starts with the first packet that was
\* received (EBPPreReadStreamIngestThread.c:111-142, EBPStreamIngestThread.c:98).
PrereadTakesNothing == main = "preread" => ReadSize = nWritten

\* The ingest thread gives up its stream only when the buffer was disabled and
\* all of it was read, unless the socket thread wrote nothing at all
\* (EBPStreamIngestThread.c:98, EBPStreamBuffer.c:175-182 and 204).
EndsWhenDisabled ==
    reader = "ingest_over" /\ ~emptyWrite => disabled /\ ReadSize = 0

\* From the first packet to the last: nothing is taken before the ingest thread
\* starts, and it does not give up before all is read.
IngestReadsItAll == PrereadTakesNothing /\ EndsWhenDisabled

\* EBPStreamIngestThread.c:138, "push a NULL element onto each queue to signal
\* the analysis threads that all data has been processed": the ingest thread is
\* at that push only when no data is left or can still come.
NullMeansAllProcessed ==
    reader = "ingest_over" => /\ ReadSize = 0
                              /\ disabled \/ socket.pc = "exited"

\* "x" ends the program from every state of the three threads: parked, between
\* select and write, over a full buffer or after a failure (ATSTestApp.c:1897
\* "this will cause all the threads to exit").
ExitCompletes == main = "joining" ~> main = "freed"

\* The preread of a source that keeps sending ends even if its packets never
\* end the EBP search: a full buffer makes the socket thread ask for 0 bytes,
\* and the empty write ends the peek (EBPSocketReceiveThread.c:214-267,
\* EBPStreamBuffer.c:184-209, EBPPreReadStreamIngestThread.c:111-114).
PrereadEnds == main = "preread" ~> (main # "preread" \/ socket.pc = "exited")
=============================================================================
