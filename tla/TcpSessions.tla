---------------------------- MODULE TcpSessions ----------------------------
(***************************************************************************)
(* Sessions of the TCP gateway: frames, batches, what ends a session.      *)
(*                                                                         *)
(* A session is a task of BackendTasks.  It opens a database session for   *)
(* the authentication and one for each reading, and none between frames.   *)
(* Of a frame only the places of the readings that have a metric count:    *)
(* one for "data", some of MaxBatch for "batch".  The others are passed    *)
(* over without a word.                                                    *)
(***************************************************************************)
EXTENDS BackendTasks

CONSTANTS MaxBatch        \* MAX_BATCH_READING

ASSUME BatchAssumption == MaxBatch \in Nat \ {0}

VARIABLES
    frame,        \* places of the readings of the frame that a session is at,
    published,    \*   those handed to paho,
    stored        \*   those committed

frameVars == <<frame, published, stored>>

Places == 1..MaxBatch

FramesTypeOK ==
    /\ frame \in [Tasks -> SUBSET Places]
    /\ published \in [Tasks -> SUBSET Places]
    /\ stored \in [Tasks -> SUBSET Places]

FramesInit ==
    /\ frame = [t \in Tasks |-> {}]
    /\ published = [t \in Tasks |-> {}]
    /\ stored = [t \in Tasks |-> {}]

-----------------------------------------------------------------------------

Session(t, s) == op[t] = "tcp" /\ step[t] = s

Frame(t, F, P, D) ==
    /\ frame' = [frame EXCEPT ![t] = F]
    /\ published' = [published EXCEPT ![t] = P]
    /\ stored' = [stored EXCEPT ![t] = D]

First(S, i) == i \in S /\ \A j \in S : i <= j

\* run is over, or has raised: asyncio closes the transport.
SessionEnds(t) == Ends(t) /\ Frame(t, {}, {}, {})

\* _handle_client.
AcceptClient(t) == Begins(t, "tcp", "greeting") /\ UNCHANGED frameVars

\* _authenticate: the first frame has come in time.
Greeted(t) ==
    /\ Session(t, "greeting")
    /\ Goes(t, "asking")
    /\ UNCHANGED <<out, frameVars>>

\* Mutant of ClientDone: no IDLE_TIMEOUT.
GreeterDone(t) ==
    /\ Session(t, "greeting")
    /\ SessionEnds(t)

\* The AUTH_TIMEOUT, IDLE_TIMEOUT or EOF of _read_frame, a frame that is too
\* long, "disconnect", or a first frame that is not "auth".
ClientDone(t) ==
    /\ Session(t, "greeting") \/ Session(t, "reading")
    /\ SessionEnds(t)

AskDevice(t) ==
    /\ Session(t, "asking")
    /\ CheckOut(t, "own")
    /\ Goes(t, "connected")
    /\ UNCHANGED frameVars

\* bridge.authenticate has found the device, active and with this key: auth_ok.
DeviceKnown(t) ==
    /\ Session(t, "connected")
    /\ CheckIn(t)
    /\ Goes(t, "answering")
    /\ UNCHANGED frameVars

\* auth_fail.
DeviceRefused(t) ==
    /\ Session(t, "connected")
    /\ SessionEnds(t)

\* A "ping", what is no JSON, a type that is not known, no metric, too long a
\* batch, or one in which no reading has a metric; an empty frame too, which
\* keeps the session but gets no answer.
AnswerAtOnce(t) ==
    /\ Session(t, "reading")
    /\ Goes(t, "answering")
    /\ UNCHANGED <<out, frameVars>>

\* _process_data and _process_batch hand the first reading that has a metric to
\* to_forward, and it publishes before it stores.
TakeReadings(t, F) ==
    /\ Session(t, "reading")
    /\ Goes(t, "forwarding")
    /\ \E i \in F : First(F, i) /\ Frame(t, F, {i}, {})
    /\ UNCHANGED out

\* insert_message, the first statement of the reading's own session.
StoreReading(t) ==
    /\ Session(t, "forwarding")
    /\ CheckOut(t, "own")
    /\ Goes(t, "storing")
    /\ UNCHANGED frameVars

\* Mutant of ReadingFails: the batch goes on with the next reading.
ReadingSkipped(t) ==
    LET left == frame[t] \ published[t] IN
    /\ Session(t, "storing")
    /\ CheckIn(t)
    /\ \/ left = {} /\ Goes(t, "answering") /\ UNCHANGED frameVars
       \/ \E i \in left : /\ First(left, i) /\ Goes(t, "forwarding")
                           /\ Frame(t, frame[t], published[t] \cup {i}, stored[t])

\* An error of the database, of paho, or of a reading that is no object:
\* nothing catches it, so the session is over, and the client is not told how
\* many of its readings were stored.
ReadingFails(t) ==
    /\ \E s \in {"connected", "forwarding", "storing"} : Session(t, s)
    /\ SessionEnds(t)

\* The commit of to_forward; then the next reading of the batch that has a
\* metric, or the ack, which counts those that were stored.
CommitReading(t) ==
    LET left == frame[t] \ published[t] IN
    /\ Session(t, "storing")
    /\ CheckIn(t)
    /\ \/ left = {} /\ Goes(t, "answering") /\ Frame(t, frame[t], published[t], published[t])
       \/ \E i \in left : /\ First(left, i) /\ Goes(t, "forwarding")
                           /\ Frame(t, frame[t], published[t] \cup {i}, published[t])

\* _send returns when drain() does: when the client has read enough.
Answered(t) ==
    /\ Session(t, "answering")
    /\ Goes(t, "reading")
    /\ Frame(t, {}, {}, {})
    /\ UNCHANGED out

\* The connection is reset meanwhile.
AnswerLost(t) ==
    /\ Session(t, "answering")
    /\ SessionEnds(t)

SessionTimesOut(t) ==
    /\ op[t] = "tcp"
    /\ GivesUp(t)
    /\ Frame(t, {}, {}, {})

\* What ends by itself: timeouts, and answers of the database.
SessionHandles(t) ==
    \/ ClientDone(t) \/ AskDevice(t) \/ SessionTimesOut(t)
    \/ DeviceKnown(t) \/ DeviceRefused(t)
    \/ StoreReading(t) \/ CommitReading(t)

\* What the client does, and what may go wrong.
SessionHears(t) ==
    \/ Greeted(t) \/ AnswerAtOnce(t) \/ Answered(t) \/ AnswerLost(t)
    \/ \E F \in SUBSET Places : TakeReadings(t, F)
    \/ ReadingFails(t)

-----------------------------------------------------------------------------

\* At any point of a batch those of its readings that have a metric were stored
\* in their order, each once it was published and before the next one is: a
\* session that dies leaves at most one reading on the broker that is not
\* stored.  An ack stands for all of them, and for none of the others.
BatchAccounted ==
    \A t \in Tasks :
        /\ stored[t] \subseteq published[t] /\ published[t] \subseteq frame[t]
        /\ \A i \in published[t], j \in frame[t] : j < i => j \in stored[t]
        /\ step[t] = "answering" => stored[t] = frame[t]
=============================================================================
