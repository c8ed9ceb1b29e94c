---------------------------- MODULE SessionRelay -----------------------------
(***************************************************************************)
(* One proxied TCP session from the moment it is ACTIVE: the two           *)
(* DirectionalRelays of a BidirectionalRelay (core/relay.py), the session  *)
(* task that runs them (ProxyEngine._run_session), the tamper gate that    *)
(* may hold a frame, and the operator who terminates the session, swaps    *)
(* its framers and injects bytes into it.                                  *)
(*                                                                         *)
(* Every action is what one task does between two awaits.  Publishing an   *)
(* event is an await: with a subscriber (the user interface always         *)
(* subscribes) EventBus.publish suspends the publisher.                    *)
(*                                                                         *)
(* Data: the source of direction d sends bytes 1..Length[d]; a framer      *)
(* completes a frame at the positions Boundary[d].  A frame is the range   *)
(* of bytes it holds, and the unit the gate sees is named by the first.    *)
(*                                                                         *)
(* A definition that begins "Slip:" is no part of the specification: it is *)
(* a mistake the next definition could contain, used to see the property   *)
(* that forbids it fail.                                                   *)
(***************************************************************************)
EXTENDS Integers, Sequences, FiniteSets

CONSTANTS Length,            \* how many bytes each source may send
          Boundary,          \* where the framer of each direction ends a frame
          KeepOpen,          \* keep_*_on_*_disconnect: do not propagate EOF
          HalfOpenTimeout,   \* half_open_idle_timeout > 0
          SwallowsCancel,    \* asyncio.wait_for of Python 3.11, see CanRead
          BadRules,          \* directions with a replace rule that may raise
          MaxTerminates,     \* bound: calls of terminate_session
          MaxSwaps,          \* bound: framer swaps
          Injecting          \* directions the operator injects into, once each

Dir == {"up", "down"}        \* CLIENT_TO_SERVER, SERVER_TO_CLIENT
Other(d) == IF d = "up" THEN "down" ELSE "up"

ASSUME RelayAssumption ==
    /\ Length \in [Dir -> Nat]
    /\ Boundary \in [Dir -> SUBSET Nat]
    /\ KeepOpen \in [Dir -> BOOLEAN]
    /\ HalfOpenTimeout \in BOOLEAN /\ SwallowsCancel \in BOOLEAN
    /\ BadRules \subseteq Dir
    /\ MaxTerminates \in Nat
    /\ MaxSwaps \in Nat
    /\ Injecting \subseteq Dir

Unit == UNION {{d} \X (1..Length[d]) : d \in Dir}

None == "none"

VARIABLES
    gone,        \* sources that closed: their EOF or reset will be read
    taken,       \* bytes read so far
    framed,      \* bytes that left the framer's buffer (emitted or discarded)
    seqno,       \* the framer's sequence counter
    task,        \* where each relay task stands
    mode,        \* "run": the loop; "flush"/"unwind": the finally block, the
                 \* latter with a CancelledError on its way out
    batch,       \* the frames still to process: a byte range and the next number
    cancelling,  \* relay tasks whose cancellation is not delivered yet
    peer_gone,   \* DirectionalRelay._peer_gone
    log,         \* session.frames, per direction
    wrote,       \* what was written to each destination
    eof_sent,    \* write_eof() was sent to the destination
    first_done,  \* first_done of BidirectionalRelay.run
    state,       \* session.info.state
    main,        \* the session task
    registered,  \* the session is in the engine's writer and relay maps
    open,        \* writers not closed, named by the direction that uses them
    notified,    \* SessionClosedEvent reached its subscribers
    inject,      \* progress of the operator's inject_to_* call
    terminates, swaps,  \* counters for the two bounds
    stage, verdict,     \* the tamper gate
    lost                \* history: bytes an exception of a rule cost

envVars == <<gone, terminates, swaps>>
relayVars == <<taken, framed, seqno, task, mode, batch, cancelling,
               peer_gone, eof_sent>>
recordVars == <<log, wrote, lost>>
sessionVars == <<first_done, state, main, registered, open, notified>>
gateVars == <<stage, verdict>>
vars == <<envVars, relayVars, recordVars, sessionVars, inject, gateVars>>

Gate == INSTANCE VerdictGate

TaskState == {"new", "created", "read", "captured", "held", "completed",
              "relogged", "drain", "eof", "updating", "finished", "cancelled"}
Frame == [first : Nat, last : Nat, seq : Nat, kind : {"captured", "tamper", "injected"}]

TypeOK ==
    /\ gone \subseteq Dir
    /\ taken \in [Dir -> Nat] /\ framed \in [Dir -> Nat] /\ seqno \in [Dir -> Nat]
    /\ task \in [Dir -> TaskState]
    /\ mode \in [Dir -> {"run", "flush", "unwind"}]
    /\ batch \in [Dir -> [next : Nat, end : Nat, seq : Nat]]
    /\ cancelling \subseteq Dir /\ peer_gone \subseteq Dir /\ eof_sent \subseteq Dir
    /\ log \in [Dir -> Seq(Frame)]
    /\ wrote \in [Dir -> Seq(Frame)]
    /\ lost \in [Dir -> SUBSET Nat]
    /\ first_done \in Dir \cup {None}
    /\ state \in {"ACTIVE", "ONLY_SERVER", "ONLY_CLIENT", "CLOSED"}
    /\ main \in {"created", "gather", "close_client", "close_server",
                 "publish", "done", "never_ran"}
    /\ registered \in BOOLEAN /\ notified \in BOOLEAN
    /\ open \subseteq Dir
    /\ inject \in [Dir -> {"idle", "draining", "true", "raised"}]
    /\ terminates \in 0..MaxTerminates /\ swaps \in 0..MaxSwaps
    /\ stage \in [Unit -> Gate!Stage]
    /\ verdict \in [Unit -> Gate!Action \cup {Gate!NoVerdict}]

Init ==
    /\ gone = {} /\ cancelling = {} /\ peer_gone = {} /\ eof_sent = {}
    /\ taken = [d \in Dir |-> 0] /\ framed = taken /\ seqno = taken
    /\ task = [d \in Dir |-> "new"]
    /\ mode = [d \in Dir |-> "run"]
    /\ batch = [d \in Dir |-> [next |-> 1, end |-> 0, seq |-> 0]]
    /\ log = [d \in Dir |-> <<>>] /\ wrote = log
    /\ lost = [d \in Dir |-> {}]
    /\ first_done = None
    /\ state = "ACTIVE" /\ main = "created"
    /\ registered = TRUE /\ notified = FALSE
    /\ open = Dir
    /\ inject = [d \in Dir |-> "idle"]
    /\ terminates = 0 /\ swaps = 0
    /\ Gate!GateInit

------------------------------------------------------------------------------
(* The relay task of direction d                                            *)

Least(S) == CHOOSE x \in S : \A y \in S : x <= y
Greatest(S) == CHOOSE x \in S : \A y \in S : y <= x

\* The frame at the head of batch b of direction d: it ends at the framer's
\* next boundary; what flush() emits ends with the buffer.
Head1(d, b) ==
    [first |-> b.next, seq |-> b.seq, kind |-> "captured",
     last |-> Least({x \in Boundary[d] : b.next <= x /\ x <= b.end} \cup {b.end})]

Current(d) == Head1(d, batch[d])
CurrentUnit(d) == <<d, batch[d].next>>

\* Slip: on_first_disconnect runs for each direction that ends.
RunReturnsEachTime(d, m) ==
    IF m = "unwind"
    THEN /\ task' = [task EXCEPT ![d] = "cancelled"]
         /\ UNCHANGED <<peer_gone, first_done, state>>
    ELSE /\ peer_gone' = peer_gone \cup {Other(d)}
         /\ first_done' = d
         /\ state' = IF d = "up" THEN "ONLY_SERVER" ELSE "ONLY_CLIENT"
         /\ task' = [task EXCEPT ![d] = "updating"]

\* Slip: mark_peer_gone() is called on the relay that ended, not on the other.
RunReturnsMarkingItself(d, m) ==
    /\ task' = [task EXCEPT ![d] = IF m = "unwind" THEN "cancelled" ELSE "finished"]
    /\ peer_gone' = IF m = "unwind" THEN peer_gone ELSE peer_gone \cup {d}
    /\ UNCHANGED <<first_done, state>>

\* How BidirectionalRelay._run_upstream/_run_downstream go on when the relay's
\* run() returns; on cancellation they do not.
RunReturns(d, m) ==
    IF m = "unwind"
    THEN /\ task' = [task EXCEPT ![d] = "cancelled"]
         /\ UNCHANGED <<peer_gone, first_done, state>>
    ELSE /\ peer_gone' = peer_gone \cup {Other(d)}
         /\ IF first_done = None
            THEN /\ first_done' = d
                 /\ state' = IF d = "up" THEN "ONLY_SERVER" ELSE "ONLY_CLIENT"
                 /\ task' = [task EXCEPT ![d] = "updating"]
            ELSE /\ task' = [task EXCEPT ![d] = "finished"]
                 /\ UNCHANGED <<first_done, state>>

\* The end of the finally block: half-close the destination if configured.
FinishRun(d, m) ==
    IF KeepOpen[d]
    THEN RunReturns(d, m) /\ UNCHANGED eof_sent
    ELSE /\ eof_sent' = eof_sent \cup {d}
         /\ task' = [task EXCEPT ![d] = "eof"]
         /\ UNCHANGED <<peer_gone, first_done, state>>

\* Process the frames of batch b: _process_frame logs the first one and
\* publishes it.  With none left, read again or leave the finally block.
Process(d, b, m) ==
    /\ batch' = [batch EXCEPT ![d] = b]
    /\ mode' = [mode EXCEPT ![d] = m]
    /\ IF b.next <= b.end
       THEN /\ log' = [log EXCEPT ![d] = Append(@, Head1(d, b))]
            /\ task' = [task EXCEPT ![d] = "captured"]
            /\ UNCHANGED <<eof_sent, peer_gone, first_done, state>>
       ELSE /\ UNCHANGED log
            /\ IF m = "run"
               THEN /\ task' = [task EXCEPT ![d] = "read"]
                    /\ UNCHANGED <<eof_sent, peer_gone, first_done, state>>
               ELSE FinishRun(d, m)

NextFrame(d) ==
    Process(d, [next |-> Current(d).last + 1, end |-> batch[d].end,
                seq |-> batch[d].seq + 1], mode[d])

\* Slip: the loop is left without flush().
LeaveLoopUnflushed(d, m) ==
    /\ framed' = [framed EXCEPT ![d] = taken[d]]
    /\ UNCHANGED seqno
    /\ Process(d, [next |-> 1, end |-> 0, seq |-> 0], m)

\* Leave the read loop: flush the framer's buffer as a last frame.
LeaveLoop(d, m) ==
    LET rest == [next |-> framed[d] + 1, end |-> taken[d], seq |-> seqno[d]]
    IN  /\ framed' = [framed EXCEPT ![d] = taken[d]]
        /\ seqno' = [seqno EXCEPT ![d] = @ + IF framed[d] < taken[d] THEN 1 ELSE 0]
        /\ Process(d, rest, m)

\* Only a task with no cancellation under way continues normally.
At(d, s) == task[d] = s /\ d \notin cancelling

Begin(d) ==
    /\ At(d, "created")
    /\ task' = [task EXCEPT ![d] = "read"]
    /\ UNCHANGED <<envVars, taken, framed, seqno, mode, batch, cancelling,
                   peer_gone, eof_sent, recordVars, sessionVars, inject, gateVars>>

\* A cancellation interrupts a read.  But with an idle timeout the read is in
\* wait_for, and that of Python 3.11 returns the result of a read completed in
\* the same turn of the loop and forgets the cancellation.
CanRead(d) ==
    /\ task[d] = "read"
    /\ d \in cancelling => HalfOpenTimeout /\ SwallowsCancel

\* read() returns n bytes; feed() emits the frames they complete and numbers
\* all of them before the first is processed.  Bytes of a source that is gone
\* are the ones it sent before.
Read(d, n) ==
    /\ CanRead(d)
    /\ cancelling' = cancelling \ {d}
    /\ taken' = [taken EXCEPT ![d] = @ + n]
    /\ LET ends == {x \in Boundary[d] : framed[d] < x /\ x <= taken[d] + n}
       IN  /\ framed' = [framed EXCEPT ![d] = Greatest(ends \cup {@})]
           /\ seqno' = [seqno EXCEPT ![d] = @ + Cardinality(ends)]
    /\ Process(d, [next |-> framed[d] + 1, end |-> framed'[d], seq |-> seqno[d]], "run")
    /\ UNCHANGED <<envVars, wrote, lost, main, registered, open,
                   notified, inject, gateVars>>

\* EOF or a connection error; with the half-open timeout, also a read that
\* stayed idle after the other relay finished.
EndOfSource(d) ==
    /\ CanRead(d)
    /\ d \in gone
    /\ cancelling' = cancelling \ {d}
    /\ LeaveLoop(d, "flush")
    /\ UNCHANGED <<envVars, taken, wrote, lost, main, registered, open,
                   notified, inject, gateVars>>

IdleReap(d) ==
    /\ At(d, "read")
    /\ HalfOpenTimeout /\ d \in peer_gone
    /\ LeaveLoop(d, "flush")
    /\ UNCHANGED <<envVars, taken, cancelling, wrote, lost, main, registered, open,
                   notified, inject, gateVars>>

\* A replace rule raises: re.sub refuses the replacement of a binary or regex
\* rule, before the gate (scope "traffic") or for the edited bytes ("tamper").
\* In the loop, run() logs the error and goes to its finally block: the rest
\* of the batch is lost, and what is still in the framer is flushed.  In the
\* finally block the error is swallowed, and only its frame is lost.
RuleRaises(d) ==
    /\ d \in BadRules
    /\ \/ At(d, "captured")
       \/ At(d, "completed") /\ verdict[CurrentUnit(d)] = "MODIFIED"
    /\ \/ /\ mode[d] = "run"
          /\ lost' = [lost EXCEPT ![d] = @ \cup batch[d].next..batch[d].end]
          /\ LeaveLoop(d, "flush")
       \/ /\ mode[d] # "run"
          /\ lost' = [lost EXCEPT ![d] = @ \cup Current(d).first..Current(d).last]
          /\ NextFrame(d)
          /\ UNCHANGED <<framed, seqno>>
    /\ UNCHANGED <<envVars, taken, cancelling, wrote, main, registered, open,
                   notified, inject, gateVars>>

\* FrameCapturedEvent is out: the controller lets the frame pass or holds it.
Tamper(d) ==
    /\ At(d, "captured")
    /\ \/ /\ Gate!Pass(CurrentUnit(d))
          /\ task' = [task EXCEPT ![d] = "completed"]
       \/ /\ Gate!Hold(CurrentUnit(d))
          /\ task' = [task EXCEPT ![d] = "held"]
    /\ UNCHANGED <<envVars, taken, framed, seqno, mode, batch, cancelling,
                   peer_gone, eof_sent, recordVars, sessionVars, inject>>

\* process() returns with the operator's verdict; InterceptCompletedEvent.
Released(d) ==
    /\ At(d, "held")
    /\ Gate!Release(CurrentUnit(d))
    /\ task' = [task EXCEPT ![d] = "completed"]
    /\ UNCHANGED <<envVars, taken, framed, seqno, mode, batch, cancelling,
                   peer_gone, eof_sent, recordVars, sessionVars, inject>>

\* A write to a peer that is gone may be lost; the error is swallowed.
Write(d, f) ==
    \/ wrote' = [wrote EXCEPT ![d] = Append(@, f)]
    \/ Other(d) \in gone /\ UNCHANGED wrote

Drop(d) ==
    /\ At(d, "completed")
    /\ verdict[CurrentUnit(d)] = "DROP"
    /\ NextFrame(d)
    /\ UNCHANGED <<envVars, taken, framed, seqno, cancelling, wrote, lost, main,
                   registered, open, notified, inject, gateVars>>

\* Slip: the edited frame keeps the number of the captured one.
RelogSameNumber(d) ==
    /\ At(d, "completed")
    /\ verdict[CurrentUnit(d)] = "MODIFIED"
    /\ log' = [log EXCEPT ![d] = Append(@, [Current(d) EXCEPT !.kind = "tamper"])]
    /\ task' = [task EXCEPT ![d] = "relogged"]
    /\ UNCHANGED <<envVars, taken, framed, seqno, mode, batch, cancelling,
                   peer_gone, eof_sent, wrote, lost, sessionVars, inject, gateVars>>

\* Slip: the edited bytes are not logged.
RelogNothing(d) ==
    /\ At(d, "completed")
    /\ verdict[CurrentUnit(d)] = "MODIFIED"
    /\ task' = [task EXCEPT ![d] = "relogged"]
    /\ UNCHANGED <<envVars, taken, framed, seqno, mode, batch, cancelling,
                   peer_gone, eof_sent, recordVars, sessionVars, inject, gateVars>>

\* The edited bytes are logged as a frame of their own, numbered now.
Relog(d) ==
    /\ At(d, "completed")
    /\ verdict[CurrentUnit(d)] = "MODIFIED"
    /\ log' = [log EXCEPT ![d] =
          Append(@, [Current(d) EXCEPT !.kind = "tamper", !.seq = seqno[d]])]
    /\ seqno' = [seqno EXCEPT ![d] = @ + 1]
    /\ task' = [task EXCEPT ![d] = "relogged"]
    /\ UNCHANGED <<envVars, taken, framed, mode, batch, cancelling, peer_gone,
                   eof_sent, wrote, lost, sessionVars, inject, gateVars>>

\* Slip: a dropped frame is written all the same.
SendDropped(d) ==
    /\ At(d, "completed")
    /\ Write(d, Current(d))
    /\ task' = [task EXCEPT ![d] = "drain"]
    /\ UNCHANGED <<envVars, taken, framed, seqno, mode, batch, cancelling,
                   peer_gone, eof_sent, log, lost, sessionVars, inject, gateVars>>

Send(d) ==
    /\ \/ /\ At(d, "completed")
          /\ verdict[CurrentUnit(d)] = "FORWARD"
          /\ Write(d, Current(d))
       \/ /\ At(d, "relogged")
          /\ Write(d, [Current(d) EXCEPT !.kind = "tamper"])
    /\ task' = [task EXCEPT ![d] = "drain"]
    /\ UNCHANGED <<envVars, taken, framed, seqno, mode, batch, cancelling,
                   peer_gone, eof_sent, log, lost, sessionVars, inject, gateVars>>

\* Slip: a write is repeated when its drain was slow.
DrainedRetry(d) ==
    /\ At(d, "drain")
    /\ \/ NextFrame(d)
       \/ /\ task' = [task EXCEPT ![d] = "completed"]
          /\ UNCHANGED <<mode, batch, peer_gone, eof_sent, log, first_done, state>>
    /\ UNCHANGED <<envVars, taken, framed, seqno, cancelling, wrote, lost, main,
                   registered, open, notified, inject, gateVars>>


Drained(d) ==
    /\ At(d, "drain")
    /\ NextFrame(d)
    /\ UNCHANGED <<envVars, taken, framed, seqno, cancelling, wrote, lost, main,
                   registered, open, notified, inject, gateVars>>

EofDrained(d) ==
    /\ At(d, "eof")
    /\ RunReturns(d, mode[d])
    /\ UNCHANGED <<envVars, taken, framed, seqno, mode, batch, cancelling,
                   eof_sent, recordVars, main, registered, open, notified,
                   inject, gateVars>>

\* SessionUpdatedEvent is out.
Updated(d) ==
    /\ At(d, "updating")
    /\ task' = [task EXCEPT ![d] = "finished"]
    /\ UNCHANGED <<envVars, taken, framed, seqno, mode, batch, cancelling,
                   peer_gone, eof_sent, recordVars, sessionVars, inject, gateVars>>

\* The CancelledError arrives.  In the loop it leads to the finally block,
\* which flushes the framer; in the finally block it cuts the flush and the
\* half-close short; a task that never ran has no finally block.
Cancelled(d) ==
    /\ d \in cancelling
    /\ cancelling' = cancelling \ {d}
    /\ IF mode[d] = "run" /\ task[d] # "created"
       THEN LeaveLoop(d, "unwind")
       ELSE /\ task' = [task EXCEPT ![d] = "cancelled"]
            /\ UNCHANGED <<framed, seqno, mode, batch, peer_gone, eof_sent, log,
                           first_done, state>>
    /\ UNCHANGED <<envVars, taken, wrote, lost, main, registered, open, notified,
                   inject, gateVars>>

------------------------------------------------------------------------------
(* The session task: _run_session around BidirectionalRelay.run             *)

StartSession ==
    /\ main = "created"
    /\ main' = "gather"
    /\ task' = [d \in Dir |-> "created"]
    /\ UNCHANGED <<envVars, taken, framed, seqno, mode, batch, cancelling,
                   peer_gone, eof_sent, recordVars, first_done, state,
                   registered, open, notified, inject, gateVars>>

\* Slip: a cancelled relay task is not counted as ended.
EndedNormally(d) == task[d] = "finished"

Ended(d) == task[d] \in {"finished", "cancelled"}

\* Slip: the session is torn down when its first relay ends.
CloseClientOnFirst ==
    /\ main = "gather"
    /\ \E d \in Dir : Ended(d)
    /\ open' = open \ {"down"}
    /\ main' = "close_client"
    /\ UNCHANGED <<envVars, relayVars, recordVars, first_done, state,
                   registered, notified, inject, gateVars>>

\* _close_all_writers: the client's writer first ("down" writes to it), then,
\* once that is closed, the server's.
CloseClient ==
    /\ main = "gather"
    /\ \A d \in Dir : Ended(d)
    /\ open' = open \ {"down"}
    /\ main' = "close_client"
    /\ UNCHANGED <<envVars, relayVars, recordVars, first_done, state,
                   registered, notified, inject, gateVars>>

CloseServer ==
    /\ main = "close_client"
    /\ open' = open \ {"up"}
    /\ main' = "close_server"
    /\ UNCHANGED <<envVars, relayVars, recordVars, first_done, state,
                   registered, notified, inject, gateVars>>

\* Slip: the state is stored by its value instead of its name.
MarkClosedByValue ==
    /\ registered' = FALSE
    /\ state' = "closed"
    /\ main' = "publish"

\* The finally block of _run_session.
MarkClosed ==
    /\ registered' = FALSE
    /\ state' = "CLOSED"
    /\ main' = "publish"

Cleanup ==
    /\ main = "close_server"
    /\ MarkClosed
    /\ UNCHANGED <<envVars, relayVars, recordVars, first_done, open, notified,
                   inject, gateVars>>

PublishClosed ==
    /\ main = "publish"
    /\ main' = "done"
    /\ notified' = TRUE
    /\ UNCHANGED <<envVars, relayVars, recordVars, first_done, state,
                   registered, open, inject, gateVars>>

------------------------------------------------------------------------------
(* The operator and the peers                                               *)

\* Relay tasks that a cancelled gather() cancels in turn.
Live == {d \in Dir : ~Ended(d)}

\* Held frames whose relay is cancelled are given up at once; a relay that is
\* being cancelled already has none.
AbandonHeld ==
    LET U == {CurrentUnit(d) : d \in {x \in Live \ cancelling : task[x] = "held"}}
    IN  IF U = {} THEN UNCHANGED gateVars ELSE Gate!Abandon(U)

\* terminate_session (or stop): cancel() on the session task, at whatever
\* await it stands.  The task is in _session_tasks until it is done.
Terminate ==
    /\ main \notin {"done", "never_ran"}
    /\ terminates < MaxTerminates
    /\ terminates' = terminates + 1
    /\ \/ /\ main = "created"               \* cancelled before its first step
          /\ main' = "never_ran"
          /\ UNCHANGED <<cancelling, state, registered, gateVars>>
       \/ /\ main = "gather"
          /\ cancelling' = cancelling \cup Live
          /\ AbandonHeld
          /\ UNCHANGED <<main, state, registered>>
       \/ /\ main \in {"close_client", "close_server"}
          /\ MarkClosed
          /\ UNCHANGED <<cancelling, gateVars>>
       \/ /\ main = "publish"               \* the subscribers are cancelled
          /\ main' = "done"
          /\ UNCHANGED <<cancelling, state, registered, gateVars>>
    /\ UNCHANGED <<gone, swaps, taken, framed, seqno, task, mode, batch,
                   peer_gone, eof_sent, recordVars, first_done, open, notified,
                   inject>>

\* The operator answers one held frame, or all of them.
Held == {u \in Unit : stage[u] = "held"}

Decide(U, a) ==
    /\ Gate!Decide(U, a)
    /\ UNCHANGED <<envVars, relayVars, recordVars, sessionVars, inject>>

ForwardAll == Decide(Held, "FORWARD")

\* swap_framers: both buffers are discarded, both counters start again.
SwapFramers ==
    /\ registered /\ swaps < MaxSwaps
    /\ swaps' = swaps + 1
    /\ framed' = taken
    /\ seqno' = [d \in Dir |-> 0]
    /\ UNCHANGED <<gone, terminates, taken, task, mode, batch, cancelling,
                   peer_gone, eof_sent, recordVars, sessionVars, inject, gateVars>>

\* ProtoPokeAPI.inject_to_server ("up") and inject_to_client ("down"): write
\* to the relay's writer; write() raises once the relay sent EOF, and does
\* nothing on a closed writer.
InjectWrite(d) ==
    /\ d \in Injecting /\ inject[d] = "idle"
    /\ registered
    /\ \/ /\ d \notin eof_sent /\ d \in open
          /\ Write(d, [first |-> 0, last |-> 0, seq |-> 0, kind |-> "injected"])
          /\ inject' = [inject EXCEPT ![d] = "draining"]
       \/ /\ d \notin open
          /\ inject' = [inject EXCEPT ![d] = "draining"]
          /\ UNCHANGED wrote
       \/ /\ d \in eof_sent
          /\ inject' = [inject EXCEPT ![d] = "raised"]
          /\ UNCHANGED wrote
    /\ UNCHANGED <<envVars, relayVars, log, lost, sessionVars, gateVars>>

\* After the drain the injected bytes are logged, numbered by the live framer
\* or, when the session has closed meanwhile, by the length of the log.
InjectLog(d) ==
    /\ inject[d] = "draining"
    /\ inject' = [inject EXCEPT ![d] = "true"]
    /\ log' = [log EXCEPT ![d] =
          Append(@, [first |-> 0, last |-> 0, kind |-> "injected",
                     seq |-> IF registered THEN seqno[d] ELSE Len(@)])]
    /\ seqno' = [seqno EXCEPT ![d] = IF registered THEN @ + 1 ELSE @]
    /\ UNCHANGED <<envVars, taken, framed, task, mode, batch, cancelling,
                   peer_gone, eof_sent, wrote, lost, sessionVars, gateVars>>

\* drain() raises when the connection under the writer is lost.
InjectFails(d) ==
    /\ inject[d] = "draining"
    /\ d \notin open \/ Other(d) \in gone
    /\ inject' = [inject EXCEPT ![d] = "raised"]
    /\ UNCHANGED <<envVars, relayVars, recordVars, sessionVars, gateVars>>

\* A source closes, for whatever reason: EOF, reset, or its answer to ours.
PeerCloses(d) ==
    /\ d \notin gone
    /\ gone' = gone \cup {d}
    /\ UNCHANGED <<terminates, swaps, relayVars, recordVars, sessionVars,
                   inject, gateVars>>

------------------------------------------------------------------------------
\* What a relay does without its peers: a cancellation is among it.
RelayStep(d) ==
    \/ Begin(d) \/ EndOfSource(d) \/ RuleRaises(d) \/ Tamper(d) \/ Released(d)
    \/ Drop(d) \/ Relog(d) \/ Send(d) \/ Updated(d) \/ Cancelled(d)

\* drain() returns: at once while the transport's buffer is small, otherwise
\* when the peer has read enough of it, or is gone.
DrainStep(d) == Drained(d) \/ EofDrained(d)

SessionStep == StartSession \/ CloseClient \/ PublishClosed

\* wait_closed() returns: the peer has read what was written, or is gone.
ClosedStep == CloseServer \/ Cleanup

Next ==
    \/ \E d \in Dir :
          \/ RelayStep(d) \/ DrainStep(d)
          \/ \E n \in 1..(Length[d] - taken[d]) : Read(d, n)
          \/ IdleReap(d) \/ PeerCloses(d) \/ InjectWrite(d) \/ InjectLog(d)
          \/ InjectFails(d)
    \/ SessionStep \/ ClosedStep
    \/ Terminate \/ SwapFramers
    \/ ForwardAll \/ \E u \in Unit, a \in Gate!Action : Decide({u}, a)

Spec == Init /\ [][Next]_vars

\* The event loop runs what is ready, and timers fire; the peers and the
\* operator owe nothing.
LoopFairness == /\ \A d \in Dir : WF_vars(RelayStep(d)) /\ WF_vars(IdleReap(d))
                /\ WF_vars(SessionStep)

FairSpec == Spec /\ LoopFairness

\* An operator who keeps answering, e.g. with "forward all".
AttendedSpec == FairSpec /\ WF_vars(ForwardAll)

\* What the code itself does not see to, for its drain() and wait_closed()
\* have no timeout: a peer that is still there reads what is written to it.
PeersRead == (\A d \in Dir : WF_vars(DrainStep(d))) /\ WF_vars(ClosedStep)

ReadingSpec == AttendedSpec /\ PeersRead

------------------------------------------------------------------------------
(* Properties                                                               *)

Indices(s) == 1..Len(s)
Traffic(s) == {i \in Indices(s) : s[i].kind # "injected"}
SameBytes(f, g) == f.first = g.first /\ f.last = g.last /\ f.kind = g.kind

\* The session is never revived: the relay's mark_only_* callbacks, which
\* check nothing, cannot run after _run_session marked it CLOSED.
ClosedIsFinal == [][state = "CLOSED" => state' = "CLOSED"]_vars

\* A closed session is quiet: both relay tasks are over, no frame of it waits
\* for the operator, and injection can no longer find its writers.
ClosedIsQuiet ==
    state = "CLOSED" => /\ \A d \in Dir : Ended(d)
                        /\ Held = {}
                        /\ ~registered

\* ONLY_SERVER and ONLY_CLIENT name the side that is still read from: the state
\* is entered while the relay of that side is not finished, and changes only to
\* CLOSED.  (A relay that ended by an exception leaves its source connected.)
HalfOpenNamesSurvivor ==
    [][state' # state =>
          /\ state' = "ONLY_SERVER" => task["down"] # "finished"
          /\ state' = "ONLY_CLIENT" => task["up"] # "finished"
          /\ state \in {"ONLY_SERVER", "ONLY_CLIENT"} => state' = "CLOSED"]_vars

\* However long frames are held and whatever the chunks: a direction writes
\* its frames in the order captured, each at most once.
WireInOrder ==
    \A d \in Dir : \A i, j \in Traffic(wrote[d]) :
        i < j => wrote[d][i].last < wrote[d][j].first

\* What goes on the wire is in the session log: the bytes captured, and an
\* edit with the bytes it made of them.  (What a replace rule makes of a frame
\* that nobody edits is sent, and is not in the log.)
WireIsLogged ==
    \A d \in Dir : \A i \in Traffic(wrote[d]) :
        \E j \in Indices(log[d]) : SameBytes(log[d][j], wrote[d][i])

\* Nothing is written before the gate released it, nothing that was dropped,
\* and the edited bytes exactly when the verdict is MODIFIED.
VerdictGoverns ==
    \A d \in Dir : \A i \in Traffic(wrote[d]) :
        LET f == wrote[d][i] IN
        /\ stage[<<d, f.first>>] = "released"
        /\ verdict[<<d, f.first>>] = IF f.kind = "tamper" THEN "MODIFIED" ELSE "FORWARD"

\* A relay that ends without being cancelled has lost nothing but what an
\* exception of a rule cost: every other byte it read was written, or was in a
\* frame the operator dropped.  In particular what the framer still held when
\* the rule raised is flushed, sent and logged.  (A swap discards the framer's
\* buffer, and a peer that is gone cannot be written to.)
NothingLost ==
    \A d \in Dir :
        task[d] = "finished" /\ swaps = 0 /\ Other(d) \notin gone =>
            \A b \in (1..taken[d]) \ lost[d] : \E i \in Indices(log[d]) :
                LET f == log[d][i] IN
                /\ f.first <= b /\ b <= f.last
                /\ \/ verdict[<<d, f.first>>] = "DROP"
                   \/ \E j \in Indices(wrote[d]) : wrote[d][j].first = f.first

\* Nothing is counted as lost that was sent, that the framer had not emitted,
\* or where no rule raises: an exception costs no bytes beyond those read.
LossIsBounded ==
    \A d \in Dir :
        /\ lost[d] \subseteq 1..framed[d]
        /\ d \notin BadRules => lost[d] = {}
        /\ \A i \in Traffic(wrote[d]) :
              lost[d] \cap wrote[d][i].first..wrote[d][i].last = {}

\* Within a direction no two logged frames share a number while the session is
\* registered and keeps its framer, whoever asks for numbers: feed, flush,
\* tamper edits, injections.
NumbersUnique ==
    swaps = 0 /\ registered =>
        \A d \in Dir : \A i, j \in Indices(log[d]) :
            i # j => log[d][i].seq # log[d][j].seq

Over == main \in {"done", "never_ran"}

\* With an operator who answers, a session both of whose peers are gone ends.
SessionEnds == (gone = Dir) ~> Over

\* With the half-open timeout, one peer is enough.
HalfOpenReaped == HalfOpenTimeout => ((gone # {}) ~> Over)

\* terminate_session: "cancels the relay task, which triggers cleanup,
\* connection close".  With an operator who answers, the session ends, also
\* when the cancellation meets a read, a held frame, a drain or the flush.
TerminateEnds == (terminates > 0) ~> Over

\* The stream of a direction from its first byte to its last: what is written
\* is what was captured, in order, each once and logged, nothing is lost on
\* the way but what a rule that raised took with it, and no two entries of the
\* log share a number.
StreamIntact == /\ TypeOK /\ WireInOrder /\ WireIsLogged /\ NothingLost
                /\ LossIsBounded /\ NumbersUnique

\* The states a session goes through: CLOSED is final, and a half-open state
\* names the side whose relay still runs.
StatesAgree == ClosedIsFinal /\ HalfOpenNamesSurvivor

\* A session whose peers are gone, or that was told to end, does end, if those
\* that are there read what they are sent.
SessionsEnd == SessionEnds /\ HalfOpenReaped /\ TerminateEnds

------------------------------------------------------------------------------
(* What the code's documentation says and this code does not do             *)

\* Frame.sequence_number: "Ordering within the same session+direction stream".
NumbersFollowLog ==
    \A d \in Dir : \A i, j \in Indices(log[d]) :
        i < j => log[d][i].seq < log[d][j].seq
==============================================================================
