----------------------------- MODULE ForgeProofs -----------------------------
(***************************************************************************)
(* Theorems about the connections of ForgeEngine and the runs over them,   *)
(* for any playbooks, any number of connections and of clicks, whoever     *)
(* closes first.  IInv is the inductive invariant they rest on.            *)
(***************************************************************************)
EXTENDS Forge, SequenceTheorems, TLAPS

Chunk == [kind : {"data", "eof", "err"}, req : Nat]
Entry == [dir : {"c2s", "s2c"}, req : Nat]
Task == [kind : {"run", "single"}, pc : PCs, cancelled : BOOLEAN, cell : Sessions \cup {NoSession},
         pre : Sessions \cup {NoSession}, frame : Nat, conn : Conns \cup {NoSession}, req : Nat,
         got : Seq(Nat)]

TypesInv ==
    /\ setup \in Setups
    /\ sess \in [Sessions -> {"none", "active", "closed", "deleted"}]
    /\ open \subseteq Conns
    /\ reader \in [Conns -> {"none", "reading", "closing", "done"}]
    /\ wire \in [Sessions -> Seq(Chunk)] /\ queue \in [Conns -> Seq(Chunk)]
    /\ produced \in [Conns -> Seq(Chunk)] /\ taken \in [Conns -> Seq(Chunk)]
    /\ asked \in [Sessions -> Nat] /\ answered \in [Sessions -> Nat] /\ closes \in [Conns -> Nat]
    /\ DOMAIN log = Sessions /\ \A c \in Conns : log[c] \in Seq(Entry)
    /\ source \in Sessions \cup {NoSession} /\ running \in BOOLEAN
    /\ clicks \in 0 .. MaxClicks /\ ops \in Nat
    /\ worker \in [Workers -> Task]

\* A task that talks to a connection has one; only such a task holds answers.
TaskInv(w) ==
    /\ worker[w].pc \in {"announce", "drain", "collect", "callback", "log"} => worker[w].conn \in Conns
    /\ worker[w].got # <<>> => worker[w].pc \in {"collect", "callback", "log"}

\* The registry, the open connections, the close callback and the reader.
ConnInv(c) ==
    /\ sess[c] = "active" => c \in open
    /\ c \in open => sess[c] \in {"active", "deleted"} /\ closes[c] = 0
    /\ sess[c] # "none" /\ c \notin open => closes[c] = 1
    /\ sess[c] = "none" => closes[c] = 0 /\ produced[c] = <<>>
    /\ reader[c] = "reading" => c \in open

\* The flag is backed by a run that will get to its finally block.
Backs(w) == /\ worker[w].kind = "run" /\ ~Finished(w)
            /\ ~(worker[w].cancelled /\ worker[w].pc = "start")
RunInv == running => \E w \in Workers : Backs(w)

\* The chunks of a connection: on the wire, out of the socket, taken.
EndsLast(s, udp, phase) ==
    ~udp => \A i \in DOMAIN s : s[i].kind # "data" => i = Len(s) /\ phase # "reading"
Answers(s, n) ==
    \A i \in DOMAIN s : s[i].kind = "data" =>
        /\ s[i].req <= n
        /\ \A j \in DOMAIN s : i # j /\ s[j].kind = "data" => s[i].req # s[j].req
Apart(s, t) ==
    \A i \in DOMAIN s, j \in DOMAIN t :
        s[i].kind = "data" /\ t[j].kind = "data" => s[i].req # t[j].req

StreamInv(c) ==
    /\ produced[c] = taken[c] \o queue[c]
    /\ EndsLast(produced[c], setup.udp, reader[c])
    /\ Answers(produced[c], answered[c]) /\ Answers(wire[c], answered[c])
    /\ Apart(produced[c], wire[c])

\* An answer that was taken is with one task, or in the log, once: t the chunks
\* taken from a connection, l its log, h the answers each task holds from it.
WasTaken(t, r) == \E k \in DOMAIN t : t[k] = Data(r)
Out(l) == {i \in DOMAIN l : l[i].dir = "s2c"}
AnswersKept(t, l, h) ==
    /\ \A i \in Out(l) : WasTaken(t, l[i].req)
    /\ \A i, j \in Out(l) : i # j => l[i].req # l[j].req
    /\ \A w \in Workers : \A k \in DOMAIN h[w] :
          WasTaken(t, h[w][k]) /\ \A i \in Out(l) : l[i].req # h[w][k]
    /\ \A w, v \in Workers : \A k \in DOMAIN h[w], m \in DOMAIN h[v] :
          w # v \/ k # m => h[w][k] # h[v][m]

Held(c) == [w \in Workers |-> IF worker[w].conn = c THEN worker[w].got ELSE <<>>]
LogInv(c) == AnswersKept(taken[c], log[c], Held(c))

IInv ==
    /\ TypesInv /\ RunInv
    /\ \A w \in Workers : TaskInv(w)
    /\ \A c \in Conns : ConnInv(c) /\ StreamInv(c) /\ LogInv(c)

---------------------------------------------------------------------------
\* A sequence and its head, and a sequence and what is appended to it.
LEMMA HeadFacts ==
  ASSUME NEW S, NEW s \in Seq(S), s # <<>>
  PROVE  /\ Len(s) \in Nat /\ Len(s) >= 1 /\ DOMAIN s = 1 .. Len(s)
         /\ Head(s) \in S /\ Head(s) = s[1] /\ Tail(s) \in Seq(S)
         /\ Len(Tail(s)) = Len(s) - 1 /\ DOMAIN Tail(s) = 1 .. Len(s) - 1
         /\ \A i \in DOMAIN Tail(s) : i + 1 \in DOMAIN s /\ Tail(s)[i] = s[i + 1]
  <1>1. Len(s) \in Nat /\ Len(s) # 0 /\ DOMAIN s = 1 .. Len(s) /\ Head(s) = s[1]
    BY EmptySeq, LenProperties
  <1>2. /\ Head(s) \in S /\ Tail(s) \in Seq(S) /\ Len(Tail(s)) = Len(s) - 1
        /\ \A i \in 1 .. Len(Tail(s)) : Tail(s)[i] = s[i + 1]
    BY HeadTailProperties
  <1>3. DOMAIN Tail(s) = 1 .. Len(s) - 1
    BY <1>2, LenProperties
  <1> QED
    BY <1>1, <1>2, <1>3

(* What an Append makes, and what it leaves in its place. *)
LEMMA AppendFacts ==
  ASSUME NEW S, NEW s \in Seq(S), NEW e \in S
  PROVE  /\ Len(s) \in Nat /\ DOMAIN s = 1 .. Len(s)
         /\ Append(s, e) \in Seq(S) /\ Append(s, e) # <<>>
         /\ Len(Append(s, e)) = Len(s) + 1 /\ DOMAIN Append(s, e) = 1 .. Len(s) + 1
         /\ \A i \in DOMAIN s : Append(s, e)[i] = s[i]
         /\ Append(s, e)[Len(s) + 1] = e
  <1>1. /\ Append(s, e) \in Seq(S) /\ Append(s, e) # <<>> /\ Len(Append(s, e)) = Len(s) + 1
        /\ \A i \in 1 .. Len(s) : Append(s, e)[i] = s[i]
        /\ Append(s, e)[Len(s) + 1] = e
    BY AppendProperties
  <1>2. Len(s) \in Nat /\ DOMAIN s = 1 .. Len(s) /\ DOMAIN Append(s, e) = 1 .. Len(s) + 1
    BY <1>1, LenProperties
  <1> QED
    BY <1>1, <1>2

\* What the tasks have and what their fields hold.
LEMMA TaskFields ==
  ASSUME TypesInv, NEW w \in Workers
  PROVE  /\ worker[w] \in Task
         /\ worker[w].kind \in {"run", "single"} /\ worker[w].pc \in PCs
         /\ worker[w].cancelled \in BOOLEAN /\ worker[w].cell \in Sessions \cup {NoSession}
         /\ worker[w].pre \in Sessions \cup {NoSession} /\ worker[w].frame \in Nat
         /\ worker[w].conn \in Conns \cup {NoSession} /\ worker[w].req \in Nat
         /\ worker[w].got \in Seq(Nat)
  <1>1. worker[w] \in Task
    BY DEF TypesInv
  <1> QED
    BY <1>1 DEF Task

\* One task moves: the others stay as they are.
MovesTo(w, r) == /\ worker' \in [Workers -> Task] /\ worker'[w] = r
                 /\ \A v \in Workers \ {w} : worker'[v] = worker[v]

(* A task that goes on to its next await moves, and no other task does. *)
LEMMA GotoMoves ==
  ASSUME TypesInv, NEW w \in Workers, NEW r \in Task, Goto(w, r)
  PROVE  MovesTo(w, r)
BY DEF TypesInv, Goto, MovesTo

\* A step to the next frame has nothing of the last one.
LEMMA NextFrameDoes ==
  ASSUME TypesInv, NEW w \in Workers, NEW cell \in Sessions \cup {NoSession}, NextFrame(w, cell)
  PROVE  /\ MovesTo(w, worker'[w])
         /\ worker'[w].kind = worker[w].kind /\ worker'[w].cancelled = worker[w].cancelled
         /\ worker'[w].pc = "send" /\ worker'[w].got = <<>>
  <1> DEFINE r == [worker[w] EXCEPT !.pc = "send", !.frame = @ + 1, !.cell = cell, !.got = <<>>,
                                    !.conn = NoSession, !.req = 0]
  <1>1. r \in Task
    <2>1. <<>> \in Seq(Nat) /\ "send" \in PCs /\ NoSession \in Conns \cup {NoSession} /\ 0 \in Nat
      BY EmptySeq DEF PCs
    <2>2. worker[w] \in Task /\ worker[w].frame + 1 \in Nat
      BY TaskFields
    <2> QED
      BY <2>1, <2>2 DEF Task
  <1>2. MovesTo(w, r)
    BY <1>1, GotoMoves DEF NextFrame
  <1>3. worker[w] \in Task
    BY TaskFields
  <1> QED
    BY <1>2, <1>3 DEF MovesTo, Task

\* A task that leaves is over; a run takes the flag with it.
LEMMA LeaveDoes ==
  ASSUME TypesInv, NEW w \in Workers, NEW cell \in Sessions \cup {NoSession}, Leave(w, cell)
  PROVE  /\ MovesTo(w, worker'[w])
         /\ worker'[w].kind = worker[w].kind /\ worker'[w].pc = "done" /\ worker'[w].got = <<>>
         /\ source' \in Sessions \cup {NoSession} /\ running' \in BOOLEAN
         /\ running' => running /\ worker[w].kind # "run"
  <1> DEFINE r == [Idle EXCEPT !.kind = worker[w].kind, !.pc = "done"]
  <1>1. r \in Task
    <2>1. <<>> \in Seq(Nat) /\ "done" \in PCs
      BY EmptySeq DEF PCs
    <2> QED
      BY <2>1, TaskFields DEF Task, Idle
  <1>2. MovesTo(w, r)
    BY <1>1, GotoMoves DEF Leave
  <1>3. r.kind = worker[w].kind /\ r.pc = "done" /\ r.got = <<>>
    BY DEF Idle
  <1>4. source' \in Sessions \cup {NoSession} /\ running' \in BOOLEAN
    BY DEF Leave, TypesInv
  <1>5. running' => running /\ worker[w].kind # "run"
    BY DEF Leave
  <1> QED
    BY <1>2, <1>3, <1>4, <1>5 DEF MovesTo

\* A send that begins has written its request to the connection it is for.
LEMMA BeginSendDoes ==
  ASSUME TypesInv, NEW w \in Workers, NEW c \in Conns, NEW cell \in Sessions \cup {NoSession},
         BeginSend(w, c, cell)
  PROVE  /\ MovesTo(w, worker'[w])
         /\ worker'[w].kind = worker[w].kind /\ worker'[w].cancelled = worker[w].cancelled
         /\ worker'[w].pc \in {"drain", "collect"} /\ worker'[w].got = worker[w].got
         /\ worker'[w].conn = c
         /\ asked' \in [Sessions -> Nat]
         /\ \A d \in Conns : asked'[d] # asked[d] => d = c
  <1> DEFINE r == [worker[w] EXCEPT !.pc = IF setup.udp THEN "collect" ELSE "drain",
                                    !.cell = cell, !.conn = c, !.req = asked'[c]]
  <1>1. /\ asked' \in [Sessions -> Nat] /\ asked'[c] \in Nat
        /\ \A d \in Conns : asked'[d] # asked[d] => d = c
    <2>1. asked \in [Sessions -> Nat] /\ c \in Sessions /\ Conns \subseteq Sessions
      BY DEF TypesInv, Sessions
    <2>2. asked' = [asked EXCEPT ![c] = asked[c] + 1]
      BY DEF BeginSend
    <2> QED
      BY <2>1, <2>2
  <1>2. r \in Task
    <2>1. "drain" \in PCs /\ "collect" \in PCs
      BY DEF PCs
    <2> QED
      BY <1>1, <2>1, TaskFields, ZenonT(30) DEF Task
  <1>3. MovesTo(w, r)
    BY <1>2, GotoMoves DEF BeginSend
  <1>4. worker[w] \in Task
    BY TaskFields
  <1> QED
    BY <1>1, <1>3, <1>4 DEF MovesTo, Task

\* Closing takes the connection out of the table and calls back at most once.
LEMMA CloseDoes ==
  ASSUME TypesInv, NEW c \in Conns, NEW by \in {"reader", "sender", "operator"}, Close(c, by)
  PROVE  /\ sess' \in [Sessions -> {"none", "active", "closed", "deleted"}]
         /\ open' \subseteq Conns
         /\ reader' \in [Conns -> {"none", "reading", "closing", "done"}]
         /\ closes' \in [Conns -> Nat]
         /\ \A d \in Conns : reader'[d] = "reading" => reader[d] = "reading"
         /\ c \in open /\ by = "reader" => reader'[c] # "reading"
         /\ (\A d \in Conns : ConnInv(d)) /\ UNCHANGED produced => \A d \in Conns : ConnInv(d)'
  <1> DEFINE State == {"none", "active", "closed", "deleted"}
             Phase == {"none", "reading", "closing", "done"}
  <1>t. /\ sess \in [Sessions -> State] /\ open \subseteq Conns /\ reader \in [Conns -> Phase]
        /\ closes \in [Conns -> Nat] /\ Conns \subseteq Sessions
    BY DEF TypesInv, Sessions
  <1>1. CASE c \notin open
    <2>1. UNCHANGED <<open, sess, reader, closes>>
      BY <1>1 DEF Close
    <2> QED
      BY <1>1, <1>t, <2>1 DEF ConnInv
  <1>2. CASE c \in open
    <2>1. /\ open' = open \ {c}
          /\ sess' = [sess EXCEPT ![c] = IF @ = "active" THEN "closed" ELSE @]
          /\ closes' = [closes EXCEPT ![c] = @ + 1]
          /\ reader' = [reader EXCEPT ![c] =
                 IF by = "reader" THEN "closing" ELSE IF @ = "reading" THEN "done" ELSE @]
      BY <1>2 DEF Close
    <2>2. /\ sess' \in [Sessions -> State] /\ open' \subseteq Conns /\ reader' \in [Conns -> Phase]
          /\ closes' \in [Conns -> Nat]
      BY <1>t, <2>1
    <2>3. /\ \A d \in Conns : reader'[d] = "reading" => reader[d] = "reading" /\ d # c
      BY <1>t, <2>1
    <2>4. ASSUME \A d \in Conns : ConnInv(d), UNCHANGED produced, NEW d \in Conns
          PROVE  ConnInv(d)'
      BY <1>t, <1>2, <2>1, <2>4 DEF ConnInv
    <2> QED
      BY <1>2, <2>2, <2>3, <2>4
  <1> QED
    BY <1>1, <1>2

\* What a step of a task does to the tasks, the binding and the flag.
TaskMoves(w) ==
    /\ MovesTo(w, worker'[w]) /\ TaskInv(w)'
    /\ source' \in Sessions \cup {NoSession} /\ running' \in BOOLEAN
    /\ running' => running
    /\ running' /\ Backs(w) => Backs(w)'
    /\ \/ worker'[w].got = <<>>
       \/ worker'[w].got = worker[w].got /\ worker'[w].conn = worker[w].conn
       \/ Collect(w) \/ LogAnswer(w)

(* So the tables of the tasks change as TaskMoves says: to the next frame, *)
LEMMA NextFrameMoves ==
  ASSUME TypesInv, NEW w \in Workers, NEW cell \in Sessions \cup {NoSession}, NextFrame(w, cell),
         UNCHANGED <<source, running>>
  PROVE  TaskMoves(w)
  <1>1. /\ MovesTo(w, worker'[w])
        /\ worker'[w].kind = worker[w].kind /\ worker'[w].cancelled = worker[w].cancelled
        /\ worker'[w].pc = "send" /\ worker'[w].got = <<>>
    BY NextFrameDoes
  <1> QED
    BY <1>1 DEF TaskMoves, TaskInv, Backs, Finished, TypesInv

(* at the end of a task, in the finally block, *)
LEMMA LeaveMoves ==
  ASSUME TypesInv, NEW w \in Workers, NEW cell \in Sessions \cup {NoSession}, Leave(w, cell)
  PROVE  TaskMoves(w)
  <1>1. /\ MovesTo(w, worker'[w])
        /\ worker'[w].pc = "done" /\ worker'[w].got = <<>>
        /\ source' \in Sessions \cup {NoSession} /\ running' \in BOOLEAN
        /\ running' => running /\ worker[w].kind # "run"
    BY LeaveDoes
  <1> QED
    BY <1>1 DEF TaskMoves, TaskInv, Backs

(* when a send takes its connection, *)
LEMMA BeginSendMoves ==
  ASSUME TypesInv, NEW w \in Workers, NEW c \in Conns, NEW cell \in Sessions \cup {NoSession},
         BeginSend(w, c, cell), worker[w].got = <<>>, UNCHANGED <<source, running>>
  PROVE  TaskMoves(w)
  <1>1. /\ MovesTo(w, worker'[w])
        /\ worker'[w].kind = worker[w].kind /\ worker'[w].cancelled = worker[w].cancelled
        /\ worker'[w].pc \in {"drain", "collect"} /\ worker'[w].got = worker[w].got
        /\ worker'[w].conn = c
    BY BeginSendDoes
  <1> QED
    BY <1>1 DEF TaskMoves, TaskInv, Backs, Finished, TypesInv

\* A task that only changes its place, its cell or its connection.
LEMMA GotoPlaceMoves ==
  ASSUME TypesInv, NEW w \in Workers, TaskInv(w), NEW r \in Task, Goto(w, r),
         UNCHANGED running, source' \in Sessions \cup {NoSession},
         r.kind = worker[w].kind, r.cancelled = worker[w].cancelled,
         r.pc \notin {"none", "done", "start"},
         r.pc \in {"announce", "drain", "collect", "callback", "log"} => r.conn \in Conns,
         \/ r.got = <<>>
         \/ /\ r.got = worker[w].got /\ r.conn = worker[w].conn
            /\ r.pc \in {"collect", "callback", "log"}
  PROVE  TaskMoves(w)
  <1>1. MovesTo(w, r)
    BY GotoMoves
  <1>2. worker'[w] = r /\ MovesTo(w, worker'[w])
    BY <1>1 DEF MovesTo
  <1>3. TaskInv(w)' /\ (running' /\ Backs(w) => Backs(w)')
    BY <1>2 DEF TaskInv, Backs, Finished
  <1> QED
    BY <1>2, <1>3 DEF TaskMoves, TypesInv

(* and in every step of a worker. *)
LEMMA TaskStepMoves ==
  ASSUME IInv, NEW w \in Workers, WorkerStep(w)
  PROVE  TaskMoves(w)
  <1> DEFINE me == worker[w]
  <1>t. TypesInv /\ TaskInv(w)
    BY DEF IInv
  <1>f. /\ me \in Task /\ me.cell \in Sessions \cup {NoSession} /\ me.got \in Seq(Nat)
        /\ me.conn \in Conns \cup {NoSession}
        /\ source \in Sessions \cup {NoSession} /\ NoSession \in Sessions \cup {NoSession}
        /\ Proxy \in Sessions /\ Proxy \notin Conns
    BY <1>t, TaskFields DEF TypesInv, Sessions, Proxy, Conns
  <1>p. {"send", "connect", "announce", "drain", "collect", "callback", "log", "inject", "window"} \subseteq PCs
    BY DEF PCs
  <1>g. me.pc \in {"start", "send", "announce", "connect"} => me.got = <<>>
    BY <1>t DEF TaskInv
  <1>1. ASSUME Start(w) PROVE TaskMoves(w)
    <2> DEFINE cell == IF source = Proxy /\ setup.udp THEN NoSession ELSE source
               r == [me EXCEPT !.pc = "send", !.pre = source, !.cell = cell]
    <2>1. /\ Goto(w, r) /\ UNCHANGED running /\ me.pc = "start"
          /\ source' \in Sessions \cup {NoSession} /\ cell \in Sessions \cup {NoSession}
      BY <1>1, <1>f DEF Start
    <2>2. /\ r \in Task /\ r.kind = me.kind /\ r.cancelled = me.cancelled /\ r.pc = "send"
          /\ r.got = <<>>
      BY <1>f, <1>p, <1>g, <2>1 DEF Task
    <2> QED
      BY <1>t, <2>1, <2>2, GotoPlaceMoves
  <1>2. ASSUME Cancelled(w) PROVE TaskMoves(w)
    <2>1. CASE me.pc = "start"
      <3> DEFINE r == [Idle EXCEPT !.pc = "done"]
      <3>1. Goto(w, r) /\ UNCHANGED <<source, running>> /\ me.cancelled
        BY <1>2, <2>1 DEF Cancelled
      <3>2. r \in Task /\ r.pc = "done" /\ r.got = <<>>
        <4>1. "done" \in PCs /\ <<>> \in Seq(Nat)
          BY EmptySeq DEF PCs
        <4> QED
          BY <1>f, <4>1 DEF Idle, Task
      <3>3. MovesTo(w, r)
        BY <1>t, <3>1, <3>2, GotoMoves
      <3> QED
        BY <1>t, <2>1, <3>1, <3>2, <3>3 DEF TaskMoves, MovesTo, TaskInv, Backs, TypesInv
    <2>2. CASE me.pc # "start"
      BY <1>2, <1>t, <1>f, <2>2, LeaveMoves DEF Cancelled
    <2> QED
      BY <2>1, <2>2
  <1>3. ASSUME SendFn(w) PROVE TaskMoves(w)
    <2> DEFINE cell == IF Active(me.cell) THEN me.cell ELSE NoSession
               usable == me.frame <= Len(Frames(w)) /\ Frames(w)[me.frame] # "bad"
    <2>1. cell \in Sessions \cup {NoSession} /\ me.pc = "send"
      BY <1>3, <1>f DEF Active, SendFn
    <2>2. CASE ~usable
      BY <1>3, <1>t, <1>f, <2>2, LeaveMoves DEF SendFn
    <2>3. CASE usable
      <3>0. UNCHANGED <<source, running>>
        BY <1>3, <2>3 DEF SendFn
      <3>1. \/ cell \in open /\ BeginSend(w, cell, cell)
            \/ NextFrame(w, cell)
            \/ Goto(w, [me EXCEPT !.pc = "inject", !.cell = cell])
            \/ Goto(w, [me EXCEPT !.pc = "connect", !.cell = cell])
        BY <1>3, <2>3 DEF SendFn
      <3>2. CASE cell \in open /\ BeginSend(w, cell, cell)
        <4>1. cell \in Conns
          BY <1>t, <3>2 DEF TypesInv
        <4> QED
          BY <1>t, <1>g, <2>1, <3>0, <3>2, <4>1, BeginSendMoves
      <3>3. CASE NextFrame(w, cell)
        BY <1>t, <2>1, <3>0, <3>3, NextFrameMoves
      <3>4. ASSUME NEW pc \in {"inject", "connect"}, Goto(w, [me EXCEPT !.pc = pc, !.cell = cell])
            PROVE  TaskMoves(w)
        <4> DEFINE r == [me EXCEPT !.pc = pc, !.cell = cell]
        <4>1. /\ r \in Task /\ r.kind = me.kind /\ r.cancelled = me.cancelled /\ r.pc = pc
              /\ r.got = <<>>
          BY <1>f, <1>p, <1>g, <2>1, <3>4 DEF Task
        <4> QED
          BY <1>t, <1>f, <3>0, <3>4, <4>1, GotoPlaceMoves
      <3> QED
        BY <3>1, <3>2, <3>3, <3>4
    <2> QED
      BY <2>2, <2>3
  <1>4. ASSUME Connected(w) PROVE TaskMoves(w)
    <2>1. PICK c \in 1 .. setup.conns : Goto(w, [me EXCEPT !.pc = "announce", !.conn = c])
      BY <1>4 DEF Connected
    <2> DEFINE r == [me EXCEPT !.pc = "announce", !.conn = c]
    <2>2. c \in Conns
      BY <1>t, ForgeAssumption DEF TypesInv, Conns
    <2>3. me.pc = "connect" /\ UNCHANGED <<source, running>>
      BY <1>4 DEF Connected, tab
    <2>4. /\ r \in Task /\ r.kind = me.kind /\ r.cancelled = me.cancelled /\ r.pc = "announce"
          /\ r.got = <<>> /\ r.conn \in Conns
      BY <1>f, <1>p, <1>g, <2>2, <2>3 DEF Task
    <2> QED
      BY <1>t, <1>f, <2>1, <2>3, <2>4, GotoPlaceMoves
  <1>5. ASSUME ConnectFails(w) PROVE TaskMoves(w)
    BY <1>5, <1>t, <1>f, NextFrameMoves DEF ConnectFails, tab
  <1>6. ASSUME Announced(w) PROVE TaskMoves(w)
    <2>1. me.pc = "announce" /\ UNCHANGED <<source, running>>
      BY <1>6 DEF Announced, tab
    <2>2. me.conn \in Conns /\ me.conn \in Sessions \cup {NoSession}
      BY <1>t, <2>1 DEF TaskInv, Sessions
    <2>3. BeginSend(w, me.conn, me.conn) \/ NextFrame(w, me.conn)
      BY <1>6 DEF Announced
    <2> QED
      BY <1>t, <1>g, <2>1, <2>2, <2>3, BeginSendMoves, NextFrameMoves
  <1>7. ASSUME Drained(w) PROVE TaskMoves(w)
    <2>1. me.pc = "drain" /\ UNCHANGED <<source, running>>
      BY <1>7 DEF Drained, tab
    <2>2. PICK pc \in {"collect", "callback"} : Goto(w, [me EXCEPT !.pc = pc])
      BY <1>7 DEF Drained
    <2> DEFINE r == [me EXCEPT !.pc = pc]
    <2>3. me.conn \in Conns /\ me.got = <<>>
      BY <1>t, <2>1 DEF TaskInv
    <2>4. /\ r \in Task /\ r.kind = me.kind /\ r.cancelled = me.cancelled /\ r.pc = pc
          /\ r.got = <<>> /\ r.conn \in Conns
      BY <1>f, <1>p, <2>3 DEF Task
    <2> QED
      BY <1>t, <1>f, <2>1, <2>2, <2>4, GotoPlaceMoves
  <1>8. ASSUME Collect(w) PROVE TaskMoves(w)
    <2>1. /\ me.pc = "collect" /\ UNCHANGED <<source, running>> /\ queue[me.conn] # <<>>
          /\ \/ /\ Head(queue[me.conn]).kind = "data"
                /\ Goto(w, [me EXCEPT !.got = Append(@, Head(queue[me.conn]).req)])
             \/ Goto(w, [me EXCEPT !.pc = "callback"])
      BY <1>8 DEF Collect, tab
    <2>2. me.conn \in Conns
      BY <1>t, <2>1 DEF TaskInv
    <2>3. Head(queue[me.conn]) \in Chunk
      <3>1. queue[me.conn] \in Seq(Chunk)
        BY <1>t, <2>2 DEF TypesInv
      <3> QED
        BY <2>1, <3>1, HeadFacts
    <2>4. ASSUME Goto(w, [me EXCEPT !.pc = "callback"]) PROVE TaskMoves(w)
      <3> DEFINE r == [me EXCEPT !.pc = "callback"]
      <3>1. /\ r \in Task /\ r.kind = me.kind /\ r.cancelled = me.cancelled /\ r.pc = "callback"
            /\ r.got = me.got /\ r.conn = me.conn
        BY <1>f, <1>p DEF Task
      <3> QED
        BY <1>t, <1>f, <2>1, <2>2, <2>4, <3>1, GotoPlaceMoves
    <2>5. ASSUME Goto(w, [me EXCEPT !.got = Append(@, Head(queue[me.conn]).req)])
          PROVE  TaskMoves(w)
      <3> DEFINE r == [me EXCEPT !.got = Append(@, Head(queue[me.conn]).req)]
      <3>0. Append(me.got, Head(queue[me.conn]).req) \in Seq(Nat)
        <4>1. Head(queue[me.conn]).req \in Nat
          BY <2>3 DEF Chunk
        <4> QED
          BY <1>f, <4>1, AppendFacts
      <3>1. /\ r \in Task /\ r.kind = me.kind /\ r.cancelled = me.cancelled /\ r.pc = me.pc
            /\ r.conn = me.conn
        BY <1>f, <3>0 DEF Task
      <3>2. MovesTo(w, r)
        BY <1>t, <2>5, <3>1, GotoMoves
      <3>3. worker'[w] = r /\ MovesTo(w, worker'[w])
        BY <3>2 DEF MovesTo
      <3>4. TaskInv(w)' /\ (running' /\ Backs(w) => Backs(w)')
        BY <2>1, <2>2, <3>1, <3>3 DEF TaskInv, Backs, Finished
      <3> QED
        BY <1>8, <1>t, <2>1, <3>3, <3>4 DEF TaskMoves, TypesInv
    <2> QED
      BY <2>1, <2>4, <2>5
  <1>9. ASSUME ResponseEnds(w) PROVE TaskMoves(w)
    <2>1. /\ me.pc \in {"collect", "callback"} /\ UNCHANGED <<source, running>>
          /\ NextFrame(w, me.cell) \/ Goto(w, [me EXCEPT !.pc = "log"])
      BY <1>9 DEF ResponseEnds, tab
    <2>2. CASE NextFrame(w, me.cell)
      BY <1>t, <1>f, <2>1, <2>2, NextFrameMoves
    <2>3. CASE Goto(w, [me EXCEPT !.pc = "log"])
      <3> DEFINE r == [me EXCEPT !.pc = "log"]
      <3>1. /\ r \in Task /\ r.kind = me.kind /\ r.cancelled = me.cancelled /\ r.pc = "log"
            /\ r.got = me.got /\ r.conn = me.conn
        BY <1>f, <1>p DEF Task
      <3>2. me.conn \in Conns
        BY <1>t, <2>1 DEF TaskInv
      <3> QED
        BY <1>t, <1>f, <2>1, <2>3, <3>1, <3>2, GotoPlaceMoves
    <2> QED
      BY <2>1, <2>2, <2>3
  <1>10. ASSUME LogAnswer(w) PROVE TaskMoves(w)
    <2>1. me.pc = "log" /\ UNCHANGED <<source, running>>
      BY <1>10 DEF LogAnswer, tab
    <2>2. CASE me.got = <<>>
      BY <1>10, <1>t, <1>f, <2>1, <2>2, NextFrameMoves DEF LogAnswer
    <2>3. CASE me.got # <<>>
      <3> DEFINE r == [me EXCEPT !.got = Tail(@)]
      <3>1. Goto(w, r)
        BY <1>10, <2>3 DEF LogAnswer
      <3>2. Tail(me.got) \in Seq(Nat)
        BY <1>f, <2>3, HeadFacts
      <3>3. /\ r \in Task /\ r.kind = me.kind /\ r.cancelled = me.cancelled /\ r.pc = me.pc
            /\ r.conn = me.conn
        BY <1>f, <3>2 DEF Task
      <3>4. MovesTo(w, r)
        BY <1>t, <3>1, <3>3, GotoMoves
      <3>5. worker'[w] = r /\ MovesTo(w, worker'[w])
        BY <3>4 DEF MovesTo
      <3>6. TaskInv(w)' /\ (running' /\ Backs(w) => Backs(w)')
        BY <1>t, <2>1, <3>3, <3>5 DEF TaskInv, Backs, Finished
      <3> QED
        BY <1>10, <1>t, <2>1, <3>5, <3>6 DEF TaskMoves, TypesInv
    <2> QED
      BY <2>2, <2>3
  <1>11. ASSUME Injected(w) PROVE TaskMoves(w)
    <2>1. /\ me.pc = "inject" /\ UNCHANGED <<source, running>>
          /\ NextFrame(w, me.cell) \/ Goto(w, [me EXCEPT !.pc = "window"])
      BY <1>11 DEF Injected, tab
    <2>2. CASE NextFrame(w, me.cell)
      BY <1>t, <1>f, <2>1, <2>2, NextFrameMoves
    <2>3. CASE Goto(w, [me EXCEPT !.pc = "window"])
      <3> DEFINE r == [me EXCEPT !.pc = "window"]
      <3>0. me.got = <<>>
        BY <1>t, <2>1 DEF TaskInv
      <3>1. /\ r \in Task /\ r.kind = me.kind /\ r.cancelled = me.cancelled /\ r.pc = "window"
            /\ r.got = <<>>
        BY <1>f, <1>p, <3>0 DEF Task
      <3> QED
        BY <1>t, <1>f, <2>1, <2>3, <3>1, GotoPlaceMoves
    <2> QED
      BY <2>1, <2>2, <2>3
  <1>12. ASSUME WindowEnds(w) PROVE TaskMoves(w)
    BY <1>12, <1>t, <1>f, NextFrameMoves DEF WindowEnds, tab
  <1> QED
    BY <1>1, <1>2, <1>3, <1>4, <1>5, <1>6, <1>7, <1>8, <1>9, <1>10, <1>11, <1>12 DEF WorkerStep, Proceeds

---------------------------------------------------------------------------
\* The types of everything a step of a task does not decide: what is left is
\* sess, open, reader, closes, queue, taken, asked and log.
LEMMA TaskStepTypes ==
  ASSUME IInv, NEW w \in Workers, WorkerStep(w)
  PROVE  TypesInv'
  <1> DEFINE me == worker[w]
             SameEnv == UNCHANGED <<setup, ops, wire, answered, produced, clicks>>
             SameConns == UNCHANGED <<sess, open, reader, closes>>
  <1>t. TypesInv /\ TaskInv(w) /\ TaskMoves(w)
    BY TaskStepMoves DEF IInv
  <1>m. worker' \in [Workers -> Task] /\ source' \in Sessions \cup {NoSession} /\ running' \in BOOLEAN
    BY <1>t DEF TaskMoves, MovesTo
  <1>f. /\ me.cell \in Sessions \cup {NoSession} /\ me.got \in Seq(Nat) /\ me.req \in Nat
        /\ me.frame \in Nat /\ Conns \subseteq Sessions /\ Proxy \in Sessions /\ Proxy \notin Conns
    BY <1>t, TaskFields DEF Sessions, Proxy, Conns
  <1>1. ASSUME SameEnv, SameConns, UNCHANGED <<queue, taken, asked, log>> PROVE TypesInv'
    BY <1>t, <1>m, <1>1 DEF TypesInv
  <1>2. ASSUME SameEnv, SameConns, UNCHANGED <<queue, taken, asked>>, DOMAIN log' = Sessions,
               \A c \in Conns : log'[c] \in Seq(Entry)
        PROVE  TypesInv'
    BY <1>t, <1>m, <1>2 DEF TypesInv
  <1>3. ASSUME SameEnv, SameConns, UNCHANGED <<queue, taken, log>>, asked' \in [Sessions -> Nat]
        PROVE  TypesInv'
    BY <1>t, <1>m, <1>3 DEF TypesInv
  <1>4. ASSUME Start(w) PROVE TypesInv'
    BY <1>1, <1>4 DEF Start, conns
  <1>5. ASSUME Cancelled(w) PROVE TypesInv'
    BY <1>1, <1>5 DEF Cancelled, conns
  <1>6. ASSUME SendFn(w) PROVE TypesInv'
    <2> DEFINE cell == IF Active(me.cell) THEN me.cell ELSE NoSession
    <2>1. SameEnv /\ SameConns /\ UNCHANGED <<queue, taken, log>>
      BY <1>6 DEF SendFn
    <2>2. asked' \in [Sessions -> Nat]
      <3>1. \/ UNCHANGED asked
            \/ cell \in open /\ BeginSend(w, cell, cell)
            \/ asked' = [asked EXCEPT ![Proxy] = IF Frames(w)[me.frame] = "c2s" THEN @ + 1 ELSE @]
        BY <1>6 DEF SendFn
      <3>2. asked \in [Sessions -> Nat] /\ open \subseteq Conns
        BY <1>t DEF TypesInv
      <3>3. cell \in Sessions \cup {NoSession}
        BY <1>f DEF Active
      <3>4. CASE cell \in open /\ BeginSend(w, cell, cell)
        BY <1>t, <3>2, <3>3, <3>4, BeginSendDoes
      <3> QED
        BY <3>1, <3>2, <3>4, <1>f
    <2> QED
      BY <1>3, <2>1, <2>2
  <1>7. ASSUME Connected(w) PROVE TypesInv'
    <2>1. PICK c \in 1 .. setup.conns :
            /\ sess' = [sess EXCEPT ![c] = "active"] /\ open' = open \cup {c}
            /\ reader' = [reader EXCEPT ![c] = IF setup.udp THEN "none" ELSE "reading"]
      BY <1>7 DEF Connected
    <2>2. c \in Conns
      BY <1>t, ForgeAssumption DEF TypesInv, Conns
    <2>4. c \in Sessions
      BY <1>f, <2>2
    <2>3. SameEnv /\ UNCHANGED <<queue, taken, asked, log, closes>>
      BY <1>7 DEF Connected, tab
    <2>5. /\ sess' \in [Sessions -> {"none", "active", "closed", "deleted"}] /\ open' \subseteq Conns
          /\ reader' \in [Conns -> {"none", "reading", "closing", "done"}]
      BY <1>t, <2>1, <2>2, <2>4 DEF TypesInv
    <2> QED
      BY <1>t, <1>m, <2>3, <2>5 DEF TypesInv
  <1>8. ASSUME ConnectFails(w) PROVE TypesInv'
    BY <1>1, <1>8 DEF ConnectFails, conns, tab
  <1>9. ASSUME Announced(w) PROVE TypesInv'
    <2>1. SameEnv /\ SameConns /\ UNCHANGED <<queue, taken, log>> /\ me.pc = "announce"
      BY <1>9 DEF Announced, tab
    <2>2. me.conn \in Conns /\ me.conn \in Sessions \cup {NoSession}
      BY <1>t, <1>f, <2>1 DEF TaskInv
    <2>3. UNCHANGED asked \/ BeginSend(w, me.conn, me.conn)
      BY <1>9 DEF Announced
    <2>4. asked' \in [Sessions -> Nat]
      <3>1. CASE UNCHANGED asked
        BY <1>t, <3>1 DEF TypesInv
      <3>2. CASE BeginSend(w, me.conn, me.conn)
        BY <1>t, <2>2, <3>2, BeginSendDoes
      <3> QED
        BY <2>3, <3>1, <3>2
    <2> QED
      BY <1>3, <2>1, <2>4
  <1>10. ASSUME Drained(w) PROVE TypesInv'
    <2>1. SameEnv /\ UNCHANGED <<queue, taken, asked, log>> /\ me.pc = "drain"
      BY <1>10 DEF Drained, tab
    <2>2. me.conn \in Conns
      BY <1>t, <2>1 DEF TaskInv
    <2>3. SameConns \/ Close(me.conn, "sender")
      BY <1>10 DEF Drained
    <2>4. CASE SameConns
      BY <1>1, <2>1, <2>4
    <2>5. CASE Close(me.conn, "sender")
      <3>1. /\ sess' \in [Sessions -> {"none", "active", "closed", "deleted"}] /\ open' \subseteq Conns
            /\ reader' \in [Conns -> {"none", "reading", "closing", "done"}]
            /\ closes' \in [Conns -> Nat]
        BY <1>t, <2>2, <2>5, CloseDoes
      <3> QED
        BY <1>t, <1>m, <2>1, <3>1 DEF TypesInv
    <2> QED
      BY <2>3, <2>4, <2>5
  <1>11. ASSUME Collect(w) PROVE TypesInv'
    <2> DEFINE c == me.conn
    <2>1. /\ SameEnv /\ UNCHANGED <<asked, log>> /\ me.pc = "collect" /\ queue[c] # <<>>
          /\ taken' = [taken EXCEPT ![c] = Append(@, Head(queue[c]))]
          /\ queue' = [queue EXCEPT ![c] = Tail(@)]
          /\ SameConns \/ Close(c, "sender")
      BY <1>11 DEF Collect, tab
    <2>2. c \in Conns
      BY <1>t, <2>1 DEF TaskInv
    <2>3. /\ queue \in [Conns -> Seq(Chunk)] /\ taken \in [Conns -> Seq(Chunk)]
          /\ queue[c] \in Seq(Chunk) /\ taken[c] \in Seq(Chunk)
      BY <1>t, <2>2 DEF TypesInv
    <2>4. Head(queue[c]) \in Chunk /\ Tail(queue[c]) \in Seq(Chunk)
      BY <2>1, <2>3, HeadFacts
    <2>5. Append(taken[c], Head(queue[c])) \in Seq(Chunk)
      BY <2>3, <2>4, AppendFacts
    <2>6. queue' \in [Conns -> Seq(Chunk)] /\ taken' \in [Conns -> Seq(Chunk)]
      BY <2>1, <2>2, <2>3, <2>4, <2>5
    <2>7. /\ sess' \in [Sessions -> {"none", "active", "closed", "deleted"}] /\ open' \subseteq Conns
          /\ reader' \in [Conns -> {"none", "reading", "closing", "done"}]
          /\ closes' \in [Conns -> Nat]
      <3>1. CASE SameConns
        BY <1>t, <3>1 DEF TypesInv
      <3>2. CASE Close(c, "sender")
        BY <1>t, <2>2, <3>2, CloseDoes
      <3> QED
        BY <2>1, <3>1, <3>2
    <2> QED
      BY <1>t, <1>m, <2>1, <2>6, <2>7 DEF TypesInv
  <1>12. ASSUME NEW c \in Sessions, NEW e, c \in Conns => e \in Entry,
                log' = [log EXCEPT ![c] = Append(@, e)]
         PROVE  DOMAIN log' = Sessions /\ \A d \in Conns : log'[d] \in Seq(Entry)
    <2>1. DOMAIN log = Sessions /\ \A d \in Conns : log[d] \in Seq(Entry)
      BY <1>t DEF TypesInv
    <2>2. c \in Conns => Append(log[c], e) \in Seq(Entry)
      BY <1>12, <2>1, AppendFacts
    <2> QED
      BY <1>12, <1>f, <2>1, <2>2
  <1>13. ASSUME ResponseEnds(w) PROVE TypesInv'
    <2> DEFINE e == [dir |-> "c2s", req |-> me.req]
    <2>1. /\ SameEnv /\ SameConns /\ UNCHANGED <<queue, taken, asked>>
          /\ me.pc \in {"collect", "callback"}
          /\ UNCHANGED log \/ log' = [log EXCEPT ![me.conn] = Append(@, e)]
      BY <1>13 DEF ResponseEnds, conns, tab
    <2>2. me.conn \in Conns /\ e \in Entry
      BY <1>t, <1>f, <2>1 DEF TaskInv, Entry
    <2> QED
      BY <1>1, <1>2, <1>12, <1>f, <2>1, <2>2
  <1>14. ASSUME LogAnswer(w) PROVE TypesInv'
    <2> DEFINE e == [dir |-> "s2c", req |-> Head(me.got)]
    <2>1. /\ SameEnv /\ SameConns /\ UNCHANGED <<queue, taken, asked>> /\ me.pc = "log"
          /\ UNCHANGED log \/ (me.got # <<>> /\ log' = [log EXCEPT ![me.conn] = Append(@, e)])
      BY <1>14 DEF LogAnswer, conns, tab
    <2>2. me.conn \in Conns
      BY <1>t, <2>1 DEF TaskInv
    <2>3. me.got # <<>> => e \in Entry
      <3>1. me.got # <<>> => Head(me.got) \in Nat
        BY <1>f, HeadFacts
      <3> QED
        BY <3>1 DEF Entry
    <2> QED
      BY <1>1, <1>2, <1>12, <1>f, <2>1, <2>2, <2>3
  <1>15. ASSUME Injected(w) PROVE TypesInv'
    <2>1. /\ SameEnv /\ SameConns /\ UNCHANGED <<queue, taken, asked>>
          /\ \/ UNCHANGED log
             \/ log' = [log EXCEPT ![Proxy] = Append(@, [dir |-> Frames(w)[me.frame], req |-> 0])]
      BY <1>15 DEF Injected, conns, tab
    <2> QED
      BY <1>1, <1>2, <1>12, <1>f, <2>1
  <1>16. ASSUME WindowEnds(w) PROVE TypesInv'
    BY <1>1, <1>16 DEF WindowEnds, conns, tab
  <1> QED
    BY <1>4, <1>5, <1>6, <1>7, <1>8, <1>9, <1>10, <1>11, <1>13, <1>14, <1>15, <1>16 DEF WorkerStep, Proceeds

(* Every step keeps the types of the variables. *)
LEMMA TypesStep ==
  ASSUME IInv, [Next]_vars
  PROVE  TypesInv'
  <1>t. TypesInv
    BY DEF IInv
  <1>s. Conns \subseteq Sessions /\ Proxy \in Sessions /\ Proxy \notin Conns
    BY DEF Sessions, Proxy, Conns
  <1>d. /\ \A n \in Nat : Data(n) \in Chunk
        /\ EOF \in Chunk /\ ERR \in Chunk
    BY DEF Data, EOF, ERR, Chunk
  <1>q. ASSUME NEW c \in Conns, wire[c] # <<>>,
               queue' = [queue EXCEPT ![c] = Append(@, Head(wire[c]))],
               produced' = [produced EXCEPT ![c] = Append(@, Head(wire[c]))],
               wire' = [wire EXCEPT ![c] = Tail(@)]
        PROVE  /\ queue' \in [Conns -> Seq(Chunk)] /\ produced' \in [Conns -> Seq(Chunk)]
               /\ wire' \in [Sessions -> Seq(Chunk)]
    <2>1. /\ queue \in [Conns -> Seq(Chunk)] /\ produced \in [Conns -> Seq(Chunk)]
          /\ wire \in [Sessions -> Seq(Chunk)] /\ wire[c] \in Seq(Chunk)
      BY <1>t, <1>s DEF TypesInv
    <2>2. Head(wire[c]) \in Chunk /\ Tail(wire[c]) \in Seq(Chunk)
      BY <1>q, <2>1, HeadFacts
    <2>3. Append(queue[c], Head(wire[c])) \in Seq(Chunk) /\ Append(produced[c], Head(wire[c])) \in Seq(Chunk)
      BY <2>1, <2>2, AppendFacts
    <2> QED
      BY <1>q, <1>s, <2>1, <2>2, <2>3
  <1>w. ASSUME NEW s \in Sessions, NEW e \in Chunk, wire' = [wire EXCEPT ![s] = Append(@, e)]
        PROVE  wire' \in [Sessions -> Seq(Chunk)]
    <2>1. wire \in [Sessions -> Seq(Chunk)] /\ wire[s] \in Seq(Chunk)
      BY <1>t DEF TypesInv
    <2>2. Append(wire[s], e) \in Seq(Chunk)
      BY <2>1, AppendFacts
    <2> QED
      BY <1>w, <2>1, <2>2
  <1>1. ASSUME NEW w \in Workers, WorkerStep(w) PROVE TypesInv'
    BY <1>1, TaskStepTypes
  <1>2. ASSUME NEW c \in Conns, ReaderStep(c) PROVE TypesInv'
    <2>1. /\ wire[c] # <<>> /\ queue' = [queue EXCEPT ![c] = Append(@, Head(wire[c]))]
          /\ produced' = [produced EXCEPT ![c] = Append(@, Head(wire[c]))]
          /\ wire' = [wire EXCEPT ![c] = Tail(@)]
          /\ UNCHANGED <<open, sess, reader, closes>> \/ Close(c, "reader")
          /\ UNCHANGED <<setup, ops, asked, answered, taken, log, source, running, clicks, worker>>
      BY <1>2 DEF ReaderStep, tab
    <2>2. /\ queue' \in [Conns -> Seq(Chunk)] /\ produced' \in [Conns -> Seq(Chunk)]
          /\ wire' \in [Sessions -> Seq(Chunk)]
      BY <1>q, <2>1
    <2>3. /\ sess' \in [Sessions -> {"none", "active", "closed", "deleted"}] /\ open' \subseteq Conns
          /\ reader' \in [Conns -> {"none", "reading", "closing", "done"}]
          /\ closes' \in [Conns -> Nat]
      <3>1. CASE UNCHANGED <<open, sess, reader, closes>>
        BY <1>t, <3>1 DEF TypesInv
      <3>2. CASE Close(c, "reader")
        BY <1>t, <3>2, CloseDoes
      <3> QED
        BY <2>1, <3>1, <3>2
    <2> QED
      BY <1>t, <2>1, <2>2, <2>3 DEF TypesInv
  <1>3. ASSUME NEW c \in Conns, ReaderEnds(c) PROVE TypesInv'
    BY <1>3, <1>t DEF ReaderEnds, TypesInv, tab
  <1>4. ASSUME NEW c \in Conns, DatagramReceived(c) PROVE TypesInv'
    <2>1. /\ wire[c] # <<>> /\ queue' = [queue EXCEPT ![c] = Append(@, Head(wire[c]))]
          /\ produced' = [produced EXCEPT ![c] = Append(@, Head(wire[c]))]
          /\ wire' = [wire EXCEPT ![c] = Tail(@)]
          /\ UNCHANGED <<setup, ops, sess, open, reader, closes, asked, answered, taken, log, source,
                         running, clicks, worker>>
      BY <1>4 DEF DatagramReceived, tab
    <2>2. /\ queue' \in [Conns -> Seq(Chunk)] /\ produced' \in [Conns -> Seq(Chunk)]
          /\ wire' \in [Sessions -> Seq(Chunk)]
      BY <1>q, <2>1
    <2> QED
      BY <1>t, <2>1, <2>2 DEF TypesInv
  <1>5. ASSUME NEW c \in Conns, ServerCloses(c) PROVE TypesInv'
    <2>1. /\ \E e \in {EOF, ERR} : wire' = [wire EXCEPT ![c] = Append(@, e)]
          /\ UNCHANGED <<setup, ops, sess, open, reader, queue, asked, answered, produced, taken,
                         closes, log, source, running, clicks, worker>>
      BY <1>5 DEF ServerCloses, tab
    <2>2. wire' \in [Sessions -> Seq(Chunk)]
      BY <1>w, <1>d, <1>s, <2>1
    <2> QED
      BY <1>t, <2>1, <2>2 DEF TypesInv
  <1>6. ASSUME NEW c \in Conns, Terminate(c) PROVE TypesInv'
    <2>1. /\ Close(c, "operator") /\ ops' = ops + 1
          /\ UNCHANGED <<setup, wire, queue, asked, answered, produced, taken, log, source, running,
                         clicks, worker>>
      BY <1>6 DEF Terminate, tab
    <2>2. /\ sess' \in [Sessions -> {"none", "active", "closed", "deleted"}] /\ open' \subseteq Conns
          /\ reader' \in [Conns -> {"none", "reading", "closing", "done"}]
          /\ closes' \in [Conns -> Nat]
      BY <1>t, <2>1, CloseDoes
    <2> QED
      BY <1>t, <2>1, <2>2 DEF TypesInv
  <1>7. ASSUME NEW c \in Conns, Delete(c) PROVE TypesInv'
    <2>1. /\ sess' = [sess EXCEPT ![c] = "deleted"] /\ ops' = ops + 1
          /\ UNCHANGED <<setup, open, reader, wire, queue, asked, answered, produced, taken, closes,
                         log, source, running, clicks, worker>>
      BY <1>7 DEF Delete, tab
    <2>2. sess' \in [Sessions -> {"none", "active", "closed", "deleted"}] /\ ops' \in Nat
      <3>1. sess \in [Sessions -> {"none", "active", "closed", "deleted"}] /\ ops \in Nat
        BY <1>t DEF TypesInv
      <3> QED
        BY <1>s, <2>1, <3>1
    <2> QED
      BY <1>t, <2>1, <2>2 DEF TypesInv
  <1>8. ASSUME NEW s \in Sessions, ServerAnswers(s) PROVE TypesInv'
    <2>1. /\ answered' = [answered EXCEPT ![s] = @ + 1]
          /\ UNCHANGED <<setup, ops, sess, open, reader, queue, asked, produced, taken, closes, source,
                         running, clicks, worker>>
      BY <1>8 DEF ServerAnswers, tab
    <2>2. answered' \in [Sessions -> Nat] /\ answered'[s] \in Nat
      BY <1>t, <2>1 DEF TypesInv
    <2>3. CASE s = Proxy
      <3>1. UNCHANGED wire /\ log' = [log EXCEPT ![s] = Append(@, [dir |-> "s2c", req |-> answered'[s]])]
        BY <1>8, <2>3 DEF ServerAnswers
      <3>2. DOMAIN log' = Sessions /\ \A c \in Conns : log'[c] \in Seq(Entry)
        BY <1>t, <1>s, <2>3, <3>1 DEF TypesInv
      <3> QED
        BY <1>t, <2>1, <2>2, <3>1, <3>2 DEF TypesInv
    <2>4. CASE s # Proxy
      <3>1. UNCHANGED log /\ wire' = [wire EXCEPT ![s] = Append(@, Data(answered'[s]))]
        BY <1>8, <2>4 DEF ServerAnswers
      <3>2. wire' \in [Sessions -> Seq(Chunk)]
        BY <1>w, <1>d, <2>2, <3>1
      <3> QED
        BY <1>t, <2>1, <2>2, <3>1, <3>2 DEF TypesInv
    <2> QED
      BY <2>3, <2>4
  <1>9. ASSUME ProxySessionCloses PROVE TypesInv'
    BY <1>9, <1>t, <1>s DEF ProxySessionCloses, TypesInv, tab
  <1>10. ASSUME NEW kind \in {"run", "single"}, Click(kind) PROVE TypesInv'
    <2>1. /\ clicks' = clicks + 1 /\ clicks < setup.clicks
          /\ running' = (running \/ kind = "run")
          /\ worker' = [v \in Workers |->
                IF v = clicks' THEN [Idle EXCEPT !.kind = kind, !.pc = "start"]
                ELSE [worker[v] EXCEPT !.cancelled = @ \/ ~Finished(v)]]
          /\ UNCHANGED <<setup, ops, sess, open, reader, wire, queue, asked, answered, produced, taken,
                         closes, log, source>>
      BY <1>10 DEF Click, conns
    <2>2. [Idle EXCEPT !.kind = kind, !.pc = "start"] \in Task
      <3>1. "start" \in PCs /\ <<>> \in Seq(Nat)
        BY EmptySeq DEF PCs
      <3> QED
        BY <3>1 DEF Idle, Task
    <2>3. ASSUME NEW v \in Workers PROVE [worker[v] EXCEPT !.cancelled = @ \/ ~Finished(v)] \in Task
      <3>1. worker[v] \in Task /\ (worker[v].cancelled \/ ~Finished(v)) \in BOOLEAN
        BY <1>t, TaskFields DEF Finished
      <3> QED
        BY <3>1 DEF Task
    <2>4. worker' \in [Workers -> Task]
      BY <2>1, <2>2, <2>3
    <2>5. clicks' \in 0 .. MaxClicks
      BY <1>t, <2>1, ForgeAssumption DEF TypesInv
    <2>6. running' \in BOOLEAN
      BY <2>1
    <2> QED
      BY <1>t, <2>1, <2>4, <2>5, <2>6 DEF TypesInv
  <1>11. ASSUME StopButton PROVE TypesInv'
    BY <1>11, <1>t DEF StopButton, TypesInv, conns
  <1>12. ASSUME UNCHANGED vars PROVE TypesInv'
    BY <1>12, <1>t DEF vars, conns, tab, TypesInv
  <1> QED
    BY <1>1, <1>2, <1>3, <1>4, <1>5, <1>6, <1>7, <1>8, <1>9, <1>10, <1>11, <1>12 DEF Next, ReaderOf

---------------------------------------------------------------------------
\* What every task has, and that a flag that is set is backed.
LEMMA TasksStep ==
  ASSUME IInv, [Next]_vars
  PROVE  (\A w \in Workers : TaskInv(w)') /\ RunInv'
  <1>t. TypesInv /\ RunInv /\ \A w \in Workers : TaskInv(w)
    BY DEF IInv
  <1>1. ASSUME NEW w \in Workers, WorkerStep(w)
        PROVE  (\A v \in Workers : TaskInv(v)') /\ RunInv'
    <2>1. /\ MovesTo(w, worker'[w]) /\ TaskInv(w)' /\ (running' => running)
          /\ running' /\ Backs(w) => Backs(w)'
      BY <1>1, TaskStepMoves DEF TaskMoves
    <2>2. \A v \in Workers \ {w} : worker'[v] = worker[v]
      BY <2>1 DEF MovesTo
    <2>3. \A v \in Workers : TaskInv(v)'
      BY <1>t, <2>1, <2>2 DEF TaskInv
    <2>4. \A v \in Workers : running' /\ Backs(v) => Backs(v)'
      BY <2>1, <2>2 DEF Backs, Finished
    <2> QED
      BY <1>t, <2>1, <2>3, <2>4 DEF RunInv
  <1>2. ASSUME UNCHANGED worker, running' => running
        PROVE  (\A v \in Workers : TaskInv(v)') /\ RunInv'
    BY <1>t, <1>2 DEF TaskInv, RunInv, Backs, Finished
  <1>3. ASSUME NEW kind \in {"run", "single"}, Click(kind)
        PROVE  (\A v \in Workers : TaskInv(v)') /\ RunInv'
    <2>1. /\ clicks' = clicks + 1 /\ clicks < setup.clicks
          /\ running' = (running \/ kind = "run") /\ (kind = "single" => ~running)
          /\ worker' = [v \in Workers |->
                IF v = clicks' THEN [Idle EXCEPT !.kind = kind, !.pc = "start"]
                ELSE [worker[v] EXCEPT !.cancelled = @ \/ ~Finished(v)]]
      BY <1>3 DEF Click
    <2>2. PICK n \in Workers : n = clicks'
      <3>1. clicks' \in Workers
        BY <1>t, <2>1, ForgeAssumption DEF TypesInv, Workers
      <3> QED
        BY <3>1
    <2>3. ASSUME NEW v \in Workers PROVE TaskInv(v)'
      <3>1. CASE v = clicks'
        BY <2>1, <3>1 DEF TaskInv, Idle
      <3>2. CASE v # clicks'
        <4>1. worker[v] \in Task /\ TaskInv(v)
          BY <1>t, TaskFields
        <4>2. /\ worker'[v].pc = worker[v].pc /\ worker'[v].conn = worker[v].conn
              /\ worker'[v].got = worker[v].got
          BY <2>1, <3>2, <4>1 DEF Task
        <4> QED
          BY <4>1, <4>2 DEF TaskInv
      <3> QED
        BY <3>1, <3>2
    <2>4. ASSUME running' PROVE Backs(n)'
      <3>1. kind = "run"
        BY <2>1, <2>4
      <3>2. worker'[n] = [Idle EXCEPT !.kind = kind, !.pc = "start"]
        BY <2>1, <2>2
      <3>3. worker'[n].kind = "run" /\ worker'[n].pc = "start" /\ ~worker'[n].cancelled
        BY <3>1, <3>2 DEF Idle
      <3> QED
        BY <3>3 DEF Backs, Finished
    <2> QED
      BY <2>2, <2>3, <2>4 DEF RunInv
  <1>4. ASSUME NEW c \in Conns, \/ ReaderStep(c) \/ ReaderEnds(c) \/ DatagramReceived(c)
                                \/ ServerCloses(c) \/ Terminate(c) \/ Delete(c)
        PROVE  UNCHANGED <<worker, running>>
    BY <1>4 DEF ReaderStep, ReaderEnds, DatagramReceived, ServerCloses, Terminate, Delete, tab
  <1>5. ASSUME (\E s \in Sessions : ServerAnswers(s)) \/ ProxySessionCloses
        PROVE  UNCHANGED <<worker, running>>
    BY <1>5 DEF ServerAnswers, ProxySessionCloses, tab
  <1>6. ASSUME StopButton PROVE UNCHANGED worker /\ ~running'
    BY <1>6 DEF StopButton
  <1>7. ASSUME UNCHANGED vars PROVE UNCHANGED <<worker, running>>
    BY <1>7 DEF vars, tab
  <1> QED
    BY <1>1, <1>2, <1>3, <1>4, <1>5, <1>6, <1>7 DEF Next, ReaderOf

\* The registry, the open connections and the reader keep in step.
LEMMA ConnStep ==
  ASSUME IInv, [Next]_vars
  PROVE  \A c \in Conns : ConnInv(c)'
  <1>t. TypesInv /\ \A c \in Conns : ConnInv(c)
    BY DEF IInv
  <1>s. Conns \subseteq Sessions /\ Proxy \in Sessions /\ Proxy \notin Conns
    BY DEF Sessions, Proxy, Conns
  <1>0. ASSUME UNCHANGED <<sess, open, closes, produced>>,
               \A c \in Conns : reader'[c] = "reading" => reader[c] = "reading"
        PROVE  \A c \in Conns : ConnInv(c)'
    BY <1>t, <1>0 DEF ConnInv
  <1>1. ASSUME NEW c \in Conns, NEW by \in {"reader", "sender", "operator"}, Close(c, by),
               UNCHANGED produced
        PROVE  \A d \in Conns : ConnInv(d)'
    BY <1>t, <1>1, CloseDoes
  <1>2. ASSUME NEW w \in Workers, WorkerStep(w) PROVE \A c \in Conns : ConnInv(c)'
    <2>1. ASSUME \/ Start(w) \/ Cancelled(w) \/ SendFn(w) \/ ConnectFails(w) \/ Announced(w)
                 \/ ResponseEnds(w) \/ LogAnswer(w) \/ Injected(w) \/ WindowEnds(w)
          PROVE  UNCHANGED <<sess, open, closes, produced, reader>>
      BY <2>1 DEF Start, Cancelled, SendFn, ConnectFails, Announced, ResponseEnds, LogAnswer, Injected,
                  WindowEnds, conns
    <2>2. ASSUME Connected(w) PROVE \A c \in Conns : ConnInv(c)'
      <3>1. PICK c \in 1 .. setup.conns :
              /\ \A d \in Conns : sess[d] = "none" <=> d >= c
              /\ sess' = [sess EXCEPT ![c] = "active"] /\ open' = open \cup {c}
              /\ reader' = [reader EXCEPT ![c] = IF setup.udp THEN "none" ELSE "reading"]
              /\ UNCHANGED <<produced, closes>>
        BY <2>2 DEF Connected
      <3>2. c \in Conns
        BY <1>t, ForgeAssumption DEF TypesInv, Conns
      <3>3. sess[c] = "none" /\ c \in Sessions
        BY <1>s, <3>1, <3>2 DEF Conns
      <3>4. sess \in [Sessions -> {"none", "active", "closed", "deleted"}]
            /\ reader \in [Conns -> {"none", "reading", "closing", "done"}]
        BY <1>t DEF TypesInv
      <3>5. ASSUME NEW d \in Conns PROVE ConnInv(d)'
        <4>1. CASE d = c
          BY <1>t, <3>1, <3>2, <3>3, <3>4, <4>1 DEF ConnInv
        <4>2. CASE d # c
          BY <1>t, <1>s, <3>1, <3>2, <3>4, <4>2 DEF ConnInv
        <4> QED
          BY <4>1, <4>2
      <3> QED
        BY <3>5
    <2>3. ASSUME Drained(w) \/ Collect(w) PROVE \A c \in Conns : ConnInv(c)'
      <3>1. /\ UNCHANGED <<open, sess, reader, closes>> \/ Close(worker[w].conn, "sender")
            /\ UNCHANGED produced
            /\ worker[w].pc \in {"drain", "collect"}
        BY <2>3 DEF Drained, Collect
      <3>2. worker[w].conn \in Conns
        BY <3>1 DEF IInv, TaskInv
      <3> QED
        BY <1>0, <1>1, <3>1, <3>2
    <2> QED
      BY <1>0, <1>2, <2>1, <2>2, <2>3 DEF WorkerStep, Proceeds
  <1>3. ASSUME NEW c \in Conns, ReaderStep(c) PROVE \A d \in Conns : ConnInv(d)'
    <2>1. /\ reader[c] = "reading"
          /\ produced' = [produced EXCEPT ![c] = Append(@, Head(wire[c]))]
          /\ UNCHANGED <<open, sess, reader, closes>> \/ Close(c, "reader")
      BY <1>3 DEF ReaderStep
    <2>2. c \in open /\ sess[c] # "none" /\ produced \in [Conns -> Seq(Chunk)]
      BY <1>t, <2>1 DEF ConnInv, TypesInv
    <2>3. CASE UNCHANGED <<open, sess, reader, closes>>
      BY <1>t, <2>1, <2>2, <2>3 DEF ConnInv
    <2>4. CASE Close(c, "reader")
      <3>1. /\ open' = open \ {c}
            /\ sess' = [sess EXCEPT ![c] = IF @ = "active" THEN "closed" ELSE @]
            /\ closes' = [closes EXCEPT ![c] = @ + 1]
            /\ reader' = [reader EXCEPT ![c] = "closing"]
        BY <2>2, <2>4 DEF Close
      <3>2. /\ sess \in [Sessions -> {"none", "active", "closed", "deleted"}]
            /\ reader \in [Conns -> {"none", "reading", "closing", "done"}]
            /\ closes \in [Conns -> Nat]
        BY <1>t DEF TypesInv
      <3>3. ASSUME NEW d \in Conns PROVE ConnInv(d)'
        <4>1. CASE d = c
          BY <1>t, <1>s, <2>2, <3>1, <3>2, <4>1 DEF ConnInv
        <4>2. CASE d # c
          BY <1>t, <1>s, <2>1, <2>2, <3>1, <3>2, <4>2 DEF ConnInv
        <4> QED
          BY <4>1, <4>2
      <3> QED
        BY <3>3
    <2> QED
      BY <2>1, <2>3, <2>4
  <1>4. ASSUME NEW c \in Conns, ReaderEnds(c) PROVE \A d \in Conns : ConnInv(d)'
    <2>1. reader' = [reader EXCEPT ![c] = "done"] /\ UNCHANGED <<sess, open, closes, produced>>
      BY <1>4 DEF ReaderEnds
    <2>2. reader \in [Conns -> {"none", "reading", "closing", "done"}]
      BY <1>t DEF TypesInv
    <2> QED
      BY <1>0, <2>1, <2>2
  <1>5. ASSUME NEW c \in Conns, DatagramReceived(c) PROVE \A d \in Conns : ConnInv(d)'
    <2>1. /\ c \in open /\ UNCHANGED <<sess, open, closes, reader>>
          /\ produced' = [produced EXCEPT ![c] = Append(@, Head(wire[c]))]
      BY <1>5 DEF DatagramReceived
    <2>2. c \in open /\ sess[c] # "none" /\ produced \in [Conns -> Seq(Chunk)]
      BY <1>t, <2>1 DEF ConnInv, TypesInv
    <2> QED
      BY <1>t, <2>1, <2>2 DEF ConnInv
  <1>6. ASSUME NEW c \in Conns, Terminate(c) PROVE \A d \in Conns : ConnInv(d)'
    BY <1>1, <1>6 DEF Terminate
  <1>7. ASSUME NEW c \in Conns, Delete(c) PROVE \A d \in Conns : ConnInv(d)'
    <2>1. /\ sess[c] \in {"active", "closed"} /\ sess' = [sess EXCEPT ![c] = "deleted"]
          /\ UNCHANGED <<open, closes, produced, reader>>
      BY <1>7 DEF Delete
    <2>2. sess \in [Sessions -> {"none", "active", "closed", "deleted"}]
      BY <1>t DEF TypesInv
    <2> QED
      BY <1>t, <1>s, <2>1, <2>2 DEF ConnInv
  <1>8. ASSUME (\E c \in Conns : ServerCloses(c)) \/ (\E s \in Sessions : ServerAnswers(s))
        PROVE  \A d \in Conns : ConnInv(d)'
    <2>1. UNCHANGED <<sess, open, closes, produced, reader>>
      BY <1>8 DEF ServerCloses, ServerAnswers
    <2> QED
      BY <1>0, <2>1
  <1>9. ASSUME ProxySessionCloses PROVE \A d \in Conns : ConnInv(d)'
    <2>1. sess' = [sess EXCEPT ![Proxy] = "closed"] /\ UNCHANGED <<open, closes, produced, reader>>
      BY <1>9 DEF ProxySessionCloses
    <2>2. \A d \in Conns : sess'[d] = sess[d]
      BY <1>t, <1>s, <2>1 DEF TypesInv
    <2> QED
      BY <1>t, <2>1, <2>2 DEF ConnInv
  <1>10. ASSUME (\E kind \in {"run", "single"} : Click(kind)) \/ StopButton \/ UNCHANGED vars
         PROVE  \A d \in Conns : ConnInv(d)'
    <2>1. UNCHANGED <<sess, open, closes, produced, reader>>
      BY <1>10 DEF Click, StopButton, vars, conns
    <2> QED
      BY <1>0, <2>1
  <1> QED
    BY <1>2, <1>3, <1>4, <1>5, <1>6, <1>7, <1>8, <1>9, <1>10 DEF Next, ReaderOf

---------------------------------------------------------------------------
\* The elements of a sequence of two parts.
LEMMA ConcatFacts ==
  ASSUME NEW S, NEW s \in Seq(S), NEW t \in Seq(S)
  PROVE  /\ s \o t \in Seq(S) /\ Len(s \o t) = Len(s) + Len(t) /\ Len(s) \in Nat /\ Len(t) \in Nat
         /\ DOMAIN (s \o t) = 1 .. Len(s) + Len(t) /\ DOMAIN s = 1 .. Len(s)
         /\ \A i \in 1 .. Len(s) + Len(t) : (s \o t)[i] = IF i <= Len(s) THEN s[i] ELSE t[i - Len(s)]
         /\ \A i \in DOMAIN s : i \in DOMAIN (s \o t) /\ (s \o t)[i] = s[i]
         /\ t # <<>> => Len(s) + 1 \in DOMAIN (s \o t) /\ (s \o t)[Len(s) + 1] = Head(t)
  <1>1. /\ s \o t \in Seq(S) /\ Len(s \o t) = Len(s) + Len(t) /\ Len(s) \in Nat /\ Len(t) \in Nat
        /\ DOMAIN (s \o t) = 1 .. Len(s) + Len(t) /\ DOMAIN s = 1 .. Len(s)
        /\ \A i \in 1 .. Len(s) + Len(t) : (s \o t)[i] = IF i <= Len(s) THEN s[i] ELSE t[i - Len(s)]
    <2>1. /\ s \o t \in Seq(S) /\ Len(s \o t) = Len(s) + Len(t)
          /\ \A i \in 1 .. Len(s) + Len(t) : (s \o t)[i] = IF i <= Len(s) THEN s[i] ELSE t[i - Len(s)]
      BY ConcatProperties
    <2> QED
      BY <2>1, LenProperties
  <1>4. ASSUME t # <<>>
        PROVE  Len(s) + 1 \in DOMAIN (s \o t) /\ (s \o t)[Len(s) + 1] = Head(t)
    <2>1. Len(t) >= 1 /\ Head(t) = t[1]
      BY <1>4, HeadFacts
    <2> QED
      BY <1>1, <2>1
  <1>5. \A i \in DOMAIN s : i \in DOMAIN (s \o t) /\ (s \o t)[i] = s[i]
    BY <1>1
  <1> QED
    BY <1>1, <1>4, <1>5

\* What is appended to the second part is appended to the whole.
LEMMA ConcatAppend ==
  ASSUME NEW S, NEW s \in Seq(S), NEW t \in Seq(S), NEW e \in S
  PROVE  s \o Append(t, e) = Append(s \o t, e)
  <1>1. <<e>> \in Seq(S)
    OBVIOUS
  <1>2. Append(s \o t, e) = (s \o t) \o <<e>> /\ Append(t, e) = t \o <<e>>
    BY ConcatProperties, AppendIsConcat
  <1> QED
    BY <1>1, <1>2, ConcatAssociative

(* What is appended to the second part is appended to the whole. *)
LEMMA ChunkAppended ==
  \A s, t \in Seq(Chunk) : \A e \in Chunk : s \o Append(t, e) = Append(s \o t, e)
  <1> SUFFICES ASSUME NEW s \in Seq(Chunk), NEW t \in Seq(Chunk), NEW e \in Chunk
               PROVE  s \o Append(t, e) = Append(s \o t, e)
    OBVIOUS
  <1> QED
    BY ConcatAppend

\* The head of the second part can go to the end of the first.
LEMMA ConcatHead ==
  ASSUME NEW S, NEW s \in Seq(S), NEW t \in Seq(S), t # <<>>
  PROVE  s \o t = Append(s, Head(t)) \o Tail(t)
  <1> DEFINE u == Append(s, Head(t)) \o Tail(t)
             w == s \o t
  <1>0. /\ w \in Seq(S) /\ Len(w) = Len(s) + Len(t) /\ Len(s) \in Nat /\ Len(t) \in Nat
        /\ \A i \in 1 .. Len(s) + Len(t) : w[i] = IF i <= Len(s) THEN s[i] ELSE t[i - Len(s)]
    BY ConcatFacts
  <1>1. /\ Len(t) >= 1 /\ Head(t) \in S /\ Head(t) = t[1] /\ Tail(t) \in Seq(S)
        /\ Len(Tail(t)) = Len(t) - 1 /\ \A i \in 1 .. Len(t) - 1 : Tail(t)[i] = t[i + 1]
    BY HeadFacts
  <1>2. /\ Append(s, Head(t)) \in Seq(S) /\ Len(Append(s, Head(t))) = Len(s) + 1
        /\ \A i \in 1 .. Len(s) : Append(s, Head(t))[i] = s[i]
        /\ Append(s, Head(t))[Len(s) + 1] = t[1]
    BY <1>0, <1>1, AppendFacts
  <1>3. /\ u \in Seq(S) /\ Len(u) = Len(Append(s, Head(t))) + Len(Tail(t))
        /\ \A i \in 1 .. Len(Append(s, Head(t))) + Len(Tail(t)) :
              u[i] = IF i <= Len(Append(s, Head(t))) THEN Append(s, Head(t))[i]
                     ELSE Tail(t)[i - Len(Append(s, Head(t)))]
    BY <1>1, <1>2, ConcatProperties
  <1>4. Len(u) = Len(s) + Len(t)
    BY <1>0, <1>1, <1>2, <1>3
  <1>5. \A i \in 1 .. Len(s) + Len(t) : w[i] = u[i]
    <2> HIDE DEF u, w
    <2> SUFFICES ASSUME NEW i \in 1 .. Len(s) + Len(t) PROVE w[i] = u[i]
      OBVIOUS
    <2>0. i \in Nat /\ Len(s) \in Nat /\ Len(t) \in Nat
      BY <1>0
    <2>1. CASE i <= Len(s)
      <3>1. /\ i \in 1 .. Len(s) /\ i <= Len(Append(s, Head(t)))
            /\ i \in 1 .. Len(Append(s, Head(t))) + Len(Tail(t))
        BY <1>0, <1>1, <1>2, <2>0, <2>1
      <3>2. w[i] = s[i]
        BY <1>0, <2>1
      <3>3. u[i] = Append(s, Head(t))[i]
        BY <1>3, <3>1
      <3> QED
        BY <1>2, <3>1, <3>2, <3>3
    <2>2. CASE i = Len(s) + 1
      BY <1>0, <1>1, <1>2, <1>3, <2>2
    <2>3. CASE i > Len(s) + 1
      <3>1. u[i] = Tail(t)[i - (Len(s) + 1)] /\ i - (Len(s) + 1) \in 1 .. Len(t) - 1
        BY <1>0, <1>1, <1>2, <1>3, <2>3
      <3>2. u[i] = t[i - Len(s)]
        BY <1>0, <1>1, <3>1
      <3>3. w[i] = t[i - Len(s)]
        BY <1>0, <2>0, <2>3
      <3> QED
        BY <3>2, <3>3
    <2> QED
      BY <2>0, <2>1, <2>2, <2>3
  <1>6. w = u
    <2> HIDE DEF u, w
    <2> QED
      BY <1>0, <1>3, <1>4, <1>5, SeqEqual
  <1> QED
    BY <1>6

---------------------------------------------------------------------------
\* The chunks of a connection whose stream no step touches.
LEMMA StreamStays ==
  ASSUME NEW c \in Conns, StreamInv(c), setup' = setup,
         wire'[c] = wire[c], queue'[c] = queue[c], produced'[c] = produced[c], taken'[c] = taken[c],
         answered'[c] = answered[c],
         reader'[c] = "reading" => reader[c] = "reading" \/ DOMAIN produced[c] = {}
  PROVE  StreamInv(c)'
  <1>1. EndsLast(produced[c], setup.udp, reader[c])
    BY DEF StreamInv
  <1>2. EndsLast(produced[c], setup.udp, reader'[c])
    BY <1>1 DEF EndsLast
  <1> QED
    BY <1>2 DEF StreamInv

\* A chunk that moves from the socket to the queue.
LEMMA ChunkArrives ==
  ASSUME TypesInv, NEW c \in Conns, StreamInv(c), wire[c] # <<>>,
         queue' = [queue EXCEPT ![c] = Append(@, Head(wire[c]))],
         produced' = [produced EXCEPT ![c] = Append(@, Head(wire[c]))],
         wire' = [wire EXCEPT ![c] = Tail(@)],
         UNCHANGED <<setup, answered, taken>>,
         ~setup.udp => /\ reader[c] = "reading"
                       /\ Head(wire[c]).kind # "data" => reader'[c] # "reading"
  PROVE  StreamInv(c)'
  <1> DEFINE p == produced[c]
             h == Head(wire[c])
             n == Len(p) + 1
  <1>1. /\ p \in Seq(Chunk) /\ queue[c] \in Seq(Chunk) /\ taken[c] \in Seq(Chunk)
        /\ wire[c] \in Seq(Chunk) /\ c \in Sessions
        /\ queue'[c] = Append(queue[c], h) /\ produced'[c] = Append(p, h) /\ wire'[c] = Tail(wire[c])
        /\ taken'[c] = taken[c] /\ answered'[c] = answered[c] /\ setup' = setup
    BY DEF TypesInv, Sessions
  <1>2. /\ h \in Chunk /\ h = wire[c][1] /\ 1 \in DOMAIN wire[c]
        /\ DOMAIN Tail(wire[c]) = 1 .. Len(wire[c]) - 1
        /\ \A i \in DOMAIN Tail(wire[c]) : /\ i + 1 \in DOMAIN wire[c] /\ i + 1 # 1
                                           /\ Tail(wire[c])[i] = wire[c][i + 1]
    <2>1. /\ Len(wire[c]) \in Nat /\ Len(wire[c]) >= 1 /\ DOMAIN wire[c] = 1 .. Len(wire[c])
          /\ h \in Chunk /\ h = wire[c][1] /\ DOMAIN Tail(wire[c]) = 1 .. Len(wire[c]) - 1
          /\ \A i \in DOMAIN Tail(wire[c]) : i + 1 \in DOMAIN wire[c] /\ Tail(wire[c])[i] = wire[c][i + 1]
      BY <1>1, HeadFacts
    <2> QED
      BY <2>1
  <1>3. /\ Append(p, h) \in Seq(Chunk) /\ Len(p) \in Nat /\ Len(Append(p, h)) = n
        /\ DOMAIN p = 1 .. Len(p)
        /\ \A i \in DOMAIN Append(p, h) : i \in DOMAIN p \/ i = n
        /\ \A i \in DOMAIN p : i # n /\ Append(p, h)[i] = p[i]
        /\ Append(p, h)[n] = h
    <2>1. /\ Append(p, h) \in Seq(Chunk) /\ Len(p) \in Nat /\ Len(Append(p, h)) = n
          /\ DOMAIN p = 1 .. Len(p) /\ DOMAIN Append(p, h) = 1 .. Len(p) + 1
          /\ \A i \in DOMAIN p : Append(p, h)[i] = p[i]
          /\ Append(p, h)[n] = h
      BY <1>1, <1>2, AppendFacts
    <2> QED
      BY <2>1
  <1>4. Append(p, h) = taken[c] \o Append(queue[c], h)
    <2>1. p = taken[c] \o queue[c]
      BY DEF StreamInv
    <2>2. taken[c] \o Append(queue[c], h) = Append(taken[c] \o queue[c], h)
      <3>1. taken[c] \in Seq(Chunk) /\ queue[c] \in Seq(Chunk) /\ h \in Chunk
        BY <1>1, <1>2
      <3> HIDE DEF h
      <3> QED
        BY <3>1, ChunkAppended
    <2> QED
      BY <2>1, <2>2
  <1>i. /\ p = taken[c] \o queue[c] /\ EndsLast(p, setup.udp, reader[c])
        /\ Answers(p, answered[c]) /\ Answers(wire[c], answered[c]) /\ Apart(p, wire[c])
    BY DEF StreamInv
  <1>5. ASSUME ~setup.udp, NEW i \in DOMAIN Append(p, h), Append(p, h)[i].kind # "data"
        PROVE  i = Len(Append(p, h)) /\ reader'[c] # "reading"
    <2>1. i \notin DOMAIN p
      BY <1>3, <1>5, <1>i DEF EndsLast
    <2>2. i = n
      BY <1>3, <1>5, <2>1
    <2> QED
      BY <1>3, <1>5, <2>2
  <1>h. h.kind = "data" =>
          /\ h.req <= answered[c]
          /\ \A j \in DOMAIN p : p[j].kind = "data" => p[j].req # h.req
          /\ \A j \in DOMAIN Tail(wire[c]) : Tail(wire[c])[j].kind = "data" =>
                                              h.req # Tail(wire[c])[j].req
    BY <1>2, <1>i DEF Answers, Apart
  <1>6. ASSUME NEW i \in DOMAIN Append(p, h), Append(p, h)[i].kind = "data"
        PROVE  /\ Append(p, h)[i].req <= answered[c]
               /\ \A j \in DOMAIN Append(p, h) : i # j /\ Append(p, h)[j].kind = "data" =>
                                              Append(p, h)[i].req # Append(p, h)[j].req
               /\ \A j \in DOMAIN Tail(wire[c]) : Tail(wire[c])[j].kind = "data" =>
                                              Append(p, h)[i].req # Tail(wire[c])[j].req
    <2>1. CASE i \in DOMAIN p
      <3>1. Append(p, h)[i] = p[i]
        BY <1>3, <2>1
      <3>2. p[i].req <= answered[c]
        BY <1>6, <1>i, <2>1, <3>1 DEF Answers
      <3>3. ASSUME NEW j \in DOMAIN Append(p, h), i # j, Append(p, h)[j].kind = "data"
            PROVE  p[i].req # Append(p, h)[j].req
        <4>1. CASE j \in DOMAIN p
          BY <1>3, <1>6, <1>i, <2>1, <3>1, <3>3, <4>1 DEF Answers
        <4>2. CASE j = n
          BY <1>3, <1>6, <1>h, <2>1, <3>1, <3>3, <4>2
        <4> QED
          BY <1>3, <4>1, <4>2
      <3>4. ASSUME NEW j \in DOMAIN Tail(wire[c]), Tail(wire[c])[j].kind = "data"
            PROVE  p[i].req # Tail(wire[c])[j].req
        BY <1>2, <1>6, <1>i, <2>1, <3>1, <3>4 DEF Apart
      <3> QED
        BY <3>1, <3>2, <3>3, <3>4
    <2>2. CASE i = n
      <3>1. Append(p, h)[i] = h
        BY <1>3, <2>2
      <3>3. ASSUME NEW j \in DOMAIN Append(p, h), i # j, Append(p, h)[j].kind = "data"
            PROVE  h.req # Append(p, h)[j].req
        <4>1. j \in DOMAIN p /\ Append(p, h)[j] = p[j]
          BY <1>3, <2>2, <3>3
        <4> QED
          BY <1>6, <1>h, <3>1, <3>3, <4>1
      <3> QED
        BY <1>6, <1>h, <3>1, <3>3
    <2> QED
      BY <1>3, <2>1, <2>2
  <1>7. ASSUME NEW i \in DOMAIN Tail(wire[c]), Tail(wire[c])[i].kind = "data"
        PROVE  /\ Tail(wire[c])[i].req <= answered[c]
               /\ \A j \in DOMAIN Tail(wire[c]) : i # j /\ Tail(wire[c])[j].kind = "data" =>
                     Tail(wire[c])[i].req # Tail(wire[c])[j].req
    <2>1. i + 1 \in DOMAIN wire[c] /\ Tail(wire[c])[i] = wire[c][i + 1]
      BY <1>2
    <2>2. ASSUME NEW j \in DOMAIN Tail(wire[c]), i # j
          PROVE  j + 1 \in DOMAIN wire[c] /\ Tail(wire[c])[j] = wire[c][j + 1] /\ i + 1 # j + 1
      BY <1>2, <2>2
    <2> QED
      BY <1>7, <1>i, <2>1, <2>2 DEF Answers
  <1>8. EndsLast(Append(p, h), setup.udp, reader'[c])
    BY <1>5 DEF EndsLast
  <1>9. Answers(Append(p, h), answered[c]) /\ Apart(Append(p, h), Tail(wire[c]))
    BY <1>6 DEF Answers, Apart
  <1>10. Answers(Tail(wire[c]), answered[c])
    BY <1>7 DEF Answers
  <1> QED
    BY <1>1, <1>4, <1>8, <1>9, <1>10 DEF StreamInv

\* An answer or an end that the server puts on the wire.
LEMMA ServerSends ==
  ASSUME TypesInv, NEW c \in Conns, StreamInv(c), NEW e \in Chunk,
         wire' = [wire EXCEPT ![c] = Append(@, e)],
         UNCHANGED <<setup, queue, produced, taken, reader>>,
         answered'[c] \in Nat, answered[c] <= answered'[c],
         e.kind = "data" => answered[c] < e.req /\ e.req <= answered'[c]
  PROVE  StreamInv(c)'
  <1> DEFINE p == produced[c]
             v == Append(wire[c], e)
             n == Len(wire[c]) + 1
  <1>1. /\ p \in Seq(Chunk) /\ wire[c] \in Seq(Chunk) /\ c \in Sessions /\ answered[c] \in Nat
        /\ wire'[c] = v /\ e.req \in Nat
    BY DEF TypesInv, Sessions, Chunk
  <1>2. /\ \A i \in DOMAIN v : i \in DOMAIN wire[c] \/ i = n
        /\ \A i \in DOMAIN wire[c] : i # n /\ v[i] = wire[c][i]
        /\ v[n] = e
    <2>1. /\ Len(wire[c]) \in Nat /\ DOMAIN wire[c] = 1 .. Len(wire[c])
          /\ DOMAIN v = 1 .. Len(wire[c]) + 1
          /\ \A i \in DOMAIN wire[c] : v[i] = wire[c][i]
          /\ v[n] = e
      BY <1>1, AppendFacts
    <2> QED
      BY <2>1
  <1>3. /\ \A i \in DOMAIN p : p[i].req \in Nat
        /\ \A i \in DOMAIN wire[c] : wire[c][i].req \in Nat
    <2>1. \A f \in Chunk : f.req \in Nat
      BY DEF Chunk
    <2>2. (\A i \in DOMAIN p : p[i] \in Chunk) /\ (\A i \in DOMAIN wire[c] : wire[c][i] \in Chunk)
      BY <1>1, LenProperties, ElementOfSeq
    <2> QED
      BY <2>1, <2>2
  <1>i. /\ p = taken[c] \o queue[c] /\ EndsLast(p, setup.udp, reader[c])
        /\ Answers(p, answered[c]) /\ Answers(wire[c], answered[c]) /\ Apart(p, wire[c])
    BY DEF StreamInv
  <1>4. ASSUME NEW i \in DOMAIN p, p[i].kind = "data"
        PROVE  /\ p[i].req <= answered'[c]
               /\ \A j \in DOMAIN v : v[j].kind = "data" => p[i].req # v[j].req
    <2>1. p[i].req <= answered[c] /\ p[i].req \in Nat
      BY <1>3, <1>4, <1>i DEF Answers
    <2>2. \A j \in DOMAIN wire[c] : wire[c][j].kind = "data" => p[i].req # wire[c][j].req
      BY <1>4, <1>i DEF Apart
    <2>3. e.kind = "data" => p[i].req # e.req
      BY <1>1, <2>1
    <2> QED
      BY <1>1, <1>2, <2>1, <2>2, <2>3
  <1>5. ASSUME NEW i \in DOMAIN v, v[i].kind = "data"
        PROVE  /\ v[i].req <= answered'[c]
               /\ \A j \in DOMAIN v : i # j /\ v[j].kind = "data" => v[i].req # v[j].req
    <2>1. ASSUME NEW j \in DOMAIN wire[c], wire[c][j].kind = "data"
          PROVE  wire[c][j].req <= answered[c] /\ wire[c][j].req \in Nat
      BY <1>3, <1>i, <2>1 DEF Answers
    <2>2. CASE i \in DOMAIN wire[c]
      <3>1. v[i] = wire[c][i] /\ v[i].req <= answered[c] /\ v[i].req \in Nat
        BY <1>2, <1>5, <2>1, <2>2
      <3>2. ASSUME NEW j \in DOMAIN wire[c], i # j, v[j].kind = "data" PROVE v[i].req # v[j].req
        BY <1>2, <1>5, <1>i, <2>2, <3>1, <3>2 DEF Answers
      <3>3. e.kind = "data" => v[i].req # e.req
        BY <1>1, <3>1
      <3> QED
        BY <1>1, <1>2, <3>1, <3>2, <3>3
    <2>3. CASE i = n
      <3>1. v[i] = e
        BY <1>2, <2>3
      <3>2. ASSUME NEW j \in DOMAIN wire[c], wire[c][j].kind = "data" PROVE e.req # wire[c][j].req
        BY <1>1, <1>5, <2>1, <3>1, <3>2
      <3> QED
        BY <1>1, <1>2, <1>5, <2>3, <3>1, <3>2
    <2> QED
      BY <1>2, <2>2, <2>3
  <1>6. ASSUME NEW i \in DOMAIN p, p[i].kind = "data",
               NEW j \in DOMAIN p, p[j].kind = "data", i # j
        PROVE  p[i].req # p[j].req
    BY <1>i, <1>6 DEF Answers
  <1>7. Answers(p, answered'[c]) /\ Apart(p, v)
    BY <1>4, <1>6 DEF Answers, Apart
  <1>8. Answers(v, answered'[c])
    BY <1>5 DEF Answers
  <1>9. wire'[c] = v /\ produced'[c] = p /\ taken'[c] = taken[c] /\ queue'[c] = queue[c]
        /\ setup' = setup /\ reader'[c] = reader[c]
    BY <1>1
  <1> QED
    BY <1>i, <1>7, <1>8, <1>9 DEF StreamInv

\* A sender takes the first chunk of the queue.
LEMMA ChunkTaken ==
  ASSUME TypesInv, NEW c \in Conns, StreamInv(c), queue[c] # <<>>,
         taken' = [taken EXCEPT ![c] = Append(@, Head(queue[c]))],
         queue' = [queue EXCEPT ![c] = Tail(@)],
         UNCHANGED <<setup, wire, produced, answered>>,
         reader'[c] = "reading" => reader[c] = "reading"
  PROVE  StreamInv(c)'
  <1>1. /\ queue[c] \in Seq(Chunk) /\ taken[c] \in Seq(Chunk)
        /\ queue'[c] = Tail(queue[c]) /\ taken'[c] = Append(taken[c], Head(queue[c]))
    BY DEF TypesInv
  <1>2. produced[c] = Append(taken[c], Head(queue[c])) \o Tail(queue[c])
    <2>1. taken[c] \o queue[c] = Append(taken[c], Head(queue[c])) \o Tail(queue[c])
      BY <1>1, ConcatHead
    <2> QED
      BY <2>1 DEF StreamInv
  <1>3. produced'[c] = taken'[c] \o queue'[c]
    BY <1>1, <1>2
  <1> QED
    BY <1>3 DEF StreamInv, EndsLast

(* Every step keeps the streams: what was delivered is taken or queued, once and in order. *)
LEMMA StreamStep ==
  ASSUME IInv, [Next]_vars
  PROVE  \A c \in Conns : StreamInv(c)'
  <1>t. TypesInv /\ \A c \in Conns : ConnInv(c) /\ StreamInv(c)
    BY DEF IInv
  <1>s. Conns \subseteq Sessions /\ Proxy \in Sessions /\ Proxy \notin Conns
    BY DEF Sessions, Proxy, Conns
  <1>r. reader \in [Conns -> {"none", "reading", "closing", "done"}]
    BY <1>t DEF TypesInv
  <1>0. ASSUME UNCHANGED <<setup, wire, queue, produced, taken>>,
               \A c \in Conns : answered'[c] = answered[c],
               \A c \in Conns : reader'[c] = "reading" => reader[c] = "reading" \/ DOMAIN produced[c] = {}
        PROVE  \A c \in Conns : StreamInv(c)'
    <2> SUFFICES ASSUME NEW c \in Conns PROVE StreamInv(c)'
      OBVIOUS
    <2>1. /\ setup' = setup /\ wire'[c] = wire[c] /\ queue'[c] = queue[c] /\ produced'[c] = produced[c]
          /\ taken'[c] = taken[c] /\ answered'[c] = answered[c]
          /\ reader'[c] = "reading" => reader[c] = "reading" \/ DOMAIN produced[c] = {}
      BY <1>0
    <2> QED
      BY <1>t, <2>1, StreamStays
  <1>x. ASSUME NEW c \in Conns, UNCHANGED <<setup, answered>>, StreamInv(c)',
               \A d \in Conns \ {c} : /\ wire'[d] = wire[d] /\ queue'[d] = queue[d]
                                      /\ produced'[d] = produced[d] /\ taken'[d] = taken[d]
                                      /\ (reader'[d] = "reading" => reader[d] = "reading")
        PROVE  \A d \in Conns : StreamInv(d)'
    <2> SUFFICES ASSUME NEW d \in Conns, d # c PROVE StreamInv(d)'
      BY <1>x
    <2>1. /\ setup' = setup /\ wire'[d] = wire[d] /\ queue'[d] = queue[d] /\ produced'[d] = produced[d]
          /\ taken'[d] = taken[d] /\ answered'[d] = answered[d]
          /\ reader'[d] = "reading" => reader[d] = "reading" \/ DOMAIN produced[d] = {}
      BY <1>x
    <2> QED
      BY <1>t, <2>1, StreamStays
  <1>1. ASSUME NEW w \in Workers, WorkerStep(w) PROVE \A c \in Conns : StreamInv(c)'
    <2>1. ASSUME \/ Start(w) \/ Cancelled(w) \/ SendFn(w) \/ ConnectFails(w) \/ Announced(w)
                 \/ ResponseEnds(w) \/ LogAnswer(w) \/ Injected(w) \/ WindowEnds(w)
          PROVE  UNCHANGED <<setup, wire, queue, produced, taken, answered, reader>>
      BY <2>1 DEF Start, Cancelled, SendFn, ConnectFails, Announced, ResponseEnds, LogAnswer, Injected,
                  WindowEnds, conns
    <2>2. ASSUME Connected(w) PROVE \A c \in Conns : StreamInv(c)'
      <3>1. PICK c \in 1 .. setup.conns :
              /\ \A d \in Conns : sess[d] = "none" <=> d >= c
              /\ reader' = [reader EXCEPT ![c] = IF setup.udp THEN "none" ELSE "reading"]
              /\ UNCHANGED <<setup, wire, queue, produced, taken, answered>>
        BY <2>2 DEF Connected
      <3>2. c \in Conns
        BY <1>t, ForgeAssumption DEF TypesInv, Conns
      <3>3. DOMAIN produced[c] = {}
        <4>1. sess[c] = "none"
          BY <3>1, <3>2 DEF Conns
        <4>2. produced[c] = <<>>
          BY <1>t, <3>2, <4>1 DEF ConnInv
        <4>3. produced[c] \in Seq(Chunk)
          BY <1>t, <3>2 DEF TypesInv
        <4>4. Len(<<>>) = 0
          BY EmptySeq
        <4> QED
          BY <4>2, <4>3, <4>4, LenProperties
      <3> QED
        BY <1>0, <1>r, <3>1, <3>2, <3>3
    <2>3. ASSUME Drained(w) PROVE \A c \in Conns : StreamInv(c)'
      <3>1. /\ UNCHANGED reader \/ Close(worker[w].conn, "sender")
            /\ UNCHANGED <<setup, wire, queue, produced, taken, answered>> /\ worker[w].pc = "drain"
        BY <2>3 DEF Drained
      <3>2. worker[w].conn \in Conns
        BY <3>1 DEF IInv, TaskInv
      <3>3. \A d \in Conns : reader'[d] = "reading" => reader[d] = "reading"
        BY <1>t, <3>1, <3>2, CloseDoes
      <3> QED
        BY <1>0, <3>1, <3>3
    <2>4. ASSUME Collect(w) PROVE \A c \in Conns : StreamInv(c)'
      <3>0. PICK c \in Conns : c = worker[w].conn
        BY <2>4 DEF IInv, TaskInv, Collect
      <3>1. /\ UNCHANGED reader \/ Close(c, "sender")
            /\ queue[c] # <<>>
            /\ taken' = [taken EXCEPT ![c] = Append(@, Head(queue[c]))]
            /\ queue' = [queue EXCEPT ![c] = Tail(@)]
            /\ UNCHANGED <<setup, wire, produced, answered>>
        BY <2>4, <3>0 DEF Collect
      <3>3. \A d \in Conns : reader'[d] = "reading" => reader[d] = "reading"
        BY <1>t, <3>1, CloseDoes
      <3>4. StreamInv(c)'
        BY <1>t, <3>1, <3>3, ChunkTaken
      <3>5. \A d \in Conns \ {c} : queue'[d] = queue[d] /\ taken'[d] = taken[d]
        BY <1>t, <3>1 DEF TypesInv
      <3> QED
        BY <1>x, <3>1, <3>3, <3>4, <3>5
    <2> QED
      BY <1>0, <1>1, <2>1, <2>2, <2>3, <2>4 DEF WorkerStep, Proceeds
  <1>a. ASSUME NEW c \in Conns, wire[c] # <<>>,
               queue' = [queue EXCEPT ![c] = Append(@, Head(wire[c]))],
               produced' = [produced EXCEPT ![c] = Append(@, Head(wire[c]))],
               wire' = [wire EXCEPT ![c] = Tail(@)]
        PROVE  \A d \in Conns \ {c} : queue'[d] = queue[d] /\ produced'[d] = produced[d] /\ wire'[d] = wire[d]
    BY <1>a, <1>t, <1>s DEF TypesInv
  <1>2. ASSUME NEW c \in Conns, ReaderStep(c) PROVE \A d \in Conns : StreamInv(d)'
    <2>1. /\ reader[c] = "reading" /\ wire[c] # <<>>
          /\ queue' = [queue EXCEPT ![c] = Append(@, Head(wire[c]))]
          /\ produced' = [produced EXCEPT ![c] = Append(@, Head(wire[c]))]
          /\ wire' = [wire EXCEPT ![c] = Tail(@)]
          /\ UNCHANGED <<setup, answered, taken>>
          /\ \/ Head(wire[c]).kind = "data" /\ UNCHANGED reader
             \/ Close(c, "reader")
      BY <1>2 DEF ReaderStep
    <2>2. c \in open
      BY <1>t, <2>1 DEF ConnInv
    <2>3. /\ Head(wire[c]).kind # "data" => reader'[c] # "reading"
          /\ \A d \in Conns : reader'[d] = "reading" => reader[d] = "reading"
      BY <1>t, <2>1, <2>2, CloseDoes
    <2>4. StreamInv(c)'
      BY <1>t, <2>1, <2>3, ChunkArrives
    <2>5. \A d \in Conns \ {c} : queue'[d] = queue[d] /\ produced'[d] = produced[d] /\ wire'[d] = wire[d]
      BY <1>a, <2>1
    <2> QED
      BY <1>x, <2>1, <2>3, <2>4, <2>5
  <1>3. ASSUME NEW c \in Conns, ReaderEnds(c) PROVE \A d \in Conns : StreamInv(d)'
    <2>1. reader' = [reader EXCEPT ![c] = "done"]
          /\ UNCHANGED <<setup, wire, queue, produced, taken, answered>>
      BY <1>3 DEF ReaderEnds
    <2> QED
      BY <1>0, <1>r, <2>1
  <1>4. ASSUME NEW c \in Conns, DatagramReceived(c) PROVE \A d \in Conns : StreamInv(d)'
    <2>1. /\ setup.udp /\ wire[c] # <<>>
          /\ queue' = [queue EXCEPT ![c] = Append(@, Head(wire[c]))]
          /\ produced' = [produced EXCEPT ![c] = Append(@, Head(wire[c]))]
          /\ wire' = [wire EXCEPT ![c] = Tail(@)]
          /\ UNCHANGED <<setup, answered, taken, reader>>
      BY <1>4 DEF DatagramReceived
    <2>2. StreamInv(c)'
      BY <1>t, <2>1, ChunkArrives
    <2>3. \A d \in Conns \ {c} : queue'[d] = queue[d] /\ produced'[d] = produced[d] /\ wire'[d] = wire[d]
      BY <1>a, <2>1
    <2> QED
      BY <1>x, <2>1, <2>2, <2>3
  <1>5. ASSUME NEW c \in Conns, ServerCloses(c) PROVE \A d \in Conns : StreamInv(d)'
    <2>1. PICK e \in {EOF, ERR} : wire' = [wire EXCEPT ![c] = Append(@, e)]
      BY <1>5 DEF ServerCloses
    <2>2. UNCHANGED <<setup, queue, produced, taken, reader, answered>>
      BY <1>5 DEF ServerCloses
    <2>3. e \in Chunk /\ e.kind # "data"
      BY DEF EOF, ERR, Chunk
    <2>4. answered[c] \in Nat /\ answered'[c] = answered[c]
      BY <1>t, <1>s, <2>2 DEF TypesInv
    <2>5. StreamInv(c)'
      <3>1. answered'[c] \in Nat /\ answered[c] <= answered'[c]
        BY <2>4
      <3> QED
        BY <1>t, <2>1, <2>2, <2>3, <3>1, ServerSends
    <2>6. \A d \in Conns \ {c} : wire'[d] = wire[d]
      BY <1>t, <1>s, <2>1 DEF TypesInv
    <2> QED
      BY <1>x, <2>2, <2>5, <2>6
  <1>6. ASSUME NEW c \in Conns, Terminate(c) PROVE \A d \in Conns : StreamInv(d)'
    <2>1. Close(c, "operator") /\ UNCHANGED <<setup, wire, queue, produced, taken, answered>>
      BY <1>6 DEF Terminate
    <2>2. \A d \in Conns : reader'[d] = "reading" => reader[d] = "reading"
      BY <1>t, <2>1, CloseDoes
    <2> QED
      BY <1>0, <2>1, <2>2
  <1>7. ASSUME (\E c \in Conns : Delete(c)) \/ ProxySessionCloses
               \/ (\E kind \in {"run", "single"} : Click(kind)) \/ StopButton \/ UNCHANGED vars
        PROVE  \A d \in Conns : StreamInv(d)'
    <2>1. UNCHANGED <<setup, wire, queue, produced, taken, answered, reader>>
      BY <1>7 DEF Delete, ProxySessionCloses, Click, StopButton, vars, conns
    <2> QED
      BY <1>0, <2>1
  <1>8. ASSUME NEW s \in Sessions, ServerAnswers(s) PROVE \A d \in Conns : StreamInv(d)'
    <2>1. /\ answered' = [answered EXCEPT ![s] = @ + 1]
          /\ UNCHANGED <<setup, queue, produced, taken, reader>>
      BY <1>8 DEF ServerAnswers
    <2>2. answered \in [Sessions -> Nat]
      BY <1>t DEF TypesInv
    <2>3. CASE s = Proxy
      <3>1. UNCHANGED wire
        BY <1>8, <2>3 DEF ServerAnswers
      <3>2. \A c \in Conns : answered'[c] = answered[c]
        BY <1>s, <2>1, <2>2, <2>3
      <3> QED
        BY <1>0, <2>1, <3>1, <3>2
    <2>4. CASE s # Proxy
      <3>1. wire' = [wire EXCEPT ![s] = Append(@, Data(answered'[s]))] /\ s \in Conns
        BY <1>8, <2>4 DEF ServerAnswers, Sessions
      <3>2. answered'[s] \in Nat /\ answered[s] \in Nat /\ answered'[s] = answered[s] + 1
        BY <2>1, <2>2
      <3>3. PICK e \in Chunk : e = Data(answered'[s])
        BY <3>2 DEF Data, Chunk
      <3>4. e.req = answered'[s]
        BY <3>3 DEF Data
      <3>5. StreamInv(s)'
        <4>1. answered'[s] \in Nat /\ answered[s] <= answered'[s]
          BY <3>2
        <4>2. answered[s] < e.req /\ e.req <= answered'[s]
          BY <3>2, <3>4
        <4>3. wire' = [wire EXCEPT ![s] = Append(@, e)]
          BY <3>1, <3>3
        <4> QED
          BY <1>t, <2>1, <3>1, <4>1, <4>2, <4>3, ServerSends
      <3>6. ASSUME NEW d \in Conns, d # s PROVE StreamInv(d)'
        <4>1. wire'[d] = wire[d] /\ answered'[d] = answered[d]
          BY <1>t, <1>s, <2>1, <3>1, <3>6 DEF TypesInv
        <4> QED
          BY <1>t, <2>1, <4>1, StreamStays
      <3> QED
        BY <3>5, <3>6
    <2> QED
      BY <2>3, <2>4
  <1> QED
    BY <1>1, <1>2, <1>3, <1>4, <1>5, <1>6, <1>7, <1>8 DEF Next, ReaderOf

---------------------------------------------------------------------------
\* Tasks that forget what they hold, and chunks that are not answers, keep the
\* account of the answers.
LEMMA AnswersDropped ==
  ASSUME NEW t, NEW l, NEW h, NEW t1, NEW h1, AnswersKept(t, l, h),
         \A r : WasTaken(t, r) => WasTaken(t1, r),
         \A w \in Workers : h1[w] = h[w] \/ DOMAIN h1[w] = {}
  PROVE  AnswersKept(t1, l, h1)
  <1>1. /\ \A i \in Out(l) : WasTaken(t1, l[i].req)
        /\ \A i, j \in Out(l) : i # j => l[i].req # l[j].req
    BY DEF AnswersKept
  <1>2. ASSUME NEW w \in Workers, NEW k \in DOMAIN h1[w]
        PROVE  WasTaken(t1, h1[w][k]) /\ \A i \in Out(l) : l[i].req # h1[w][k]
    <2>1. h1[w] = h[w]
      BY <1>2
    <2> QED
      BY <1>2, <2>1 DEF AnswersKept
  <1>3. ASSUME NEW w \in Workers, NEW v \in Workers, NEW k \in DOMAIN h1[w], NEW m \in DOMAIN h1[v],
               w # v \/ k # m
        PROVE  h1[w][k] # h1[v][m]
    <2>1. h1[w] = h[w] /\ h1[v] = h[v]
      BY <1>3
    <2> QED
      BY <1>3, <2>1 DEF AnswersKept
  <1> QED
    BY <1>1, <1>2, <1>3 DEF AnswersKept

\* So does a log entry that is a request.
LEMMA RequestLogged ==
  ASSUME NEW t, NEW l \in Seq(Entry), NEW h, NEW e \in Entry, e.dir = "c2s", AnswersKept(t, l, h)
  PROVE  AnswersKept(t, Append(l, e), h)
  <1>1. /\ DOMAIN l = 1 .. Len(l) /\ Len(l) \in Nat /\ DOMAIN Append(l, e) = 1 .. Len(l) + 1
        /\ \A i \in DOMAIN l : Append(l, e)[i] = l[i]
        /\ Append(l, e)[Len(l) + 1] = e
    BY AppendFacts
  <1>2. Out(Append(l, e)) = Out(l) /\ \A i \in Out(l) : Append(l, e)[i] = l[i]
    <2>1. \A i \in DOMAIN Append(l, e) : i \in DOMAIN l \/ i = Len(l) + 1
      BY <1>1
    <2>2. DOMAIN l \subseteq DOMAIN Append(l, e)
      BY <1>1
    <2>3. e.dir # "s2c"
      OBVIOUS
    <2> QED
      BY <1>1, <2>1, <2>2, <2>3 DEF Out
  <1> DEFINE l1 == Append(l, e)
  <1> HIDE DEF l1
  <1>3. Out(l1) = Out(l) /\ \A i \in Out(l) : l1[i] = l[i]
    BY <1>2 DEF l1
  <1>4. /\ \A i \in Out(l1) : WasTaken(t, l1[i].req)
        /\ \A i, j \in Out(l1) : i # j => l1[i].req # l1[j].req
        /\ \A w \in Workers : \A k \in DOMAIN h[w] :
              WasTaken(t, h[w][k]) /\ \A i \in Out(l1) : l1[i].req # h[w][k]
    BY <1>3 DEF AnswersKept
  <1>5. AnswersKept(t, l1, h)
    BY <1>4 DEF AnswersKept
  <1> QED
    BY <1>5 DEF l1

\* A new answer goes from the queue to the task that takes it.
LEMMA AnswerTaken ==
  ASSUME NEW t \in Seq(Chunk), NEW l, NEW h \in [Workers -> Seq(Nat)], NEW r \in Nat, NEW w \in Workers,
         AnswersKept(t, l, h), ~WasTaken(t, r)
  PROVE  AnswersKept(Append(t, Data(r)), l, [h EXCEPT ![w] = Append(@, r)])
  <1> DEFINE t1 == Append(t, Data(r))
             h1 == [h EXCEPT ![w] = Append(@, r)]
             n == Len(h[w]) + 1
  <1>1. (\A q : WasTaken(t, q) => WasTaken(t1, q)) /\ WasTaken(t1, r)
    <2>1. Data(r) \in Chunk
      BY DEF Data, Chunk
    <2>2. /\ DOMAIN t = 1 .. Len(t) /\ Len(t) \in Nat /\ DOMAIN t1 = 1 .. Len(t) + 1
          /\ \A i \in DOMAIN t : t1[i] = t[i]
          /\ t1[Len(t) + 1] = Data(r)
      BY <2>1, AppendFacts
    <2>3. DOMAIN t \subseteq DOMAIN t1 /\ Len(t) + 1 \in DOMAIN t1
      BY <2>2
    <2> HIDE DEF t1
    <2> QED
      BY <2>2, <2>3 DEF WasTaken
  <1>2. /\ \A v \in Workers \ {w} : h1[v] = h[v]
        /\ n \notin DOMAIN h[w] /\ h1[w][n] = r
        /\ \A k \in DOMAIN h1[w] : k \in DOMAIN h[w] \/ k = n
        /\ \A k \in DOMAIN h[w] : h1[w][k] = h[w][k]
    <2>1. h[w] \in Seq(Nat) /\ h1[w] = Append(h[w], r)
      OBVIOUS
    <2>2. /\ DOMAIN h[w] = 1 .. Len(h[w]) /\ Len(h[w]) \in Nat
          /\ DOMAIN Append(h[w], r) = 1 .. Len(h[w]) + 1
          /\ \A i \in DOMAIN h[w] : Append(h[w], r)[i] = h[w][i]
          /\ Append(h[w], r)[Len(h[w]) + 1] = r
      BY <2>1, AppendFacts
    <2>3. \A v \in Workers \ {w} : h1[v] = h[v]
      OBVIOUS
    <2> QED
      BY <2>1, <2>2, <2>3
  <1> HIDE DEF t1, h1, n
  \* What a task holds now it held before, or it is the new answer.
  <1>3. ASSUME NEW v \in Workers, NEW k \in DOMAIN h1[v]
        PROVE  \/ k \in DOMAIN h[v] /\ h1[v][k] = h[v][k]
               \/ v = w /\ k = n /\ h1[v][k] = r
    BY <1>2, <1>3
  <1>4. /\ \A v \in Workers : \A k \in DOMAIN h[v] : h[v][k] # r
        /\ \A i \in Out(l) : l[i].req # r
    BY DEF AnswersKept
  <1>5. ASSUME NEW v \in Workers, NEW k \in DOMAIN h1[v]
        PROVE  WasTaken(t1, h1[v][k]) /\ \A i \in Out(l) : l[i].req # h1[v][k]
    <2>1. CASE k \in DOMAIN h[v] /\ h1[v][k] = h[v][k]
      BY <1>1, <2>1 DEF AnswersKept
    <2>2. CASE h1[v][k] = r
      BY <1>1, <1>4, <2>2
    <2> QED
      BY <1>3, <1>5, <2>1, <2>2
  <1>6. ASSUME NEW u \in Workers, NEW v \in Workers, NEW k \in DOMAIN h1[u], NEW m \in DOMAIN h1[v],
               u # v \/ k # m
        PROVE  h1[u][k] # h1[v][m]
    <2>1. CASE k \in DOMAIN h[u] /\ h1[u][k] = h[u][k] /\ m \in DOMAIN h[v] /\ h1[v][m] = h[v][m]
      BY <1>6, <2>1 DEF AnswersKept
    <2>2. CASE k \in DOMAIN h[u] /\ h1[u][k] = h[u][k] /\ h1[v][m] = r
      BY <1>4, <2>2
    <2>3. CASE h1[u][k] = r /\ m \in DOMAIN h[v] /\ h1[v][m] = h[v][m]
      BY <1>4, <2>3
    <2>4. CASE u = w /\ k = n /\ v = w /\ m = n
      BY <1>6, <2>4
    <2> QED
      BY <1>3, <1>6, <2>1, <2>2, <2>3, <2>4
  <1>7. /\ \A i \in Out(l) : WasTaken(t1, l[i].req)
        /\ \A i, j \in Out(l) : i # j => l[i].req # l[j].req
    BY <1>1 DEF AnswersKept
  <1>8. AnswersKept(t1, l, h1)
    BY <1>5, <1>6, <1>7 DEF AnswersKept
  <1> QED
    BY <1>8 DEF t1, h1

\* The first answer a task holds goes to the log.
LEMMA AnswerLogged ==
  ASSUME NEW t, NEW l \in Seq(Entry), NEW h \in [Workers -> Seq(Nat)], NEW w \in Workers, h[w] # <<>>,
         AnswersKept(t, l, h)
  PROVE  /\ AnswersKept(t, l, [h EXCEPT ![w] = Tail(@)])
         /\ AnswersKept(t, Append(l, [dir |-> "s2c", req |-> Head(h[w])]), [h EXCEPT ![w] = Tail(@)])
  <1> DEFINE e == [dir |-> "s2c", req |-> Head(h[w])]
             l1 == Append(l, e)
             h1 == [h EXCEPT ![w] = Tail(@)]
             n == Len(l) + 1
             at(v, k) == IF v = w THEN k + 1 ELSE k
  <1>1. /\ \A v \in Workers \ {w} : h1[v] = h[v]
        /\ 1 \in DOMAIN h[w] /\ Head(h[w]) = h[w][1] /\ Head(h[w]) \in Nat
        /\ \A k \in DOMAIN h1[w] : k + 1 \in DOMAIN h[w] /\ k + 1 # 1 /\ h1[w][k] = h[w][k + 1]
        /\ \A k, m \in DOMAIN h1[w] : k # m => k + 1 # m + 1
    <2>1. h[w] \in Seq(Nat) /\ h1[w] = Tail(h[w])
      OBVIOUS
    <2>2. /\ Len(h[w]) \in Nat /\ Len(h[w]) >= 1 /\ DOMAIN h[w] = 1 .. Len(h[w])
          /\ Head(h[w]) = h[w][1] /\ Head(h[w]) \in Nat
          /\ DOMAIN Tail(h[w]) = 1 .. Len(h[w]) - 1
          /\ \A i \in DOMAIN Tail(h[w]) : i + 1 \in DOMAIN h[w] /\ Tail(h[w])[i] = h[w][i + 1]
      BY <2>1, HeadFacts
    <2>3. \A v \in Workers \ {w} : h1[v] = h[v]
      OBVIOUS
    <2> QED
      BY <2>1, <2>2, <2>3, SMTT(30)
  <1>2. /\ \A i \in Out(l1) : (i \in Out(l) /\ l1[i] = l[i]) \/ (i = n /\ l1[i].req = h[w][1])
        /\ n \notin Out(l)
    <2>1. e \in Entry
      BY <1>1 DEF Entry
    <2>2. /\ DOMAIN l = 1 .. Len(l) /\ Len(l) \in Nat /\ DOMAIN l1 = 1 .. Len(l) + 1
          /\ \A i \in DOMAIN l : l1[i] = l[i]
          /\ l1[Len(l) + 1] = e
      BY <2>1, AppendFacts
    <2>3. \A i \in DOMAIN l1 : i \in DOMAIN l \/ i = n
      BY <2>2
    <2>4. e.req = h[w][1]
      BY <1>1
    <2>5. n \notin DOMAIN l
      BY <2>2
    <2> HIDE DEF l1, e
    <2>6. l1[n] = e
      BY <2>2
    <2> HIDE DEF n
    <2>7. ASSUME NEW i \in Out(l1)
          PROVE  (i \in Out(l) /\ l1[i] = l[i]) \/ (i = n /\ l1[i].req = h[w][1])
      <3>1. i \in DOMAIN l1 /\ l1[i].dir = "s2c"
        BY <2>7 DEF Out
      <3>2. CASE i \in DOMAIN l
        BY <2>2, <3>1, <3>2 DEF Out
      <3>3. CASE i = n
        BY <2>4, <2>6, <3>3
      <3> QED
        BY <2>3, <3>1, <3>2, <3>3
    <2> QED
      BY <2>5, <2>7 DEF Out
  <1> HIDE DEF h1, l1, n, e
  <1>3. ASSUME NEW v \in Workers, NEW k \in DOMAIN h1[v]
        PROVE  /\ at(v, k) \in DOMAIN h[v] /\ h1[v][k] = h[v][at(v, k)]
               /\ v # w \/ at(v, k) # 1
    BY <1>1, <1>3
  <1>4. ASSUME NEW v \in Workers, NEW k \in DOMAIN h1[v]
        PROVE  /\ WasTaken(t, h1[v][k]) /\ h1[v][k] # h[w][1]
               /\ \A i \in Out(l) : l[i].req # h1[v][k]
    <2>1. PICK j \in DOMAIN h[v] : j = at(v, k) /\ h1[v][k] = h[v][j] /\ (v # w \/ j # 1)
      BY <1>3, <1>4
    <2> QED
      BY <1>1, <2>1 DEF AnswersKept
  <1>5. ASSUME NEW u \in Workers, NEW v \in Workers, NEW k \in DOMAIN h1[u], NEW m \in DOMAIN h1[v],
               u # v \/ k # m
        PROVE  h1[u][k] # h1[v][m]
    <2>1. PICK j \in DOMAIN h[u] : h1[u][k] = h[u][j] /\ j = at(u, k)
      BY <1>3, <1>5
    <2>2. PICK i \in DOMAIN h[v] : h1[v][m] = h[v][i] /\ i = at(v, m)
      BY <1>3, <1>5
    <2>3. u # v \/ j # i
      BY <1>1, <1>5, <2>1, <2>2
    <2> QED
      BY <2>1, <2>2, <2>3 DEF AnswersKept
  <1>6. AnswersKept(t, l, h1)
    <2>1. /\ \A i \in Out(l) : WasTaken(t, l[i].req)
          /\ \A i, j \in Out(l) : i # j => l[i].req # l[j].req
      BY DEF AnswersKept
    <2> QED
      BY <1>4, <1>5, <2>1 DEF AnswersKept
  <1>7. AnswersKept(t, l1, h1)
    <2>1. ASSUME NEW i \in Out(l1) PROVE WasTaken(t, l1[i].req)
      BY <1>1, <1>2, <2>1 DEF AnswersKept
    <2>2. \A i \in Out(l) : l[i].req # h[w][1]
      BY <1>1 DEF AnswersKept
    <2>3. ASSUME NEW i \in Out(l1), NEW j \in Out(l1), i # j PROVE l1[i].req # l1[j].req
      <3>1. CASE i \in Out(l) /\ l1[i] = l[i] /\ j \in Out(l) /\ l1[j] = l[j]
        BY <2>3, <3>1 DEF AnswersKept
      <3>2. CASE i \in Out(l) /\ l1[i] = l[i] /\ l1[j].req = h[w][1]
        BY <2>2, <3>2
      <3>3. CASE l1[i].req = h[w][1] /\ j \in Out(l) /\ l1[j] = l[j]
        BY <2>2, <3>3
      <3>4. CASE i = n /\ j = n
        BY <2>3, <3>4
      <3> QED
        BY <1>2, <2>3, <3>1, <3>2, <3>3, <3>4
    <2>4. ASSUME NEW v \in Workers, NEW k \in DOMAIN h1[v], NEW i \in Out(l1)
          PROVE  l1[i].req # h1[v][k]
      BY <1>2, <1>4, <2>4
    <2> QED
      BY <1>4, <1>5, <2>1, <2>3, <2>4 DEF AnswersKept
  <1> QED
    BY <1>6, <1>7 DEF h1, l1, e

\* A step after which every task holds of a connection what it held, or nothing.
LEMMA LogStays ==
  ASSUME NEW c \in Conns, LogInv(c), log'[c] = log[c],
         \A r : WasTaken(taken[c], r) => WasTaken(taken'[c], r),
         \A w \in Workers : \/ worker'[w].conn = worker[w].conn /\ worker'[w].got = worker[w].got
                            \/ worker'[w].got = <<>>
  PROVE  LogInv(c)'
  <1>1. \A w \in Workers : Held(c)'[w] = Held(c)[w] \/ DOMAIN Held(c)'[w] = {}
    <2>1. DOMAIN <<>> = {}
      OBVIOUS
    <2>2. ASSUME NEW w \in Workers PROVE Held(c)'[w] = Held(c)[w] \/ Held(c)'[w] = <<>>
      BY DEF Held
    <2> QED
      BY <2>1, <2>2
  <1>2. AnswersKept(taken[c], log[c], Held(c))
    BY DEF LogInv
  <1>3. AnswersKept(taken'[c], log[c], Held(c)')
    BY <1>1, <1>2, AnswersDropped
  <1> QED
    BY <1>3 DEF LogInv

(* Every step keeps the log: an answer in it was taken from its connection. *)
LEMMA LogStep ==
  ASSUME IInv, [Next]_vars
  PROVE  \A c \in Conns : LogInv(c)'
  <1>t. /\ TypesInv /\ \A c \in Conns : StreamInv(c) /\ LogInv(c)
        /\ \A w \in Workers : TaskInv(w)
    BY DEF IInv
  <1>s. Conns \subseteq Sessions /\ Proxy \in Sessions /\ Proxy \notin Conns
    BY DEF Sessions, Proxy, Conns
  <1>l. DOMAIN log = Sessions /\ \A c \in Conns : log[c] \in Seq(Entry)
    BY <1>t DEF TypesInv
  <1>0. ASSUME UNCHANGED taken, \A c \in Conns : log'[c] = log[c],
               \A w \in Workers : \/ worker'[w].conn = worker[w].conn /\ worker'[w].got = worker[w].got
                                  \/ worker'[w].got = <<>>
        PROVE  \A c \in Conns : LogInv(c)'
    BY <1>t, <1>0, LogStays
  <1>h. ASSUME NEW c \in Conns
        PROVE  /\ Held(c) \in [Workers -> Seq(Nat)]
               /\ \A w \in Workers : worker[w].conn = c => Held(c)[w] = worker[w].got
    <2>1. ASSUME NEW w \in Workers PROVE worker[w].got \in Seq(Nat) /\ <<>> \in Seq(Nat)
      BY <1>t, TaskFields, EmptySeq
    <2> QED
      BY <2>1 DEF Held
  <1>1. ASSUME NEW w \in Workers, WorkerStep(w) PROVE \A c \in Conns : LogInv(c)'
    <2>m. /\ MovesTo(w, worker'[w])
          /\ \/ worker'[w].got = <<>>
             \/ worker'[w].got = worker[w].got /\ worker'[w].conn = worker[w].conn
             \/ Collect(w) \/ LogAnswer(w)
      BY <1>1, TaskStepMoves DEF TaskMoves
    <2>o. \A v \in Workers \ {w} : worker'[v] = worker[v]
      BY <2>m DEF MovesTo
    <2>d. ASSUME ~Collect(w), ~LogAnswer(w)
          PROVE  \A v \in Workers : \/ worker'[v].conn = worker[v].conn /\ worker'[v].got = worker[v].got
                                    \/ worker'[v].got = <<>>
      BY <2>m, <2>o, <2>d
    <2>1. ASSUME NEW c \in Conns, c = worker[w].conn,
                 NEW r \in Seq(Nat), worker' = [worker EXCEPT ![w].got = r]
          PROVE  /\ Held(c)' = [Held(c) EXCEPT ![w] = r]
                 /\ \A d \in Conns \ {c} : Held(d)' = Held(d)
      <3>1. /\ worker'[w].got = r /\ worker'[w].conn = c
            /\ \A v \in Workers \ {w} : worker'[v] = worker[v]
        <4>1. worker \in [Workers -> Task] /\ worker[w] \in Task
          BY <1>t DEF TypesInv
        <4>2. worker'[w] = [worker[w] EXCEPT !.got = r]
          BY <2>1, <4>1
        <4> QED
          BY <2>1, <4>1, <4>2 DEF Task
      <3> QED
        <4> DEFINE had(d, v) == IF worker[v].conn = d THEN worker[v].got ELSE <<>>
                   has(d, v) == IF worker'[v].conn = d THEN worker'[v].got ELSE <<>>
        <4>1. \A v \in Workers : has(c, v) = IF v = w THEN r ELSE had(c, v)
          BY <3>1
        <4>2. \A d \in Conns \ {c} : \A v \in Workers : has(d, v) = had(d, v)
          BY <2>1, <3>1
        <4>3. \A d \in Conns : /\ Held(d) = [v \in Workers |-> had(d, v)]
                               /\ Held(d)' = [v \in Workers |-> has(d, v)]
          BY DEF Held
        <4> HIDE DEF had, has
        <4>4. Held(c)' = [v \in Workers |-> IF v = w THEN r ELSE had(c, v)]
          BY <4>1, <4>3
        <4>5. Held(c)' = [Held(c) EXCEPT ![w] = r]
          BY <4>3, <4>4
        <4> QED
          BY <4>2, <4>3, <4>5
    <2>2. CASE ~Collect(w) /\ ~LogAnswer(w) /\ ~ResponseEnds(w)
      <3>1. \/ Start(w) \/ Cancelled(w) \/ SendFn(w) \/ Connected(w) \/ ConnectFails(w) \/ Announced(w)
            \/ Drained(w) \/ Injected(w) \/ WindowEnds(w)
        BY <1>1, <2>2 DEF WorkerStep, Proceeds
      <3>2. UNCHANGED taken
        BY <3>1 DEF Start, Cancelled, SendFn, Connected, ConnectFails, Announced, Drained, Injected,
                    WindowEnds, conns
      <3>3. \/ UNCHANGED log
            \/ log' = [log EXCEPT ![Proxy] =
                          Append(@, [dir |-> Frames(w)[worker[w].frame], req |-> 0])]
        BY <3>1 DEF Start, Cancelled, SendFn, Connected, ConnectFails, Announced, Drained, Injected,
                    WindowEnds
      <3>4. \A c \in Conns : log'[c] = log[c]
        BY <1>l, <1>s, <3>3
      <3> QED
        BY <1>0, <2>2, <2>d, <3>2, <3>4
    <2>3. ASSUME ResponseEnds(w), ~Collect(w), ~LogAnswer(w) PROVE \A c \in Conns : LogInv(c)'
      <3>1. PICK c \in Conns : c = worker[w].conn
        BY <1>t, <2>3 DEF ResponseEnds, TaskInv
      <3> DEFINE e == [dir |-> "c2s", req |-> worker[w].req]
      <3>2. /\ UNCHANGED taken
            /\ UNCHANGED log \/ log' = [log EXCEPT ![c] = Append(@, e)]
        BY <2>3, <3>1 DEF ResponseEnds, conns
      <3>3. CASE UNCHANGED log
        BY <1>0, <2>3, <2>d, <3>2, <3>3
      <3>4. CASE log' = [log EXCEPT ![c] = Append(@, e)]
        <4>1. e \in Entry /\ e.dir = "c2s"
          BY <1>t, TaskFields DEF Entry
        <4>2. log'[c] = Append(log[c], e) /\ \A d \in Conns \ {c} : log'[d] = log[d]
          BY <1>l, <1>s, <3>4
        <4>3. AnswersKept(taken[c], Append(log[c], e), Held(c))
          <5>1. log[c] \in Seq(Entry) /\ AnswersKept(taken[c], log[c], Held(c))
            BY <1>t, <1>l DEF LogInv
          <5> HIDE DEF e
          <5> QED
            BY <4>1, <5>1, RequestLogged
        <4>4. \A v \in Workers : Held(c)'[v] = Held(c)[v] \/ DOMAIN Held(c)'[v] = {}
          <5>1. DOMAIN <<>> = {}
            OBVIOUS
          <5>2. ASSUME NEW v \in Workers PROVE Held(c)'[v] = Held(c)[v] \/ Held(c)'[v] = <<>>
            BY <2>3, <2>d DEF Held
          <5> QED
            BY <5>1, <5>2
        <4>5. AnswersKept(taken[c], Append(log[c], e), Held(c)')
          BY <4>3, <4>4, AnswersDropped
        <4>6. LogInv(c)'
          BY <3>2, <4>2, <4>5 DEF LogInv
        <4>7. ASSUME NEW d \in Conns, d # c PROVE LogInv(d)'
          BY <1>t, <2>3, <2>d, <3>2, <4>2, <4>7, LogStays
        <4> QED
          BY <4>6, <4>7
      <3> QED
        BY <3>2, <3>3, <3>4
    <2>4. ASSUME Collect(w) PROVE \A c \in Conns : LogInv(c)'
      <3>1. PICK c \in Conns : c = worker[w].conn
        BY <1>t, <2>4 DEF Collect, TaskInv
      <3> DEFINE h == Head(queue[c])
      <3>2. /\ queue[c] # <<>> /\ UNCHANGED log
            /\ taken' = [taken EXCEPT ![c] = Append(@, h)]
            /\ IF h.kind = "data"
               THEN worker' = [worker EXCEPT ![w] = [worker[w] EXCEPT !.got = Append(@, h.req)]]
               ELSE worker' = [worker EXCEPT ![w] = [worker[w] EXCEPT !.pc = "callback"]]
        BY <2>4, <3>1 DEF Collect, Goto
      <3>3. /\ queue[c] \in Seq(Chunk) /\ taken[c] \in Seq(Chunk) /\ taken \in [Conns -> Seq(Chunk)]
            /\ worker \in [Workers -> Task] /\ worker[w] \in Task /\ worker[w].got \in Seq(Nat)
        BY <1>t, TaskFields DEF TypesInv
      <3>4. h \in Chunk
        BY <3>2, <3>3, HeadFacts
      <3>5. taken'[c] = Append(taken[c], h) /\ \A d \in Conns \ {c} : taken'[d] = taken[d]
        BY <3>2, <3>3
      <3>6. CASE h.kind = "data"
        <4>1. PICK r \in Nat : r = h.req /\ h = Data(r)
          <5>1. h.req \in Nat /\ h = [kind |-> "data", req |-> h.req]
            BY <3>4, <3>6 DEF Chunk
          <5> QED
            BY <5>1 DEF Data
        <4>2. ~WasTaken(taken[c], r)
          <5>1. SUFFICES ASSUME NEW k \in DOMAIN taken[c], taken[c][k] = Data(r) PROVE FALSE
            BY DEF WasTaken
          <5> DEFINE p == produced[c]
          <5>2. p = taken[c] \o queue[c] /\ Answers(p, answered[c])
            BY <1>t DEF StreamInv
          <5>3. /\ Len(taken[c]) + 1 \in DOMAIN (taken[c] \o queue[c])
                /\ (taken[c] \o queue[c])[Len(taken[c]) + 1] = h
                /\ \A i \in DOMAIN taken[c] : /\ i \in DOMAIN (taken[c] \o queue[c])
                                              /\ (taken[c] \o queue[c])[i] = taken[c][i]
                /\ DOMAIN taken[c] = 1 .. Len(taken[c]) /\ Len(taken[c]) \in Nat
            BY <3>2, <3>3, ConcatFacts
          <5>4. /\ k \in DOMAIN p /\ p[k] = Data(r)
                /\ Len(taken[c]) + 1 \in DOMAIN p /\ p[Len(taken[c]) + 1] = Data(r)
                /\ k # Len(taken[c]) + 1
            <6>1. k # Len(taken[c]) + 1
              BY <5>1, <5>3
            <6>2. k \in DOMAIN (taken[c] \o queue[c]) /\ (taken[c] \o queue[c])[k] = Data(r)
              BY <5>1, <5>3
            <6>3. (taken[c] \o queue[c])[Len(taken[c]) + 1] = Data(r)
              BY <4>1, <5>3
            <6>4. p = taken[c] \o queue[c]
              BY <5>2
            <6> HIDE DEF p, h
            <6> QED
              BY <5>3, <6>1, <6>2, <6>3, <6>4
          <5>5. Data(r).kind = "data" /\ Data(r).req = r
            BY DEF Data
          <5> HIDE DEF p
          <5> QED
            BY <5>2, <5>4, <5>5 DEF Answers
        <4>3. worker' = [worker EXCEPT ![w].got = Append(worker[w].got, r)]
          BY <3>2, <3>6, <4>1
        <4>4. Append(worker[w].got, r) \in Seq(Nat)
          BY <3>3, AppendFacts
        <4>5. /\ Held(c)' = [Held(c) EXCEPT ![w] = Append(worker[w].got, r)]
              /\ \A d \in Conns \ {c} : Held(d)' = Held(d)
          BY <2>1, <3>1, <4>3, <4>4
        <4>6. Held(c)' = [Held(c) EXCEPT ![w] = Append(@, r)]
          BY <1>h, <3>1, <4>5
        <4>7. AnswersKept(Append(taken[c], Data(r)), log[c], [Held(c) EXCEPT ![w] = Append(@, r)])
          <5>1. AnswersKept(taken[c], log[c], Held(c))
            BY <1>t DEF LogInv
          <5>2. Held(c) \in [Workers -> Seq(Nat)]
            BY <1>h
          <5> QED
            BY <3>3, <4>2, <5>1, <5>2, AnswerTaken
        <4>8. LogInv(c)'
          BY <3>2, <3>5, <4>1, <4>6, <4>7 DEF LogInv
        <4>9. \A d \in Conns \ {c} : LogInv(d)'
          BY <1>t, <3>2, <3>5, <4>5 DEF LogInv
        <4> QED
          BY <4>8, <4>9
      <3>7. CASE h.kind # "data"
        <4>1. worker'[w] = [worker[w] EXCEPT !.pc = "callback"]
          BY <3>2, <3>3, <3>7
        <4>2. worker'[w].conn = worker[w].conn /\ worker'[w].got = worker[w].got
          BY <3>3, <4>1 DEF Task
        <4>3. \A v \in Workers : worker'[v].conn = worker[v].conn /\ worker'[v].got = worker[v].got
          BY <2>o, <4>2
        <4>4. \A d \in Conns : \A r : WasTaken(taken[d], r) => WasTaken(taken'[d], r)
          <5>1. \A i \in DOMAIN taken[c] : i \in DOMAIN taken'[c] /\ taken'[c][i] = taken[c][i]
            <6>1. /\ DOMAIN taken[c] = 1 .. Len(taken[c]) /\ Len(taken[c]) \in Nat
                  /\ DOMAIN Append(taken[c], h) = 1 .. Len(taken[c]) + 1
                  /\ \A i \in DOMAIN taken[c] : Append(taken[c], h)[i] = taken[c][i]
              BY <3>3, <3>4, AppendFacts
            <6> QED
              BY <3>5, <6>1
          <5>2. \A r : WasTaken(taken[c], r) => WasTaken(taken'[c], r)
            BY <5>1 DEF WasTaken
          <5> QED
            BY <3>5, <5>2
        <4> QED
          BY <1>t, <3>2, <4>3, <4>4, LogStays
      <3> QED
        BY <3>6, <3>7
    <2>5. ASSUME LogAnswer(w) PROVE \A c \in Conns : LogInv(c)'
      <3>1. PICK c \in Conns : c = worker[w].conn
        BY <1>t, <2>5 DEF LogAnswer, TaskInv
      <3>2. UNCHANGED taken
        BY <2>5 DEF LogAnswer, conns
      <3>3. CASE worker[w].got = <<>>
        <4>1. NextFrame(w, worker[w].cell) /\ UNCHANGED log
          BY <2>5, <3>3 DEF LogAnswer
        <4>2. worker'[w].got = <<>>
          BY <1>t, <4>1, TaskFields, NextFrameDoes
        <4> QED
          BY <1>0, <2>o, <3>2, <4>1, <4>2
      <3>4. CASE worker[w].got # <<>>
        <4> DEFINE e == [dir |-> "s2c", req |-> Head(worker[w].got)]
        <4>1. /\ UNCHANGED log \/ log' = [log EXCEPT ![c] = Append(@, e)]
              /\ worker' = [worker EXCEPT ![w] = [worker[w] EXCEPT !.got = Tail(@)]]
          BY <2>5, <3>1, <3>4 DEF LogAnswer, Goto
        <4>2. worker[w].got \in Seq(Nat) /\ Tail(worker[w].got) \in Seq(Nat)
          BY <1>t, <3>4, TaskFields, HeadFacts
        <4>3. worker' = [worker EXCEPT ![w].got = Tail(worker[w].got)]
          BY <4>1
        <4>4. /\ Held(c)' = [Held(c) EXCEPT ![w] = Tail(worker[w].got)]
              /\ \A d \in Conns \ {c} : Held(d)' = Held(d)
          BY <2>1, <3>1, <4>2, <4>3
        <4>5. Held(c)' = [Held(c) EXCEPT ![w] = Tail(@)] /\ Held(c)[w] = worker[w].got
          BY <1>h, <3>1, <4>4
        <4>6. /\ AnswersKept(taken[c], log[c], [Held(c) EXCEPT ![w] = Tail(@)])
              /\ AnswersKept(taken[c], Append(log[c], e), [Held(c) EXCEPT ![w] = Tail(@)])
          <5>1. AnswersKept(taken[c], log[c], Held(c)) /\ log[c] \in Seq(Entry)
            BY <1>t, <1>l DEF LogInv
          <5>2. Held(c) \in [Workers -> Seq(Nat)] /\ Held(c)[w] # <<>>
            BY <1>h, <3>4, <4>5
          <5>3. e = [dir |-> "s2c", req |-> Head(Held(c)[w])]
            BY <4>5
          <5> HIDE DEF e
          <5> QED
            BY <5>1, <5>2, <5>3, AnswerLogged
        <4>7. \/ log'[c] = log[c]
              \/ log'[c] = Append(log[c], e)
          BY <1>l, <1>s, <4>1
        <4>8. \A d \in Conns \ {c} : log'[d] = log[d]
          BY <1>l, <1>s, <4>1
        <4>9. LogInv(c)'
          <5> HIDE DEF e
          <5> QED
            BY <3>2, <4>5, <4>6, <4>7 DEF LogInv
        <4>10. \A d \in Conns \ {c} : LogInv(d)'
          BY <1>t, <3>2, <4>4, <4>8 DEF LogInv
        <4> QED
          BY <4>9, <4>10
      <3> QED
        BY <3>3, <3>4
    <2> QED
      BY <2>2, <2>3, <2>4, <2>5
  <1>2. ASSUME NEW c \in Conns, \/ ReaderStep(c) \/ ReaderEnds(c) \/ DatagramReceived(c)
                                \/ ServerCloses(c) \/ Terminate(c) \/ Delete(c)
        PROVE  UNCHANGED <<worker, taken, log>>
    BY <1>2 DEF ReaderStep, ReaderEnds, DatagramReceived, ServerCloses, Terminate, Delete
  <1>3. ASSUME NEW s \in Sessions, ServerAnswers(s)
        PROVE  UNCHANGED <<worker, taken>> /\ \A c \in Conns : log'[c] = log[c]
    <2>1. /\ UNCHANGED <<worker, taken>>
          /\ \/ UNCHANGED log
             \/ log' = [log EXCEPT ![Proxy] = Append(@, [dir |-> "s2c", req |-> answered'[s]])]
      BY <1>3 DEF ServerAnswers
    <2> QED
      BY <1>l, <1>s, <2>1
  <1>4. ASSUME ProxySessionCloses \/ StopButton \/ UNCHANGED vars
        PROVE  UNCHANGED <<worker, taken, log>>
    BY <1>4 DEF ProxySessionCloses, StopButton, vars, conns
  <1>5. ASSUME NEW kind \in {"run", "single"}, Click(kind)
        PROVE  /\ UNCHANGED <<taken, log>>
               /\ \A w \in Workers : \/ worker'[w].conn = worker[w].conn /\ worker'[w].got = worker[w].got
                                     \/ worker'[w].got = <<>>
    <2>1. /\ UNCHANGED <<taken, log>>
          /\ worker' = [v \in Workers |->
                IF v = clicks' THEN [Idle EXCEPT !.kind = kind, !.pc = "start"]
                ELSE [worker[v] EXCEPT !.cancelled = @ \/ ~Finished(v)]]
      BY <1>5 DEF Click, conns
    <2>2. ASSUME NEW w \in Workers
          PROVE  \/ worker'[w].conn = worker[w].conn /\ worker'[w].got = worker[w].got
                 \/ worker'[w].got = <<>>
      <3>1. CASE w = clicks'
        BY <2>1, <3>1 DEF Idle
      <3>2. CASE w # clicks'
        <4>1. worker[w] \in Task
          BY <1>t, TaskFields
        <4> QED
          BY <2>1, <3>2, <4>1 DEF Task
      <3> QED
        BY <3>1, <3>2
    <2> QED
      BY <2>1, <2>2
  <1> QED
    BY <1>0, <1>1, <1>2, <1>3, <1>4, <1>5 DEF Next, ReaderOf

---------------------------------------------------------------------------
\* The inductive invariant holds of every state of every behaviour.
LEMMA IInvHolds == Spec => []IInv
  <1>1. Init => IInv
    <2> SUFFICES ASSUME Init PROVE IInv
      OBVIOUS
    <2>e. /\ <<>> \in Seq(Chunk) /\ <<>> \in Seq(Entry) /\ <<>> \in Seq(Nat)
          /\ DOMAIN <<>> = {} /\ <<>> \o <<>> = <<>>
      BY EmptySeq, ConcatEmptySeq
    <2>s. Conns \subseteq Sessions /\ Proxy \in Sessions /\ Proxy \notin Conns /\ "none" \in PCs
      BY DEF Sessions, Proxy, Conns, PCs
    <2>1. Idle \in Task
      BY <2>e, <2>s DEF Idle, Task
    <2>2. TypesInv
      <3>1. /\ setup \in Setups /\ open \subseteq Conns
            /\ sess \in [Sessions -> {"none", "active", "closed", "deleted"}]
            /\ reader \in [Conns -> {"none", "reading", "closing", "done"}]
        BY DEF Init
      <3>2. /\ wire \in [Sessions -> Seq(Chunk)] /\ queue \in [Conns -> Seq(Chunk)]
            /\ produced \in [Conns -> Seq(Chunk)] /\ taken \in [Conns -> Seq(Chunk)]
            /\ DOMAIN log = Sessions /\ \A c \in Conns : log[c] \in Seq(Entry)
        BY <2>e, <2>s DEF Init
      <3>3. /\ asked \in [Sessions -> Nat] /\ answered \in [Sessions -> Nat] /\ closes \in [Conns -> Nat]
            /\ running \in BOOLEAN /\ ops \in Nat /\ clicks \in 0 .. MaxClicks
        <4>1. MaxClicks \in Nat /\ clicks = 0 /\ ops = 0 /\ running = FALSE
          BY ForgeAssumption DEF Init
        <4>2. /\ asked = [s \in Sessions |-> 0] /\ answered = [s \in Sessions |-> 0]
              /\ closes = [c \in Conns |-> 0]
          BY DEF Init
        <4>3. asked \in [Sessions -> Nat] /\ answered \in [Sessions -> Nat] /\ closes \in [Conns -> Nat]
          BY <4>2
        <4>4. ops \in Nat /\ clicks \in 0 .. MaxClicks
          BY <4>1
        <4>5. running \in BOOLEAN
          BY <4>1
        <4> QED
          BY <4>3, <4>4, <4>5
      <3>4. source \in Sessions \cup {NoSession}
        BY <2>s DEF Init
      <3>5. worker \in [Workers -> Task]
        BY <2>1 DEF Init
      <3> QED
        BY <3>1, <3>2, <3>3, <3>4, <3>5 DEF TypesInv
    <2>3. RunInv /\ \A w \in Workers : TaskInv(w)
      <3>1. \A w \in Workers : worker[w].pc = "none" /\ worker[w].got = <<>>
        BY DEF Init, Idle
      <3>2. ~running
        BY DEF Init
      <3> QED
        BY <3>1, <3>2 DEF RunInv, TaskInv
    <2>4. ASSUME NEW c \in Conns PROVE ConnInv(c) /\ StreamInv(c) /\ LogInv(c)
      <3>1. /\ sess[c] = "none" /\ open = {} /\ closes[c] = 0 /\ produced[c] = <<>> /\ reader[c] = "none"
            /\ taken[c] = <<>> /\ queue[c] = <<>> /\ wire[c] = <<>> /\ log[c] = <<>>
            /\ \A w \in Workers : worker[w].got = <<>>
        BY <2>s DEF Init, Idle
      <3>2. ConnInv(c)
        BY <3>1 DEF ConnInv
      <3>3. StreamInv(c)
        BY <2>e, <3>1 DEF StreamInv, EndsLast, Answers, Apart
      <3>4. LogInv(c)
        <4>1. Out(log[c]) = {}
          BY <2>e, <3>1 DEF Out
        <4>2. \A w \in Workers : DOMAIN Held(c)[w] = {}
          BY <2>e, <3>1 DEF Held
        <4> QED
          BY <4>1, <4>2 DEF LogInv, AnswersKept
      <3> QED
        BY <3>2, <3>3, <3>4
    <2> QED
      BY <2>2, <2>3, <2>4 DEF IInv
  <1>2. IInv /\ [Next]_vars => IInv'
    <2> SUFFICES ASSUME IInv, [Next]_vars PROVE IInv'
      OBVIOUS
    <2>1. TypesInv'
      BY TypesStep
    <2>2. (\A w \in Workers : TaskInv(w)') /\ RunInv'
      BY TasksStep
    <2>3. \A c \in Conns : ConnInv(c)'
      BY ConnStep
    <2>4. \A c \in Conns : StreamInv(c)'
      BY StreamStep
    <2>5. \A c \in Conns : LogInv(c)'
      BY LogStep
    <2> QED
      BY <2>1, <2>2, <2>3, <2>4, <2>5 DEF IInv
  <1> QED
    BY <1>1, <1>2, PTL DEF Spec

(* The registry is right about every connection, the close callback runs   *)
(* once whoever closes first, and the flag of the tab is backed by a run   *)
(* (forge/engine.py:652, ui/tabs/forge.py:1187).                           *)
THEOREM StatusIsAlwaysTrue == Spec => []StatusIsTrue
  <1>1. IInv => StatusIsTrue
    <2> SUFFICES ASSUME IInv PROVE StatusIsTrue
      OBVIOUS
    <2>1. RegistryAgrees
      BY DEF IInv, ConnInv, RegistryAgrees
    <2>2. RunningIsBacked
      BY DEF IInv, RunInv, Backs, RunningIsBacked
    <2> QED
      BY <2>1, <2>2 DEF StatusIsTrue
  <1> QED
    BY <1>1, IInvHolds, PTL

(* Chunks reach the senders once and in order, nothing follows the end of  *)
(* a TCP stream, and no answer is logged that was not taken, or twice,     *)
(* with any number of sends on the connection (forge/engine.py:703).       *)
THEOREM ChunksStayInOrder == Spec => []ChunksInOrder
  <1>1. IInv => ChunksInOrder
    <2> SUFFICES ASSUME IInv, NEW c \in Conns
                 PROVE  /\ produced[c] = taken[c] \o queue[c]
                        /\ \A i \in 1 .. Len(produced[c]) - 1 : produced[c][i].kind # "data" => setup.udp
                        /\ \A i, j \in Logged(c) : i # j => log[c][i].req # log[c][j].req
                        /\ \A i \in Logged(c) : \E k \in DOMAIN taken[c] : taken[c][k] = Data(log[c][i].req)
      BY DEF ChunksInOrder
    <2>1. StreamInv(c) /\ LogInv(c) /\ produced[c] \in Seq(Chunk)
      BY DEF IInv, TypesInv
    <2>2. ASSUME NEW i \in 1 .. Len(produced[c]) - 1, produced[c][i].kind # "data", ~setup.udp
          PROVE  FALSE
      <3>1. i \in DOMAIN produced[c] /\ i # Len(produced[c])
        BY <2>1, LenProperties
      <3> QED
        BY <2>1, <2>2, <3>1 DEF StreamInv, EndsLast
    <2>3. Logged(c) = Out(log[c])
      BY DEF Logged, Out
    <2>4. /\ \A i \in Logged(c) : WasTaken(taken[c], log[c][i].req)
          /\ \A i, j \in Logged(c) : i # j => log[c][i].req # log[c][j].req
      BY <2>1, <2>3 DEF LogInv, AnswersKept
    <2> QED
      BY <2>1, <2>2, <2>4 DEF StreamInv, WasTaken
  <1> QED
    BY <1>1, IInvHolds, PTL

(* A request is only written to a connection that is still open, whatever  *)
(* was checked before the last await (api.py:1442, 966).                   *)
THEOREM WritesGoToOpenConnections == Spec => WritesAreOpen
  <1>1. IInv /\ [Next]_vars => [\A c \in Conns : asked'[c] # asked[c] => c \in open]_vars
    <2> SUFFICES ASSUME IInv, Next PROVE \A c \in Conns : asked'[c] # asked[c] => c \in open
      BY DEF vars, conns
    <2>t. TypesInv
      BY DEF IInv
    <2>s. Proxy \notin Conns /\ asked \in [Sessions -> Nat] /\ Proxy \in Sessions /\ Conns \subseteq Sessions
          /\ open \subseteq Conns
      BY <2>t DEF Sessions, Proxy, Conns, TypesInv
    <2>1. ASSUME NEW w \in Workers, SendFn(w)
          PROVE  \A c \in Conns : asked'[c] # asked[c] => c \in open
      <3> DEFINE cell == IF Active(worker[w].cell) THEN worker[w].cell ELSE NoSession
      <3>1. \/ UNCHANGED asked
            \/ cell \in open /\ BeginSend(w, cell, cell)
            \/ asked' = [asked EXCEPT ![Proxy] = IF Frames(w)[worker[w].frame] = "c2s" THEN @ + 1 ELSE @]
        BY <2>1 DEF SendFn
      <3>2. CASE cell \in open /\ BeginSend(w, cell, cell)
        <4>1. cell \in Conns /\ asked' = [asked EXCEPT ![cell] = @ + 1]
          BY <2>s, <3>2 DEF BeginSend
        <4> HIDE DEF cell
        <4> QED
          BY <2>s, <3>2, <4>1
      <3> QED
        BY <2>s, <3>1, <3>2
    <2>2. ASSUME NEW w \in Workers, Announced(w)
          PROVE  \A c \in Conns : asked'[c] # asked[c] => c \in open
      <3>1. \/ UNCHANGED asked
            \/ worker[w].conn \in open /\ asked' = [asked EXCEPT ![worker[w].conn] = @ + 1]
        BY <2>2 DEF Announced, BeginSend
      <3> QED
        BY <2>s, <3>1
    <2>3. ASSUME NEW w \in Workers, WorkerStep(w), ~SendFn(w), ~Announced(w) PROVE UNCHANGED asked
      BY <2>3 DEF WorkerStep, Proceeds, Start, Cancelled, Connected, ConnectFails, Drained, Collect, ResponseEnds,
                  LogAnswer, Injected, WindowEnds, conns
    <2>4. ASSUME NEW c \in Conns, \/ ReaderStep(c) \/ ReaderEnds(c) \/ DatagramReceived(c)
                                  \/ ServerCloses(c) \/ Terminate(c) \/ Delete(c)
          PROVE  UNCHANGED asked
      BY <2>4 DEF ReaderStep, ReaderEnds, DatagramReceived, ServerCloses, Terminate, Delete
    <2>5. ASSUME \/ \E s \in Sessions : ServerAnswers(s)
                 \/ ProxySessionCloses \/ StopButton
                 \/ \E kind \in {"run", "single"} : Click(kind)
          PROVE  UNCHANGED asked
      BY <2>5 DEF ServerAnswers, ProxySessionCloses, StopButton, Click, conns
    <2> QED
      BY <2>1, <2>2, <2>3, <2>4, <2>5 DEF Next, ReaderOf
  <1> QED
    BY <1>1, IInvHolds, PTL DEF Spec, WritesAreOpen
==============================================================================
