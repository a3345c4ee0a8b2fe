---------------------------- MODULE SyscallPipe ----------------------------
(***************************************************************************)
(* The anonymous pipe of one running sandboxed process, both ends of which *)
(* NTOS2NDCreateProcess keeps in the hosting process, and everyone who     *)
(* reads or writes it: NTOS2NDWorkerThread of kernel.c, which reads kernel *)
(* messages, NTOS2NDSandboxWorker of sandbox.c, which reads the larger     *)
(* sandbox messages, and the host's calls that send and receive either.    *)
(* The pipe carries bytes, not messages: a message is a run of cells whose *)
(* first cell is its header.                                               *)
(***************************************************************************)
EXTENDS Naturals, Sequences

CONSTANTS
  Protocols,  \* the message formats in use: "kernel", "sandbox"
  Size,       \* cells of a message of each format (sizeof)
  Capacity,   \* cells the pipe holds (NTOS2ND_PIPE_BUFFER_SIZE)
  MaxSent     \* bound on the requests sent in a behaviour

ASSUME SyscallPipeAssumption ==
  /\ Protocols \subseteq {"kernel", "sandbox"}
  /\ Size \in [Protocols -> Nat \ {0}]
  /\ Capacity \in Nat /\ MaxSent \in Nat

Requests == 1..MaxSent

VARIABLES
  pipe,      \* the bytes in the pipe
  worker,    \* the thread that serves each format, and the message it holds
  sent,      \* requests sent so far
  inFlight,  \* cells the host sent and has not received back
  overrun,   \* history: the host had more in flight than the pipe holds
  served,    \* how often each request was handled (counted to 2)
  received   \* what the host received: [msg, kind]

vars == <<pipe, worker, sent, inFlight, overrun, served, received>>

Kinds == {"request", "response"}
Cell  == [msg : Requests, kind : Kinds, part : Nat \ {0}]

Message(m, p) == [i \in 1..Size[p] |-> [msg |-> m, kind |-> "request", part |-> i]]

\* Cells that make up one whole message, header first.
Whole(cells) ==
  /\ cells # <<>> /\ cells[1].part = 1
  /\ \A i \in DOMAIN cells : cells[i].msg = cells[1].msg /\ cells[i].part = i

\* ReadFile takes what is there, up to the length asked for.
Got(n) == IF Len(pipe) < n THEN Len(pipe) ELSE n

Reading == [pc |-> "read", cells |-> <<>>]

-----------------------------------------------------------------------------
(***************************************************************************)
(* NTOS2NDSendIPCMessage and NTOS2NDSendSandboxMessage wait in WriteFile   *)
(* until the message fits.                                                 *)
(***************************************************************************)
Send(p) ==
  /\ sent < MaxSent /\ sent' = sent + 1
  /\ Len(pipe) + Size[p] <= Capacity
  /\ pipe' = pipe \o Message(sent + 1, p)
  /\ inFlight' = inFlight + Size[p]
  /\ overrun' = (overrun \/ inFlight' > Capacity)
  /\ UNCHANGED <<worker, served, received>>

\* NTOS2NDReceiveIPCMessage and NTOS2NDReceiveSandboxMessage read the same
\* end as the worker; they take a short read for a message.
Receive(p) ==
  LET n == Got(Size[p]) IN
  /\ pipe # <<>>
  /\ received' = received \cup {[msg |-> pipe[1].msg, kind |-> pipe[1].kind]}
  /\ pipe' = SubSeq(pipe, n + 1, Len(pipe))
  /\ inFlight' = inFlight - n
  /\ UNCHANGED <<worker, sent, overrun, served>>

-----------------------------------------------------------------------------
(***************************************************************************)
(* NTOS2NDWorkerThread and NTOS2NDSandboxWorker.                           *)
(***************************************************************************)
\* A mutant of ReadMessage: the number of bytes read is not checked.
ReadMessageAnyLength(p) ==
  LET n == Got(Size[p]) IN
  /\ worker[p].pc = "read" /\ pipe # <<>>
  /\ \E k \in 1..n :
       /\ worker' = [worker EXCEPT ![p] = [pc |-> "serve", cells |-> SubSeq(pipe, 1, k)]]
       /\ pipe' = SubSeq(pipe, k + 1, Len(pipe))
  /\ UNCHANGED <<sent, inFlight, overrun, served, received>>

\* A read shorter than a message is dropped and the loop goes on.
ReadMessage(p) ==
  LET n == Got(Size[p]) IN
  /\ worker[p].pc = "read" /\ pipe # <<>>
  /\ worker' = IF n = Size[p]
                 THEN [worker EXCEPT ![p] = [pc |-> "serve", cells |-> SubSeq(pipe, 1, n)]]
                 ELSE worker
  /\ pipe' = SubSeq(pipe, n + 1, Len(pipe))
  /\ UNCHANGED <<sent, inFlight, overrun, served, received>>

\* A mutant of Serve: a message that was handled before is dropped.
ServeOnlyOnce(p) ==
  LET m == worker[p].cells[1].msg IN
  /\ worker[p].pc = "serve"
  /\ served' = [served EXCEPT ![m] = IF @ < 2 THEN @ + 1 ELSE 2]
  /\ worker' = IF served[m] = 0 THEN [worker EXCEPT ![p].pc = "reply"]
               ELSE [worker EXCEPT ![p] = Reading]
  /\ UNCHANGED <<pipe, sent, inFlight, overrun, received>>

\* HandleSyscall (or DispatchSyscall) runs the system call whose number is in
\* the header, whatever MessageType says.
Serve(p) ==
  /\ worker[p].pc = "serve"
  /\ served' = [served EXCEPT ![worker[p].cells[1].msg] = IF @ < 2 THEN @ + 1 ELSE 2]
  /\ worker' = [worker EXCEPT ![p].pc = "reply"]
  /\ UNCHANGED <<pipe, sent, inFlight, overrun, received>>

\* A mutant of Reply: the answer overtakes what is in the pipe.
ReplyInFront(p) ==
  /\ worker[p].pc = "reply"
  /\ Len(pipe) + Size[p] <= Capacity
  /\ pipe' = [i \in DOMAIN worker[p].cells |->
               [worker[p].cells[i] EXCEPT !.kind = "response"]] \o pipe
  /\ worker' = [worker EXCEPT ![p] = Reading]
  /\ UNCHANGED <<sent, inFlight, overrun, served, received>>

\* A mutant of Reply: the status follows the answer in a cell of its own.
ReplyLonger(p) ==
  LET answer == [i \in DOMAIN worker[p].cells |->
                  [worker[p].cells[i] EXCEPT !.kind = "response"]]
  IN
  /\ worker[p].pc = "reply"
  /\ Len(pipe) + Size[p] <= Capacity
  /\ pipe' = pipe \o Append(answer, answer[1])
  /\ worker' = [worker EXCEPT ![p] = Reading]
  /\ UNCHANGED <<sent, inFlight, overrun, served, received>>

\* The answer is written to the write end of the same pipe: WriteFile waits
\* until it fits.
Reply(p) ==
  /\ worker[p].pc = "reply"
  /\ Len(pipe) + Size[p] <= Capacity
  /\ pipe' = pipe \o [i \in DOMAIN worker[p].cells |->
                        [worker[p].cells[i] EXCEPT !.kind = "response"]]
  /\ worker' = [worker EXCEPT ![p] = Reading]
  /\ UNCHANGED <<sent, inFlight, overrun, served, received>>

-----------------------------------------------------------------------------
Init ==
  /\ pipe = <<>>
  /\ worker = [p \in Protocols |-> Reading]
  /\ sent = 0 /\ inFlight = 0 /\ overrun = FALSE
  /\ served = [m \in Requests |-> 0]
  /\ received = {}

Work(p) == ReadMessage(p) \/ Serve(p) \/ Reply(p)

Next == \E p \in Protocols : Send(p) \/ Receive(p) \/ Work(p)

Spec == Init /\ [][Next]_vars

\* The workers are threads the operating system schedules; nobody makes the
\* host send or receive.
FairSpec == Spec /\ \A p \in Protocols : WF_vars(Work(p))

-----------------------------------------------------------------------------
\* The pipe, the workers and the counters have their types.
TypeOK ==
  /\ pipe \in Seq(Cell)
  /\ worker \in [Protocols -> [pc : {"read", "serve", "reply"}, cells : Seq(Cell)]]
  /\ \A p \in Protocols :
       Len(worker[p].cells) = IF worker[p].pc = "read" THEN 0 ELSE Size[p]
  /\ sent \in 0..MaxSent /\ inFlight \in Nat /\ overrun \in BOOLEAN
  /\ served \in [Requests -> 0..2]
  /\ received \subseteq [msg : Requests, kind : Kinds]

\* What a worker handles is a whole message with its header in front: one
\* format in use, however workers and host interleave their reads and writes.
ServesWholeMessages ==
  \A p \in Protocols : worker[p].pc # "read" => Whole(worker[p].cells)

\* The worker is the only reader of the pipe it writes to, and nothing in the
\* code limits what a host sends: a worker that wants to answer finds room as
\* long as the host never had more in flight than the pipe holds.
RoomToReply ==
  ~overrun =>
    \A p \in Protocols : worker[p].pc = "reply" => Len(pipe) + Size[p] <= Capacity

\* Each request is in exactly one place - in the pipe, in a worker's hands or
\* with the host - from the moment it is sent: none is lost or doubled.
OnePlace ==
  \A m \in Requests :
    LET inPipe == {i \in DOMAIN pipe : pipe[i].msg = m /\ pipe[i].part = 1}
        inHand == {p \in Protocols : worker[p].cells # <<>> /\ worker[p].cells[1].msg = m}
        atHost == {r \in received : r.msg = m}
    IN  /\ m > sent => inPipe = {} /\ inHand = {} /\ atHost = {}
        /\ m <= sent =>
             /\ inPipe # {} \/ inHand # {} \/ atHost # {}
             /\ \A i, j \in inPipe : i = j
             /\ ~(inPipe # {} /\ inHand # {})
             /\ atHost # {} => inPipe = {} /\ inHand = {}

\* Every request is handled in the end, unless the host reads it first, or had
\* more in flight than the pipe holds: then the worker may wait for itself, and
\* the requests behind its answer with it.
ServedInTheEnd ==
  \A m \in Requests :
    sent >= m ~> \/ served[m] > 0
                 \/ [msg |-> m, kind |-> "request"] \in received
                 \/ overrun

\* A request is handled once: what the worker writes is the response, sent
\* "back" to whoever asked.
ServedOnce == \A m \in Requests : served[m] < 2
=============================================================================
