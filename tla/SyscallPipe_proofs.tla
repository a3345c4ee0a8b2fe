------------------------- MODULE SyscallPipe_proofs -------------------------
(***************************************************************************)
(* What the pipe guarantees for any message sizes, any capacity and any    *)
(* number of requests.  With both message formats in use at once: until    *)
(* the host has more in flight than the pipe holds, no worker waits for    *)
(* itself.  With one format: workers handle whole messages, and no request *)
(* is lost or doubled.                                                     *)
(***************************************************************************)
EXTENDS SyscallPipe, SequenceTheorems, TLAPS

\* Cells in the hands of each worker, and of both.
Held == [p \in {"kernel", "sandbox"} |-> IF p \in Protocols THEN Len(worker[p].cells) ELSE 0]

InHand == Held["kernel"] + Held["sandbox"]

\* Everything in the pipe and in the workers' hands is in flight (short reads
\* may have dropped the rest), and overrun remembers more than the pipe holds.
Credit == Len(pipe) + InHand <= inFlight /\ (~overrun => inFlight <= Capacity)

PipeInv == TypeOK /\ Credit

\* A function on 1..n is a sequence of length n.
LEMMA FunctionIsSeq ==
  ASSUME NEW S, NEW n \in Nat, NEW f \in [1..n -> S]
  PROVE  f \in Seq(S) /\ Len(f) = n
<1>1. f \in Seq(S)
  BY SeqDef
<1>2. DOMAIN f = 1..n /\ DOMAIN f = 1..Len(f) /\ Len(f) \in Nat
  BY <1>1, LenProperties
<1> QED
  BY <1>1, <1>2

LEMMA HeldType ==
  ASSUME TypeOK
  PROVE  /\ Held \in [{"kernel", "sandbox"} -> Nat] /\ InHand \in Nat
         /\ Len(pipe) \in Nat /\ inFlight \in Nat /\ Capacity \in Nat
<1>1. ASSUME NEW p \in Protocols PROVE Len(worker[p].cells) \in Nat
  <2>1. worker[p].cells \in Seq(Cell)
    BY DEF TypeOK
  <2> QED
    BY <2>1, LenProperties
<1>2. Held \in [{"kernel", "sandbox"} -> Nat]
  BY <1>1 DEF Held
<1>3. InHand \in Nat
  BY <1>2 DEF InHand
<1> QED
  BY <1>2, <1>3, SyscallPipeAssumption DEF TypeOK

\* A step of worker p changes what p holds and nothing else.
LEMMA HeldChanges ==
  ASSUME TypeOK, NEW p \in Protocols, NEW k \in Nat, Len(worker'[p].cells) = k,
         \A q \in Protocols \ {p} : worker'[q] = worker[q]
  PROVE  InHand' = InHand - Len(worker[p].cells) + k
<1>1. p \in {"kernel", "sandbox"} /\ Held \in [{"kernel", "sandbox"} -> Nat]
  BY SyscallPipeAssumption, HeldType
<1>2. Held' = [Held EXCEPT ![p] = k]
  BY <1>1 DEF Held
<1>3. Held[p] = Len(worker[p].cells)
  BY <1>1 DEF Held
<1> HIDE DEF Held
<1>4. CASE p = "kernel"
  BY <1>1, <1>2, <1>3, <1>4 DEF InHand
<1>5. CASE p = "sandbox"
  BY <1>1, <1>2, <1>3, <1>5 DEF InHand
<1> QED
  BY <1>1, <1>4, <1>5

\* What a read takes and leaves.
LEMMA ReadSplits ==
  ASSUME pipe \in Seq(Cell), NEW n \in Nat, n <= Len(pipe)
  PROVE  /\ SubSeq(pipe, 1, n) \in Seq(Cell) /\ Len(SubSeq(pipe, 1, n)) = n
         /\ SubSeq(pipe, n + 1, Len(pipe)) \in Seq(Cell)
         /\ Len(SubSeq(pipe, n + 1, Len(pipe))) = Len(pipe) - n
<1>1. Len(pipe) \in Nat /\ \A i \in 1..Len(pipe) : pipe[i] \in Cell
  OBVIOUS
<1>2. SubSeq(pipe, 1, n) \in Seq(Cell) /\ Len(SubSeq(pipe, 1, n)) = n
  BY <1>1
<1>3. SubSeq(pipe, n + 1, Len(pipe)) \in Seq(Cell)
  BY <1>1
<1>4. Len(SubSeq(pipe, n + 1, Len(pipe))) = Len(pipe) - n
  BY <1>1
<1> QED
  BY <1>2, <1>3, <1>4

\* A read asks for a positive length and gets no more than there is.
LEMMA GotBounds ==
  ASSUME pipe \in Seq(Cell), NEW p \in Protocols
  PROVE  /\ Size[p] \in Nat \ {0} /\ Got(Size[p]) \in Nat
         /\ Got(Size[p]) <= Len(pipe) /\ Got(Size[p]) <= Size[p]
<1>1. Size[p] \in Nat \ {0}
  BY SyscallPipeAssumption
<1>2. Len(pipe) \in Nat
  OBVIOUS
<1> QED
  BY <1>1, <1>2 DEF Got

LEMMA SendStep == ASSUME PipeInv, NEW p \in Protocols, Send(p) PROVE PipeInv'
<1> USE DEF PipeInv
<1>1. Size[p] \in Nat \ {0} /\ MaxSent \in Nat /\ Capacity \in Nat
  BY SyscallPipeAssumption
<1>2. sent + 1 \in Requests /\ sent' \in 0..MaxSent
  BY <1>1 DEF TypeOK, Send, Requests
<1>3. Message(sent + 1, p) \in Seq(Cell) /\ Len(Message(sent + 1, p)) = Size[p]
  <2>1. Message(sent + 1, p) \in [1..Size[p] -> Cell]
    BY <1>1, <1>2 DEF Message, Cell, Kinds
  <2> HIDE DEF Message
  <2> QED
    BY <1>1, <2>1, FunctionIsSeq
<1> HIDE DEF Message
<1>4. pipe' \in Seq(Cell) /\ Len(pipe') = Len(pipe) + Size[p]
  <2> DEFINE msg == Message(sent + 1, p)
  <2>1. pipe \in Seq(Cell) /\ pipe' = pipe \o msg
    BY DEF Send, TypeOK
  <2>2. msg \in Seq(Cell) /\ Len(msg) = Size[p]
    BY <1>3
  <2> HIDE DEF msg
  <2> QED
    BY <2>1, <2>2, ConcatProperties
<1>5. UNCHANGED <<worker, served, received>> /\ inFlight' = inFlight + Size[p]
  BY DEF Send
<1>6. overrun' = (overrun \/ inFlight' > Capacity) /\ overrun' \in BOOLEAN
  BY DEF Send
<1>7. TypeOK'
  BY <1>1, <1>2, <1>4, <1>5, <1>6, SMTT(30) DEF TypeOK
<1>8. InHand' = InHand
  BY <1>5 DEF InHand, Held
<1>9. InHand \in Nat /\ Len(pipe) \in Nat /\ inFlight \in Nat
  BY HeldType
<1>10. Len(pipe') + InHand' <= inFlight'
  BY <1>1, <1>4, <1>5, <1>8, <1>9 DEF Credit
<1>11. ~overrun' => inFlight' <= Capacity
  <2>1. ~overrun' => ~(inFlight' > Capacity)
    BY <1>6
  <2>2. inFlight' \in Nat /\ Capacity \in Nat
    BY <1>1, <1>5, <1>9
  <2> QED
    BY <2>1, <2>2
<1> QED
  BY <1>7, <1>10, <1>11 DEF Credit

LEMMA ReceiveStep == ASSUME PipeInv, NEW p \in Protocols, Receive(p) PROVE PipeInv'
<1> USE DEF PipeInv
<1> DEFINE n == Got(Size[p])
<1>1. n \in Nat /\ n <= Len(pipe)
  BY GotBounds DEF TypeOK
<1> HIDE DEF n
<1>2. pipe' \in Seq(Cell) /\ Len(pipe') = Len(pipe) - n
  BY <1>1, ReadSplits DEF Receive, n, TypeOK
<1>3. UNCHANGED <<worker, sent, overrun, served>> /\ inFlight' = inFlight - n
  BY DEF Receive, n
<1>4. InHand' = InHand
  BY <1>3 DEF InHand, Held
<1>5. InHand \in Nat /\ Len(pipe) \in Nat /\ inFlight \in Nat /\ Capacity \in Nat
  BY HeldType
<1>6. inFlight' \in Nat
  BY <1>1, <1>3, <1>5 DEF Credit
<1>7. received' \subseteq [msg : Requests, kind : Kinds]
  <2>1. pipe[1] \in Cell
    BY DEF Receive, TypeOK
  <2> QED
    BY <2>1 DEF Receive, TypeOK, Cell
<1>8. TypeOK'
  BY <1>2, <1>3, <1>6, <1>7 DEF TypeOK
<1> QED
  BY <1>1, <1>2, <1>3, <1>4, <1>5, <1>8 DEF Credit

LEMMA ReadStep == ASSUME PipeInv, NEW p \in Protocols, ReadMessage(p) PROVE PipeInv'
<1> USE DEF PipeInv
<1> DEFINE n == Got(Size[p])
<1>1. n \in Nat /\ n <= Len(pipe) /\ Size[p] \in Nat \ {0}
  BY GotBounds DEF TypeOK
<1> HIDE DEF n
<1>2. /\ pipe' \in Seq(Cell) /\ Len(pipe') = Len(pipe) - n
      /\ SubSeq(pipe, 1, n) \in Seq(Cell) /\ Len(SubSeq(pipe, 1, n)) = n
  BY <1>1, ReadSplits DEF ReadMessage, n, TypeOK
<1>3. UNCHANGED <<sent, inFlight, overrun, served, received>> /\ worker[p].pc = "read"
  BY DEF ReadMessage
<1>4. /\ Len(pipe) \in Nat /\ inFlight \in Nat /\ InHand \in Nat
      /\ worker \in [Protocols -> [pc : {"read", "serve", "reply"}, cells : Seq(Cell)]]
      /\ Len(worker[p].cells) = 0
  BY <1>3, HeldType DEF TypeOK
<1>5. CASE n = Size[p]
  <2>1. worker' = [worker EXCEPT ![p] = [pc |-> "serve", cells |-> SubSeq(pipe, 1, n)]]
    BY <1>5 DEF ReadMessage, n
  <2>2. /\ worker' \in [Protocols -> [pc : {"read", "serve", "reply"}, cells : Seq(Cell)]]
        /\ \A q \in Protocols : worker'[q] = IF q = p THEN [pc |-> "serve", cells |-> SubSeq(pipe, 1, n)]
                                             ELSE worker[q]
    BY <1>2, <1>4, <2>1
  <2>3. Len(worker'[p].cells) = n
    BY <1>2, <2>2
  <2>4. TypeOK'
    <3>1. \A q \in Protocols :
            Len(worker'[q].cells) = IF worker'[q].pc = "read" THEN 0 ELSE Size[q]
      <4> SUFFICES ASSUME NEW q \in Protocols
                   PROVE  Len(worker'[q].cells) = IF worker'[q].pc = "read" THEN 0 ELSE Size[q]
        OBVIOUS
      <4>1. CASE q = p
        BY <1>5, <2>2, <2>3, <4>1
      <4>2. CASE q # p
        <5>1. worker'[q] = worker[q]
          BY <2>2, <4>2
        <5> QED
          BY <5>1 DEF TypeOK
      <4> QED
        BY <4>1, <4>2
    <3> QED
      BY <1>2, <1>3, <2>2, <3>1 DEF TypeOK
  <2>5. InHand' = InHand + n
    <3>1. InHand' = InHand - Len(worker[p].cells) + n
      BY <1>1, <2>2, <2>3, HeldChanges
    <3> QED
      BY <1>1, <1>4, <3>1
  <2>6. Credit'
    BY <1>1, <1>2, <1>3, <1>4, <2>5 DEF Credit
  <2> QED
    BY <2>4, <2>6
<1>6. CASE n # Size[p]
  <2>1. worker' = worker
    BY <1>6 DEF ReadMessage, n
  <2>2. TypeOK'
    BY <1>2, <1>3, <2>1 DEF TypeOK
  <2>3. InHand' = InHand
    BY <2>1 DEF InHand, Held
  <2>4. Credit'
    BY <1>1, <1>2, <1>3, <1>4, <2>3 DEF Credit
  <2> QED
    BY <2>2, <2>4
<1> QED
  BY <1>5, <1>6

LEMMA ServeStep == ASSUME PipeInv, NEW p \in Protocols, Serve(p) PROVE PipeInv'
<1> USE DEF PipeInv
<1>1. /\ worker' = [worker EXCEPT ![p].pc = "reply"] /\ worker[p].pc = "serve"
      /\ worker \in [Protocols -> [pc : {"read", "serve", "reply"}, cells : Seq(Cell)]]
      /\ UNCHANGED <<pipe, sent, inFlight, overrun, received>>
  BY DEF Serve, TypeOK
<1>2. /\ worker' \in [Protocols -> [pc : {"read", "serve", "reply"}, cells : Seq(Cell)]]
      /\ \A q \in Protocols : /\ worker'[q].cells = worker[q].cells
                              /\ worker'[q].pc = IF q = p THEN "reply" ELSE worker[q].pc
  BY <1>1
<1>3. served' \in [Requests -> 0..2]
  <2> DEFINE m == worker[p].cells[1].msg
  <2>1. worker[p].cells \in Seq(Cell) /\ Len(worker[p].cells) \in Nat \ {0}
    BY <1>1, SyscallPipeAssumption DEF TypeOK
  <2>2. m \in Requests
    <3>1. worker[p].cells[1] \in Cell
      BY <2>1, ElementOfSeq
    <3> QED
      BY <3>1 DEF Cell
  <2>3. served' = [served EXCEPT ![m] = IF served[m] < 2 THEN served[m] + 1 ELSE 2]
    BY DEF Serve
  <2> HIDE DEF m
  <2>4. served[m] \in 0..2
    BY <2>2 DEF TypeOK
  <2>5. (IF served[m] < 2 THEN served[m] + 1 ELSE 2) \in 0..2
    BY <2>4
  <2> QED
    BY <2>2, <2>3, <2>5 DEF TypeOK
<1>4. TypeOK'
  BY <1>1, <1>2, <1>3 DEF TypeOK
<1>5. InHand' = InHand
  BY <1>2 DEF InHand, Held
<1>6. Credit'
  BY <1>1, <1>5 DEF Credit
<1> QED
  BY <1>4, <1>6

LEMMA ReplyStep == ASSUME PipeInv, NEW p \in Protocols, Reply(p) PROVE PipeInv'
<1> USE DEF PipeInv
<1> DEFINE answer == [i \in DOMAIN worker[p].cells |->
                        [worker[p].cells[i] EXCEPT !.kind = "response"]]
<1>1. /\ worker[p].cells \in Seq(Cell) /\ Len(worker[p].cells) = Size[p]
      /\ Size[p] \in Nat \ {0}
      /\ worker \in [Protocols -> [pc : {"read", "serve", "reply"}, cells : Seq(Cell)]]
  BY SyscallPipeAssumption DEF Reply, TypeOK
<1>2. answer \in Seq(Cell) /\ Len(answer) = Size[p]
  <2>1. /\ worker[p].cells \in [1..Size[p] -> Cell]
        /\ DOMAIN worker[p].cells = 1..Size[p]
    BY <1>1, LenProperties
  <2>2. \A x \in Cell : [x EXCEPT !.kind = "response"] \in Cell
    BY DEF Cell, Kinds
  <2>3. answer \in [1..Size[p] -> Cell]
    BY <2>1, <2>2
  <2> HIDE DEF answer
  <2> QED
    BY <1>1, <2>3, FunctionIsSeq
<1>3. /\ pipe' = pipe \o answer /\ worker' = [worker EXCEPT ![p] = Reading]
      /\ UNCHANGED <<sent, inFlight, overrun, served, received>>
  BY DEF Reply
<1> HIDE DEF answer
<1>4. pipe' \in Seq(Cell) /\ Len(pipe') = Len(pipe) + Size[p]
  <2>1. pipe \in Seq(Cell)
    BY DEF TypeOK
  <2> QED
    BY <1>2, <1>3, <2>1, ConcatProperties
<1>5. Reading \in [pc : {"read", "serve", "reply"}, cells : Seq(Cell)] /\ Len(Reading.cells) = 0
  BY EmptySeq DEF Reading
<1>6. /\ worker' \in [Protocols -> [pc : {"read", "serve", "reply"}, cells : Seq(Cell)]]
      /\ \A q \in Protocols : worker'[q] = IF q = p THEN Reading ELSE worker[q]
  BY <1>1, <1>3, <1>5
<1>7. TypeOK'
  BY <1>3, <1>4, <1>5, <1>6 DEF TypeOK, Reading
<1>8. InHand' = InHand - Size[p]
  <2>1. InHand' = InHand - Len(worker[p].cells) + 0
    BY <1>5, <1>6, HeldChanges
  <2> QED
    BY <1>1, <2>1, HeldType
<1>9. Credit'
  BY <1>1, <1>3, <1>4, <1>8, HeldType DEF Credit
<1> QED
  BY <1>7, <1>9

LEMMA PipeInvariant == Spec => []PipeInv
<1>1. Init => PipeInv
  <2> SUFFICES ASSUME Init PROVE TypeOK /\ Credit
    BY DEF PipeInv
  <2> USE SyscallPipeAssumption DEF Init
  <2>1. Reading \in [pc : {"read", "serve", "reply"}, cells : Seq(Cell)]
        /\ Reading.pc = "read" /\ Len(Reading.cells) = 0
    BY EmptySeq DEF Reading
  <2>2. pipe \in Seq(Cell) /\ Len(pipe) = 0 /\ overrun \in BOOLEAN
    BY EmptySeq
  <2>3. TypeOK
    BY <2>1, <2>2 DEF TypeOK
  <2>4. Credit
    <3>1. \A p \in Protocols : Len(worker[p].cells) = 0
      BY <2>1
    <3>2. Held["kernel"] = 0 /\ Held["sandbox"] = 0
      BY <3>1 DEF Held
    <3>3. InHand = 0
      BY <3>2 DEF InHand
    <3> QED
      BY <2>2, <3>3 DEF Credit
  <2> QED
    BY <2>3, <2>4
<1>2. PipeInv /\ [Next]_vars => PipeInv'
  <2>1. PipeInv /\ UNCHANGED vars => PipeInv'
    <3>1. TypeOK /\ UNCHANGED vars => TypeOK'
      BY DEF TypeOK, vars
    <3>2. UNCHANGED vars => InHand' = InHand
      BY DEF InHand, Held, vars
    <3>3. Credit /\ UNCHANGED vars => Credit'
      BY <3>2 DEF Credit, vars
    <3> QED
      BY <3>1, <3>3 DEF PipeInv
  <2> QED
    BY <2>1, SendStep, ReceiveStep, ReadStep, ServeStep, ReplyStep DEF Next, Work
<1> QED
  BY <1>1, <1>2, PTL DEF Spec

\* Type correctness of the pipe, with both message formats in use.
THEOREM PipeTypeCorrect == Spec => []TypeOK
  BY PipeInvariant, PTL DEF PipeInv

\* Until a host has more in flight than the pipe holds, no worker waits for room
\* that only the worker itself could make, for any sizes and both formats.
THEOREM AlwaysRoomToReply == Spec => []RoomToReply
<1>1. PipeInv => RoomToReply
  <2> SUFFICES ASSUME PipeInv, ~overrun, NEW p \in Protocols, worker[p].pc = "reply"
               PROVE  Len(pipe) + Size[p] <= Capacity
    BY DEF RoomToReply
  <2>1. Len(worker[p].cells) = Size[p] /\ Capacity \in Nat
    BY SyscallPipeAssumption DEF PipeInv, TypeOK
  <2>2. p \in {"kernel", "sandbox"} /\ Held[p] = Size[p]
    BY <2>1, SyscallPipeAssumption DEF Held
  <2>3. /\ Held \in [{"kernel", "sandbox"} -> Nat]
        /\ Len(pipe) \in Nat /\ inFlight \in Nat /\ Capacity \in Nat
    BY HeldType DEF PipeInv
  <2>4. Size[p] <= InHand
    BY <2>2, <2>3 DEF InHand
  <2>5. Len(pipe) + InHand <= inFlight /\ inFlight <= Capacity /\ InHand \in Nat
    BY HeldType DEF PipeInv, Credit
  <2> QED
    BY <2>1, <2>3, <2>4, <2>5, SyscallPipeAssumption
<1> QED
  BY <1>1, PipeInvariant, PTL

-----------------------------------------------------------------------------
(***************************************************************************)
(* What holds with one message format in use.  With two it does not: a     *)
(* kernel read takes the front of a sandbox message.                       *)
(***************************************************************************)
OneFormat == \E p : Protocols = {p}

\* Cells are whole messages of k cells, one after the other: each cell lies in a run of k
\* that counts its parts and carries one message.
Blocks(cells, k) ==
  \A i \in 1..Len(cells) : \E h \in 0..Len(cells) :
    /\ h < i /\ i <= h + k /\ h + k <= Len(cells)
    /\ \A l \in 1..Len(cells) : h < l /\ l <= h + k =>
         cells[l].part = l - h /\ cells[l].msg = cells[i].msg

\* One whole message of k cells.
Block(cells, k) == Len(cells) = k /\ \A j \in 1..k : cells[j].part = j /\ cells[j].msg = cells[1].msg

\* Where a request can be.
HeaderAt(i, m) == i \in 1..Len(pipe) /\ pipe[i].msg = m /\ pipe[i].part = 1
InPipe(m)      == \E i \in 1..Len(pipe) : HeaderAt(i, m)
WithWorker(p, m) == worker[p].pc # "read" /\ worker[p].cells[1].msg = m
AtHost(m)      == \E r \in received : r.msg = m

Places(p) ==
  \A m \in Requests :
    /\ InPipe(m) \/ WithWorker(p, m) \/ AtHost(m) <=> m <= sent
    /\ ~(InPipe(m) /\ WithWorker(p, m)) /\ ~(InPipe(m) /\ AtHost(m)) /\ ~(WithWorker(p, m) /\ AtHost(m))
    /\ \A i, j \in 1..Len(pipe) : HeaderAt(i, m) /\ HeaderAt(j, m) => i = j

WholeInv(p) ==
  /\ Blocks(pipe, Size[p])
  /\ worker[p].pc # "read" => Block(worker[p].cells, Size[p])

FormatInv(p) == TypeOK /\ WholeInv(p) /\ Places(p)

LEMMA CellFields ==
  ASSUME NEW q \in Seq(Cell)
  PROVE  /\ Len(q) \in Nat
         /\ \A i \in 1..Len(q) : q[i] \in Cell /\ q[i].part \in Nat \ {0} /\ q[i].msg \in Requests
<1>1. Len(q) \in Nat /\ \A i \in 1..Len(q) : q[i] \in Cell
  BY LenProperties, ElementOfSeq
<1> QED
  BY <1>1 DEF Cell

\* The front of whole messages is a whole message, and no later one begins inside it.
LEMMA FrontBlock ==
  ASSUME NEW q \in Seq(Cell), NEW k \in Nat \ {0}, Blocks(q, k), q # <<>>
  PROVE  /\ k <= Len(q)
         /\ \A l \in 1..k : q[l].part = l /\ q[l].msg = q[1].msg
         /\ \A i \in 1..Len(q) : i > k =>
              \E h \in 0..Len(q) :
                /\ k <= h /\ h < i /\ i <= h + k /\ h + k <= Len(q)
                /\ \A l \in 1..Len(q) : h < l /\ l <= h + k =>
                     q[l].part = l - h /\ q[l].msg = q[i].msg
<1>1. Len(q) \in Nat \ {0} /\ 1 \in 1..Len(q)
  BY CellFields, EmptySeq
<1>2. k <= Len(q) /\ \A l \in 1..k : q[l].part = l /\ q[l].msg = q[1].msg
  <2>1. PICK h \in 0..Len(q) :
           /\ h < 1 /\ h + k <= Len(q)
           /\ \A l \in 1..Len(q) : h < l /\ l <= h + k =>
                q[l].part = l - h /\ q[l].msg = q[1].msg
    BY <1>1 DEF Blocks
  <2>2. h = 0
    BY <1>1, <2>1
  <2> QED
    BY <1>1, <2>1, <2>2
<1>3. ASSUME NEW i \in 1..Len(q), i > k
      PROVE  \E h \in 0..Len(q) :
                /\ k <= h /\ h < i /\ i <= h + k /\ h + k <= Len(q)
                /\ \A l \in 1..Len(q) : h < l /\ l <= h + k =>
                     q[l].part = l - h /\ q[l].msg = q[i].msg
  <2>1. PICK h \in 0..Len(q) :
           /\ h < i /\ i <= h + k /\ h + k <= Len(q)
           /\ \A l \in 1..Len(q) : h < l /\ l <= h + k =>
                q[l].part = l - h /\ q[l].msg = q[i].msg
    BY DEF Blocks
  <2>2. h # 0
    BY <1>1, <1>3, <2>1
  <2>3. CASE h < k
    <3>1. k \in 1..Len(q) /\ k - h # k
      BY <1>1, <1>2, <2>2
    <3>2. q[k].part = k - h
      BY <1>1, <2>1, <2>3, <3>1
    <3>3. q[k].part = k
      BY <1>2
    <3> QED
      BY <3>1, <3>2, <3>3
  <2>4. k <= h
    BY <1>1, <2>1, <2>3
  <2> QED
    BY <2>1, <2>4
<1> QED
  BY <1>2, <1>3

\* Taking the front message leaves whole messages.
LEMMA DropFront ==
  ASSUME NEW q \in Seq(Cell), NEW k \in Nat \ {0}, Blocks(q, k), q # <<>>
  PROVE  /\ SubSeq(q, k + 1, Len(q)) \in Seq(Cell)
         /\ Len(SubSeq(q, k + 1, Len(q))) = Len(q) - k
         /\ Blocks(SubSeq(q, k + 1, Len(q)), k)
         /\ \A i \in 1..Len(SubSeq(q, k + 1, Len(q))) : SubSeq(q, k + 1, Len(q))[i] = q[k + i]
<1>0. PICK r : r = SubSeq(q, k + 1, Len(q))
  OBVIOUS
<1>1. Len(q) \in Nat /\ k <= Len(q)
  BY CellFields, FrontBlock
<1>2. r \in Seq(Cell) /\ Len(r) = Len(q) - k
  BY <1>0, <1>1
<1>3. \A i \in 1..Len(r) : r[i] = q[k + i]
  BY <1>0, <1>1, <1>2
<1>4. ASSUME NEW i \in 1..Len(r)
      PROVE  \E h \in 0..Len(r) :
               /\ h < i /\ i <= h + k /\ h + k <= Len(r)
               /\ \A l \in 1..Len(r) : h < l /\ l <= h + k =>
                    r[l].part = l - h /\ r[l].msg = r[i].msg
  <2>1. PICK m \in 1..Len(q) : m = k + i /\ r[i] = q[m] /\ m > k
    BY <1>1, <1>2, <1>3
  <2>2. PICK g \in 0..Len(q) :
           /\ k <= g /\ g < m /\ m <= g + k /\ g + k <= Len(q)
           /\ \A l \in 1..Len(q) : g < l /\ l <= g + k =>
                q[l].part = l - g /\ q[l].msg = q[m].msg
    BY <2>1, FrontBlock
  <2>3. PICK h \in 0..Len(r) : g = k + h
    <3>1. g - k \in 0..Len(r) /\ g = k + (g - k)
      BY <1>1, <1>2, <2>2
    <3> QED
      BY <3>1
  <2>4. h < i /\ i <= h + k /\ h + k <= Len(r)
    <3>1. i \in Nat /\ h \in Nat /\ g < k + i /\ k + i <= g + k /\ g + k <= Len(q)
      BY <1>1, <1>2, <2>1, <2>2, <2>3
    <3> QED
      BY <1>1, <1>2, <2>3, <3>1
  <2>5. ASSUME NEW l \in 1..Len(r), h < l, l <= h + k
        PROVE  r[l].part = l - h /\ r[l].msg = r[i].msg
    <3>1. PICK o \in 1..Len(q) : o = k + l /\ r[l] = q[o]
      BY <1>1, <1>2, <1>3
    <3>2. g < o /\ o <= g + k /\ o - g = l - h
      BY <1>1, <1>2, <2>3, <2>5, <3>1
    <3>3. q[o].part = o - g /\ q[o].msg = q[m].msg
      BY <2>2, <3>2
    <3> QED
      BY <2>1, <3>1, <3>2, <3>3
  <2> QED
    BY <2>4, <2>5
<1>5. Blocks(r, k)
  BY <1>4 DEF Blocks
<1> QED
  BY <1>0, <1>2, <1>3, <1>5

\* Adding a message at the end leaves whole messages.
LEMMA AddBack ==
  ASSUME NEW q \in Seq(Cell), NEW k \in Nat \ {0}, Blocks(q, k),
         NEW b \in Seq(Cell), Block(b, k)
  PROVE  /\ q \o b \in Seq(Cell) /\ Len(q \o b) = Len(q) + k /\ Blocks(q \o b, k)
         /\ \A i \in 1..Len(q) : (q \o b)[i] = q[i]
         /\ \A l \in 1..Len(q \o b) : Len(q) < l =>
              \E j \in 1..k : j = l - Len(q) /\ (q \o b)[l] = b[j]
<1>0. PICK r : r = q \o b
  OBVIOUS
<1>1. /\ Len(q) \in Nat /\ Len(b) = k /\ \A i \in 1..Len(q) : q[i].part \in Nat \ {0}
      /\ \A j \in 1..k : b[j].part = j /\ b[j].msg = b[1].msg
  BY CellFields DEF Block
<1>2. r \in Seq(Cell) /\ Len(r) = Len(q) + k
  BY <1>0, <1>1, ConcatProperties
<1>3. (\A i \in 1..Len(q) : r[i] = q[i]) /\ \A j \in 1..k : r[Len(q) + j] = b[j]
  <2>1. \A i \in 1..Len(q) : r[i] = q[i]
    BY <1>0, <1>1, ConcatProperties
  <2>2. ASSUME NEW j \in 1..k PROVE r[Len(q) + j] = b[j]
    BY <1>0, <1>1, ConcatProperties
  <2> QED
    BY <2>1, <2>2
<1>a. \A l \in 1..Len(r) : Len(q) < l => \E j \in 1..k : j = l - Len(q) /\ r[l] = b[j]
  <2> SUFFICES ASSUME NEW l \in 1..Len(r), Len(q) < l
               PROVE  \E j \in 1..k : j = l - Len(q) /\ r[l] = b[j]
    OBVIOUS
  <2>0. (l - Len(q)) \in 1..k /\ l = Len(q) + (l - Len(q))
    BY <1>1, <1>2
  <2>1. PICK j \in 1..k : j = l - Len(q) /\ l = Len(q) + j
    BY <2>0
  <2> QED
    BY <1>3, <2>1
<1>4. ASSUME NEW i \in 1..Len(r)
      PROVE  \E h \in 0..Len(r) :
               /\ h < i /\ i <= h + k /\ h + k <= Len(r)
               /\ \A l \in 1..Len(r) : h < l /\ l <= h + k =>
                    r[l].part = l - h /\ r[l].msg = r[i].msg
  <2>1. CASE i \in 1..Len(q)
    <3>1. PICK h \in 0..Len(q) :
             /\ h < i /\ i <= h + k /\ h + k <= Len(q)
             /\ \A l \in 1..Len(q) : h < l /\ l <= h + k =>
                  q[l].part = l - h /\ q[l].msg = q[i].msg
      BY <2>1 DEF Blocks
    <3>2. \A l \in 1..Len(r) : h < l /\ l <= h + k =>
             l \in 1..Len(q) /\ r[l] = q[l]
      BY <1>1, <1>2, <1>3, <3>1
    <3>3. r[i] = q[i] /\ h \in 0..Len(r) /\ h + k <= Len(r)
      BY <1>1, <1>2, <1>3, <2>1, <3>1
    <3>4. ASSUME NEW l \in 1..Len(r), h < l, l <= h + k
          PROVE  r[l].part = l - h /\ r[l].msg = r[i].msg
      <4>1. l \in 1..Len(q) /\ r[l] = q[l]
        BY <3>2, <3>4
      <4>2. q[l].part = l - h /\ q[l].msg = q[i].msg
        BY <3>1, <3>4, <4>1
      <4> QED
        BY <3>3, <4>1, <4>2
    <3> QED
      BY <3>1, <3>3, <3>4
  <2>2. CASE i \notin 1..Len(q)
    <3>1. \A l \in 1..Len(r) : Len(q) < l => \E j \in 1..k : j = l - Len(q) /\ r[l] = b[j]
      BY <1>a
    <3>2. Len(q) \in 0..Len(r) /\ Len(q) < i /\ i <= Len(q) + k /\ Len(q) + k <= Len(r)
      BY <1>1, <1>2, <2>2
    <3>3. r[i].msg = b[1].msg
      <4>1. PICK j \in 1..k : r[i] = b[j]
        BY <3>1, <3>2
      <4> QED
        BY <1>1, <4>1
    <3>4. ASSUME NEW l \in 1..Len(r), Len(q) < l
          PROVE  r[l].part = l - Len(q) /\ r[l].msg = r[i].msg
      <4>1. PICK j \in 1..k : j = l - Len(q) /\ r[l] = b[j]
        BY <3>1, <3>4
      <4>2. b[j].part = j /\ b[j].msg = b[1].msg
        BY <1>1
      <4> QED
        BY <3>3, <4>1, <4>2
    <3> QED
      BY <3>2, <3>4
  <2> QED
    BY <2>1, <2>2
<1>5. Blocks(r, k)
  BY <1>4 DEF Blocks
<1> QED
  BY <1>0, <1>2, <1>3, <1>a, <1>5

\* A message added at the back brings its own header and no other.
LEMMA HeadersAdded ==
  ASSUME pipe \in Seq(Cell), NEW k \in Nat \ {0}, Blocks(pipe, k),
         NEW b \in Seq(Cell), Block(b, k), pipe' = pipe \o b, NEW m \in Requests,
         \A i, j \in 1..Len(pipe) : HeaderAt(i, m) /\ HeaderAt(j, m) => i = j
  PROVE  /\ InPipe(m)' <=> InPipe(m) \/ b[1].msg = m
         /\ ~(InPipe(m) /\ b[1].msg = m) =>
              (\A i, j \in 1..Len(pipe) : HeaderAt(i, m) /\ HeaderAt(j, m) => i = j)'
<1>1. /\ Len(pipe) \in Nat /\ Len(pipe') = Len(pipe) + k
      /\ \A i \in 1..Len(pipe) : pipe'[i] = pipe[i]
      /\ \A l \in 1..Len(pipe') : Len(pipe) < l => \E j \in 1..k : j = l - Len(pipe) /\ pipe'[l] = b[j]
      /\ \A j \in 1..k : b[j].part = j
  <2>1. \A j \in 1..k : b[j].part = j
    BY DEF Block
  <2>2. /\ Len(pipe') = Len(pipe) + k
        /\ \A i \in 1..Len(pipe) : pipe'[i] = pipe[i]
        /\ \A l \in 1..Len(pipe') : Len(pipe) < l => \E j \in 1..k : j = l - Len(pipe) /\ pipe'[l] = b[j]
    BY AddBack
  <2> QED
    BY <2>1, <2>2, CellFields
<1>2. ASSUME NEW i \in 1..Len(pipe')
      PROVE  HeaderAt(i, m)' <=> HeaderAt(i, m) \/ (i = Len(pipe) + 1 /\ b[1].msg = m)
  <2>1. CASE i \in 1..Len(pipe)
    <3>1. pipe'[i] = pipe[i] /\ i # Len(pipe) + 1
      BY <1>1, <2>1
    <3> QED
      BY <1>2, <2>1, <3>1 DEF HeaderAt
  <2>2. CASE i \notin 1..Len(pipe)
    <3>1. i \in Nat /\ Len(pipe) < i
      BY <1>1, <1>2, <2>2
    <3>2. PICK j \in 1..k : j = i - Len(pipe) /\ pipe'[i] = b[j]
      BY <1>1, <1>2, <3>1
    <3>a. i = Len(pipe) + 1 <=> j = 1
      BY <1>1, <3>1, <3>2
    <3>3. pipe'[i] = b[j] /\ b[j].part = j /\ (i = Len(pipe) + 1 <=> j = 1)
      BY <1>1, <3>2, <3>a
    <3>4. HeaderAt(i, m)' <=> b[j].msg = m /\ j = 1
      BY <1>2, <3>3 DEF HeaderAt
    <3>5. ~HeaderAt(i, m)
      BY <2>2 DEF HeaderAt
    <3> QED
      BY <3>3, <3>4, <3>5
  <2> QED
    BY <2>1, <2>2
<1>3. 1..Len(pipe) \subseteq 1..Len(pipe') /\ Len(pipe) + 1 \in 1..Len(pipe')
  BY <1>1
<1>4. InPipe(m)' <=> \E i \in 1..Len(pipe') : HeaderAt(i, m)'
  BY DEF InPipe
<1>5. InPipe(m) <=> \E i \in 1..Len(pipe') : HeaderAt(i, m)
  BY <1>3 DEF InPipe, HeaderAt
<1>6. InPipe(m)' <=> InPipe(m) \/ b[1].msg = m
  BY <1>2, <1>3, <1>4, <1>5
<1>7. ASSUME ~(InPipe(m) /\ b[1].msg = m), NEW i \in 1..Len(pipe'), NEW j \in 1..Len(pipe'),
             HeaderAt(i, m)', HeaderAt(j, m)'
      PROVE  i = j
  <2>1. HeaderAt(i, m) => i \in 1..Len(pipe) /\ InPipe(m)
    BY DEF HeaderAt, InPipe
  <2>2. HeaderAt(j, m) => j \in 1..Len(pipe) /\ InPipe(m)
    BY DEF HeaderAt, InPipe
  <2> QED
    BY <1>2, <1>7, <2>1, <2>2
<1> QED
  BY <1>6, <1>7

\* Taking the front message takes its header and no other.
LEMMA HeadersDropped ==
  ASSUME pipe \in Seq(Cell), pipe # <<>>, NEW k \in Nat \ {0}, Blocks(pipe, k),
         pipe' = SubSeq(pipe, k + 1, Len(pipe)), NEW m \in Requests,
         \A i, j \in 1..Len(pipe) : HeaderAt(i, m) /\ HeaderAt(j, m) => i = j
  PROVE  /\ InPipe(m)' <=> InPipe(m) /\ pipe[1].msg # m
         /\ pipe[1].msg = m => InPipe(m)
         /\ (\A i, j \in 1..Len(pipe) : HeaderAt(i, m) /\ HeaderAt(j, m) => i = j)'
<1>1. /\ Len(pipe) \in Nat /\ k <= Len(pipe) /\ Len(pipe') = Len(pipe) - k
      /\ \A l \in 1..k : pipe[l].part = l
      /\ \A i \in 1..Len(pipe') : pipe'[i] = pipe[k + i]
  BY CellFields, FrontBlock, DropFront
<1>2. ASSUME NEW i \in 1..Len(pipe')
      PROVE  /\ (k + i) \in 1..Len(pipe) /\ k + i # 1
             /\ HeaderAt(i, m)' <=> HeaderAt(k + i, m)
  <2>1. (k + i) \in 1..Len(pipe) /\ k + i # 1
    BY <1>1, <1>2
  <2>2. HeaderAt(i, m)' <=> pipe'[i].msg = m /\ pipe'[i].part = 1
    BY <1>2 DEF HeaderAt
  <2>3. HeaderAt(k + i, m) <=> pipe[k + i].msg = m /\ pipe[k + i].part = 1
    BY <2>1 DEF HeaderAt
  <2>4. pipe'[i] = pipe[k + i]
    BY <1>1
  <2> QED
    BY <2>1, <2>2, <2>3, <2>4
<1>3. 1 \in 1..Len(pipe) /\ (HeaderAt(1, m) <=> pipe[1].msg = m)
  <2>1. 1 \in 1..Len(pipe) /\ pipe[1].part = 1
    BY <1>1
  <2> QED
    BY <2>1 DEF HeaderAt
<1>4. ASSUME NEW i \in 1..Len(pipe), HeaderAt(i, m), i # 1
      PROVE  \E j \in 1..Len(pipe') : i = k + j
  <2>1. pipe[i].part = 1
    BY <1>4 DEF HeaderAt
  <2>2. i > k
    BY <1>1, <1>4, <2>1
  <2>3. i - k \in 1..Len(pipe') /\ i = k + (i - k)
    BY <1>1, <2>2
  <2> QED
    BY <2>3
<1>5. InPipe(m)' => InPipe(m) /\ pipe[1].msg # m
  <2> SUFFICES ASSUME NEW i \in 1..Len(pipe'), HeaderAt(i, m)'
               PROVE  InPipe(m) /\ pipe[1].msg # m
    BY DEF InPipe
  <2>1. HeaderAt(k + i, m) /\ (k + i) \in 1..Len(pipe) /\ k + i # 1
    BY <1>2
  <2>2. PICK l \in 1..Len(pipe) : HeaderAt(l, m) /\ l # 1
    BY <2>1
  <2> QED
    BY <1>3, <2>2 DEF InPipe
<1>6. ASSUME InPipe(m), pipe[1].msg # m PROVE InPipe(m)'
  <2>1. PICK i \in 1..Len(pipe) : HeaderAt(i, m)
    BY <1>6 DEF InPipe
  <2>2. PICK j \in 1..Len(pipe') : i = k + j
    BY <1>3, <1>4, <1>6, <2>1
  <2>3. HeaderAt(j, m)'
    BY <1>2, <2>1, <2>2
  <2> QED
    BY <2>3 DEF InPipe
<1>7. pipe[1].msg = m => InPipe(m)
  BY <1>3 DEF InPipe
<1>8. ASSUME NEW i \in 1..Len(pipe'), NEW j \in 1..Len(pipe'), HeaderAt(i, m)', HeaderAt(j, m)'
      PROVE  i = j
  <2>1. HeaderAt(k + i, m) /\ HeaderAt(k + j, m) /\ (k + i) \in 1..Len(pipe) /\ (k + j) \in 1..Len(pipe)
    BY <1>2, <1>8
  <2>2. PICK a \in 1..Len(pipe), d \in 1..Len(pipe) : a = k + i /\ d = k + j /\ HeaderAt(a, m) /\ HeaderAt(d, m)
    BY <2>1
  <2>3. k + i = k + j
    BY <2>2
  <2> QED
    BY <1>1, <2>3
<1> QED
  BY <1>5, <1>6, <1>7, <1>8

LEMMA SendKeeps ==
  ASSUME NEW p, Protocols = {p}, FormatInv(p), Send(p)
  PROVE  WholeInv(p)' /\ Places(p)'
<1>1. /\ Size[p] \in Nat \ {0} /\ MaxSent \in Nat /\ sent \in 0..MaxSent /\ pipe \in Seq(Cell)
      /\ Blocks(pipe, Size[p])
  BY SyscallPipeAssumption DEF FormatInv, TypeOK, WholeInv
<1>2. sent + 1 \in Requests /\ sent' = sent + 1 /\ UNCHANGED <<worker, received>>
  BY <1>1 DEF Send, Requests
<1>3. PICK b : b = Message(sent + 1, p)
  OBVIOUS
<1>4. b \in Seq(Cell) /\ Block(b, Size[p]) /\ b[1].msg = sent + 1
  <2>1. b \in [1..Size[p] -> Cell]
    BY <1>1, <1>2, <1>3 DEF Message, Cell, Kinds
  <2>2. \A i \in 1..Size[p] : b[i].part = i /\ b[i].msg = sent + 1
    BY <1>3 DEF Message
  <2>3. b \in Seq(Cell) /\ Len(b) = Size[p]
    BY <1>1, <2>1, FunctionIsSeq
  <2>4. 1 \in 1..Size[p]
    BY <1>1
  <2> QED
    BY <2>2, <2>3, <2>4 DEF Block
<1>5. pipe' = pipe \o b
  BY <1>3 DEF Send
<1>6. WholeInv(p)'
  <2>1. Blocks(pipe, Size[p])'
    BY <1>1, <1>4, <1>5, AddBack
  <2> QED
    BY <1>2, <2>1 DEF FormatInv, WholeInv
<1>7. Places(p)'
  <2> SUFFICES ASSUME NEW m \in Requests
               PROVE  /\ InPipe(m)' \/ WithWorker(p, m)' \/ AtHost(m)' <=> m <= sent'
                      /\ ~(InPipe(m)' /\ WithWorker(p, m)') /\ ~(InPipe(m)' /\ AtHost(m)')
                      /\ ~(WithWorker(p, m)' /\ AtHost(m)')
                      /\ (\A i, j \in 1..Len(pipe) : HeaderAt(i, m) /\ HeaderAt(j, m) => i = j)'
    BY DEF Places
  <2>1. /\ InPipe(m) \/ WithWorker(p, m) \/ AtHost(m) <=> m <= sent
        /\ ~(InPipe(m) /\ WithWorker(p, m)) /\ ~(InPipe(m) /\ AtHost(m)) /\ ~(WithWorker(p, m) /\ AtHost(m))
        /\ \A i, j \in 1..Len(pipe) : HeaderAt(i, m) /\ HeaderAt(j, m) => i = j
    BY DEF FormatInv, Places
  <2>2. (WithWorker(p, m)' <=> WithWorker(p, m)) /\ (AtHost(m)' <=> AtHost(m))
    BY <1>2 DEF WithWorker, AtHost
  <2>3. m = sent + 1 => ~(m <= sent)
    BY <1>1
  <2>4. m <= sent' <=> m <= sent \/ m = sent + 1
    BY <1>1, <1>2 DEF Requests
  <2>5. ~(InPipe(m) /\ b[1].msg = m)
    BY <1>4, <2>1, <2>3
  <2>6. /\ InPipe(m)' <=> InPipe(m) \/ m = sent + 1
        /\ (\A i, j \in 1..Len(pipe) : HeaderAt(i, m) /\ HeaderAt(j, m) => i = j)'
    BY <1>1, <1>4, <1>5, <2>1, <2>5, HeadersAdded
  <2> QED
    BY <2>1, <2>2, <2>3, <2>4, <2>6
<1> QED
  BY <1>6, <1>7

\* A read of a whole message's length gets one: the pipe holds whole messages.
LEMMA ReadsWhole ==
  ASSUME NEW p, Protocols = {p}, FormatInv(p), pipe # <<>>
  PROVE  /\ Size[p] \in Nat \ {0} /\ Got(Size[p]) = Size[p]
         /\ SubSeq(pipe, 1, Size[p]) \in Seq(Cell)
         /\ Block(SubSeq(pipe, 1, Size[p]), Size[p])
         /\ SubSeq(pipe, 1, Size[p])[1] = pipe[1]
<1>1. /\ Size[p] \in Nat \ {0} /\ pipe \in Seq(Cell) /\ Blocks(pipe, Size[p])
  BY SyscallPipeAssumption DEF FormatInv, TypeOK, WholeInv
<1>2. PICK k \in Nat \ {0} : k = Size[p]
  BY <1>1
<1>3. /\ k <= Len(pipe) /\ Len(pipe) \in Nat
      /\ \A l \in 1..k : pipe[l].part = l /\ pipe[l].msg = pipe[1].msg
  BY <1>1, <1>2, FrontBlock, CellFields
<1>4. Got(Size[p]) = Size[p]
  BY <1>2, <1>3 DEF Got
<1>5. PICK b : b = SubSeq(pipe, 1, k)
  OBVIOUS
<1>6. b \in Seq(Cell) /\ Len(b) = k
  BY <1>1, <1>3, <1>5, ReadSplits
<1>7. \A l \in 1..k : b[l] = pipe[l]
  BY <1>1, <1>3, <1>5, <1>6
<1>8. 1 \in 1..k
  OBVIOUS
<1>9. Block(b, k) /\ b[1] = pipe[1]
  BY <1>3, <1>6, <1>7, <1>8 DEF Block
<1> QED
  BY <1>1, <1>2, <1>4, <1>5, <1>6, <1>9

\* What taking the front message does to the pipe.
LEMMA TakeFront ==
  ASSUME NEW p, Protocols = {p}, FormatInv(p), pipe # <<>>,
         pipe' = SubSeq(pipe, Got(Size[p]) + 1, Len(pipe))
  PROVE  /\ Blocks(pipe, Size[p])'
         /\ \A m \in Requests :
              /\ InPipe(m)' <=> InPipe(m) /\ pipe[1].msg # m
              /\ pipe[1].msg = m => InPipe(m)
              /\ (\A i, j \in 1..Len(pipe) : HeaderAt(i, m) /\ HeaderAt(j, m) => i = j)'
<1>1. /\ Size[p] \in Nat \ {0} /\ pipe \in Seq(Cell) /\ Blocks(pipe, Size[p])
      /\ pipe' = SubSeq(pipe, Size[p] + 1, Len(pipe))
  BY ReadsWhole DEF FormatInv, TypeOK, WholeInv
<1>2. \A m \in Requests : \A i, j \in 1..Len(pipe) : HeaderAt(i, m) /\ HeaderAt(j, m) => i = j
  BY DEF FormatInv, Places
<1>3. Blocks(pipe, Size[p])'
  BY <1>1, DropFront
<1>4. ASSUME NEW m \in Requests
      PROVE  /\ InPipe(m)' <=> InPipe(m) /\ pipe[1].msg # m
             /\ pipe[1].msg = m => InPipe(m)
             /\ (\A i, j \in 1..Len(pipe) : HeaderAt(i, m) /\ HeaderAt(j, m) => i = j)'
  <2>1. \A i, j \in 1..Len(pipe) : HeaderAt(i, m) /\ HeaderAt(j, m) => i = j
    BY <1>2
  <2> QED
    BY <1>1, <2>1, HeadersDropped
<1> QED
  BY <1>3, <1>4

LEMMA ReceiveKeeps ==
  ASSUME NEW p, Protocols = {p}, FormatInv(p), Receive(p)
  PROVE  WholeInv(p)' /\ Places(p)'
<1>1. /\ pipe # <<>> /\ pipe' = SubSeq(pipe, Got(Size[p]) + 1, Len(pipe))
      /\ received' = received \cup {[msg |-> pipe[1].msg, kind |-> pipe[1].kind]}
      /\ UNCHANGED <<worker, sent>>
  BY DEF Receive
<1>2. WholeInv(p)'
  <2>1. Blocks(pipe, Size[p])'
    BY <1>1, TakeFront
  <2> QED
    BY <1>1, <2>1 DEF FormatInv, WholeInv
<1>3. Places(p)'
  <2> SUFFICES ASSUME NEW m \in Requests
               PROVE  /\ InPipe(m)' \/ WithWorker(p, m)' \/ AtHost(m)' <=> m <= sent'
                      /\ ~(InPipe(m)' /\ WithWorker(p, m)') /\ ~(InPipe(m)' /\ AtHost(m)')
                      /\ ~(WithWorker(p, m)' /\ AtHost(m)')
                      /\ (\A i, j \in 1..Len(pipe) : HeaderAt(i, m) /\ HeaderAt(j, m) => i = j)'
    BY DEF Places
  <2>1. /\ InPipe(m) \/ WithWorker(p, m) \/ AtHost(m) <=> m <= sent
        /\ ~(InPipe(m) /\ WithWorker(p, m)) /\ ~(InPipe(m) /\ AtHost(m)) /\ ~(WithWorker(p, m) /\ AtHost(m))
    BY DEF FormatInv, Places
  <2>2. WithWorker(p, m)' <=> WithWorker(p, m)
    BY <1>1 DEF WithWorker
  <2>3. AtHost(m)' <=> AtHost(m) \/ pipe[1].msg = m
    <3>1. [msg |-> pipe[1].msg, kind |-> pipe[1].kind].msg = pipe[1].msg
      OBVIOUS
    <3> QED
      BY <1>1, <3>1 DEF AtHost
  <2>4. /\ InPipe(m)' <=> InPipe(m) /\ pipe[1].msg # m
        /\ pipe[1].msg = m => InPipe(m)
        /\ (\A i, j \in 1..Len(pipe) : HeaderAt(i, m) /\ HeaderAt(j, m) => i = j)'
    BY <1>1, TakeFront
  <2> QED
    BY <1>1, <2>1, <2>2, <2>3, <2>4
<1> QED
  BY <1>2, <1>3

LEMMA ReadKeeps ==
  ASSUME NEW p, Protocols = {p}, FormatInv(p), ReadMessage(p)
  PROVE  WholeInv(p)' /\ Places(p)'
<1>1. PICK b : b = SubSeq(pipe, 1, Size[p])
  OBVIOUS
<1>2. /\ pipe # <<>> /\ pipe' = SubSeq(pipe, Got(Size[p]) + 1, Len(pipe))
      /\ worker[p].pc = "read" /\ UNCHANGED <<sent, received>>
  BY DEF ReadMessage
<1>3. Got(Size[p]) = Size[p] /\ Block(b, Size[p]) /\ b[1] = pipe[1]
  BY <1>1, <1>2, ReadsWhole
<1>4. worker'[p].pc = "serve" /\ worker'[p].cells = b
  BY <1>1, <1>3 DEF ReadMessage, FormatInv, TypeOK
<1>5. WholeInv(p)'
  <2>1. Blocks(pipe, Size[p])'
    BY <1>2, TakeFront
  <2> QED
    BY <1>3, <1>4, <2>1 DEF WholeInv, Block
<1>6. Places(p)'
  <2> SUFFICES ASSUME NEW m \in Requests
               PROVE  /\ InPipe(m)' \/ WithWorker(p, m)' \/ AtHost(m)' <=> m <= sent'
                      /\ ~(InPipe(m)' /\ WithWorker(p, m)') /\ ~(InPipe(m)' /\ AtHost(m)')
                      /\ ~(WithWorker(p, m)' /\ AtHost(m)')
                      /\ (\A i, j \in 1..Len(pipe) : HeaderAt(i, m) /\ HeaderAt(j, m) => i = j)'
    BY DEF Places
  <2>1. /\ InPipe(m) \/ WithWorker(p, m) \/ AtHost(m) <=> m <= sent
        /\ ~(InPipe(m) /\ WithWorker(p, m)) /\ ~(InPipe(m) /\ AtHost(m)) /\ ~(WithWorker(p, m) /\ AtHost(m))
    BY DEF FormatInv, Places
  <2>2. ~WithWorker(p, m) /\ (WithWorker(p, m)' <=> pipe[1].msg = m)
    BY <1>2, <1>3, <1>4 DEF WithWorker
  <2>3. AtHost(m)' <=> AtHost(m)
    BY <1>2 DEF AtHost
  <2>4. /\ InPipe(m)' <=> InPipe(m) /\ pipe[1].msg # m
        /\ pipe[1].msg = m => InPipe(m)
        /\ (\A i, j \in 1..Len(pipe) : HeaderAt(i, m) /\ HeaderAt(j, m) => i = j)'
    BY <1>2, TakeFront
  <2> QED
    BY <1>2, <2>1, <2>2, <2>3, <2>4
<1> QED
  BY <1>5, <1>6

LEMMA ServeKeeps ==
  ASSUME NEW p, Protocols = {p}, FormatInv(p), Serve(p)
  PROVE  WholeInv(p)' /\ Places(p)'
<1>1. /\ worker[p].pc = "serve" /\ UNCHANGED <<pipe, sent, received>>
      /\ worker'[p].pc = "reply" /\ worker'[p].cells = worker[p].cells
  BY DEF Serve, FormatInv, TypeOK
<1>2. WholeInv(p)'
  <2>1. Blocks(pipe, Size[p]) /\ Block(worker[p].cells, Size[p])
    BY <1>1 DEF FormatInv, WholeInv
  <2>2. Blocks(pipe', Size[p]) /\ Block(worker'[p].cells, Size[p])
    BY <1>1, <2>1
  <2> QED
    BY <2>2 DEF WholeInv
<1>3. \A m \in Requests : (WithWorker(p, m)' <=> WithWorker(p, m)) /\ (AtHost(m)' <=> AtHost(m))
                          /\ (InPipe(m)' <=> InPipe(m))
  BY <1>1 DEF WithWorker, AtHost, InPipe, HeaderAt
<1>4. Places(p)'
  BY <1>1, <1>3 DEF FormatInv, Places, HeaderAt
<1> QED
  BY <1>2, <1>4

LEMMA ReplyKeeps ==
  ASSUME NEW p, Protocols = {p}, FormatInv(p), Reply(p)
  PROVE  WholeInv(p)' /\ Places(p)'
<1>1. PICK b : b = [i \in DOMAIN worker[p].cells |-> [worker[p].cells[i] EXCEPT !.kind = "response"]]
  OBVIOUS
<1>2. /\ Size[p] \in Nat \ {0} /\ worker[p].cells \in Seq(Cell) /\ Len(worker[p].cells) = Size[p]
      /\ pipe \in Seq(Cell) /\ Blocks(pipe, Size[p]) /\ Block(worker[p].cells, Size[p])
      /\ worker[p].pc = "reply"
  BY SyscallPipeAssumption DEF Reply, FormatInv, TypeOK, WholeInv
<1>3. /\ pipe' = pipe \o b /\ worker'[p].pc = "read" /\ UNCHANGED <<sent, received>>
  BY <1>1 DEF Reply, Reading, FormatInv, TypeOK
<1>4. b \in Seq(Cell) /\ Block(b, Size[p]) /\ b[1].msg = worker[p].cells[1].msg
  <2>1. worker[p].cells \in [1..Size[p] -> Cell] /\ DOMAIN worker[p].cells = 1..Size[p]
    BY <1>2, LenProperties
  <2>2. \A x \in Cell : /\ [x EXCEPT !.kind = "response"] \in Cell
                        /\ [x EXCEPT !.kind = "response"].part = x.part
                        /\ [x EXCEPT !.kind = "response"].msg = x.msg
    BY DEF Cell, Kinds
  <2>3. /\ b \in [1..Size[p] -> Cell]
        /\ \A i \in 1..Size[p] : b[i].part = worker[p].cells[i].part /\ b[i].msg = worker[p].cells[i].msg
    BY <1>1, <2>1, <2>2
  <2>4. b \in Seq(Cell) /\ Len(b) = Size[p]
    BY <1>2, <2>3, FunctionIsSeq
  <2>5. 1 \in 1..Size[p]
    BY <1>2
  <2> QED
    BY <1>2, <2>3, <2>4, <2>5 DEF Block
<1>5. WholeInv(p)'
  <2>1. Blocks(pipe, Size[p])'
    BY <1>2, <1>3, <1>4, AddBack
  <2> QED
    BY <1>3, <2>1 DEF WholeInv
<1>6. Places(p)'
  <2> SUFFICES ASSUME NEW m \in Requests
               PROVE  /\ InPipe(m)' \/ WithWorker(p, m)' \/ AtHost(m)' <=> m <= sent'
                      /\ ~(InPipe(m)' /\ WithWorker(p, m)') /\ ~(InPipe(m)' /\ AtHost(m)')
                      /\ ~(WithWorker(p, m)' /\ AtHost(m)')
                      /\ (\A i, j \in 1..Len(pipe) : HeaderAt(i, m) /\ HeaderAt(j, m) => i = j)'
    BY DEF Places
  <2>1. /\ InPipe(m) \/ WithWorker(p, m) \/ AtHost(m) <=> m <= sent
        /\ ~(InPipe(m) /\ WithWorker(p, m)) /\ ~(InPipe(m) /\ AtHost(m)) /\ ~(WithWorker(p, m) /\ AtHost(m))
        /\ \A i, j \in 1..Len(pipe) : HeaderAt(i, m) /\ HeaderAt(j, m) => i = j
    BY DEF FormatInv, Places
  <2>2. /\ WithWorker(p, m) <=> b[1].msg = m
        /\ ~WithWorker(p, m)'
    BY <1>2, <1>3, <1>4 DEF WithWorker
  <2>3. AtHost(m)' <=> AtHost(m)
    BY <1>3 DEF AtHost
  <2>4. ~(InPipe(m) /\ b[1].msg = m)
    BY <2>1, <2>2
  <2>5. /\ InPipe(m)' <=> InPipe(m) \/ b[1].msg = m
        /\ (\A i, j \in 1..Len(pipe) : HeaderAt(i, m) /\ HeaderAt(j, m) => i = j)'
    BY <1>2, <1>3, <1>4, <2>1, <2>4, HeadersAdded
  <2> QED
    BY <1>3, <2>1, <2>2, <2>3, <2>5
<1> QED
  BY <1>5, <1>6

LEMMA FormatInvariant ==
  ASSUME NEW p, Protocols = {p} PROVE Spec => []FormatInv(p)
<1>1. Init => WholeInv(p) /\ Places(p)
  <2> SUFFICES ASSUME Init PROVE WholeInv(p) /\ Places(p)
    OBVIOUS
  <2>1. Len(pipe) = 0 /\ worker[p].pc = "read" /\ received = {} /\ sent = 0
    BY EmptySeq DEF Init, Reading
  <2>2. 1..Len(pipe) = {}
    BY <2>1
  <2>3. WholeInv(p)
    BY <2>1, <2>2 DEF WholeInv, Blocks
  <2>4. \A m \in Requests : ~(m <= sent)
    BY <2>1, SyscallPipeAssumption DEF Requests
  <2>5. Places(p)
    BY <2>1, <2>2, <2>4 DEF Places, InPipe, WithWorker, AtHost
  <2> QED
    BY <2>3, <2>5
<1>2. TypeOK /\ WholeInv(p) /\ Places(p) => FormatInv(p)
  BY DEF FormatInv
<1>3. FormatInv(p) /\ [Next]_vars => WholeInv(p)' /\ Places(p)'
  <2>1. ASSUME FormatInv(p), UNCHANGED vars PROVE WholeInv(p)' /\ Places(p)'
    <3>1. UNCHANGED <<pipe, worker, sent, received>>
      BY <2>1 DEF vars
    <3>a. /\ Blocks(pipe, Size[p])
          /\ worker[p].pc # "read" => Block(worker[p].cells, Size[p])
      BY <2>1 DEF FormatInv, WholeInv
    <3>b. /\ Blocks(pipe', Size[p])
          /\ worker'[p].pc # "read" => Block(worker'[p].cells, Size[p])
      BY <3>1, <3>a
    <3>2. WholeInv(p)'
      BY <3>b DEF WholeInv
    <3>3. Places(p)'
      BY <2>1, <3>1 DEF FormatInv, Places, InPipe, WithWorker, AtHost, HeaderAt
    <3> QED
      BY <3>2, <3>3
  <2> QED
    BY <2>1, SendKeeps, ReceiveKeeps, ReadKeeps, ServeKeeps, ReplyKeeps DEF Next, Work
<1>4. Spec => []TypeOK
  BY PipeTypeCorrect
<1> QED
  BY <1>1, <1>2, <1>3, <1>4, PTL DEF Spec

\* With one format in use a worker only ever handles a whole message with its header in
\* front, for any sizes, capacity and number of requests.
THEOREM WholeMessagesServed ==
  ASSUME OneFormat PROVE Spec => []ServesWholeMessages
<1>1. PICK p : Protocols = {p}
  BY DEF OneFormat
<1>2. FormatInv(p) => ServesWholeMessages
  <2> SUFFICES ASSUME FormatInv(p), worker[p].pc # "read"
               PROVE  Whole(worker[p].cells)
    BY <1>1 DEF ServesWholeMessages
  <2>1. /\ Block(worker[p].cells, Size[p]) /\ worker[p].cells \in Seq(Cell)
        /\ Size[p] \in Nat \ {0}
    BY <1>1, SyscallPipeAssumption DEF FormatInv, WholeInv, TypeOK
  <2>2. DOMAIN worker[p].cells = 1..Size[p] /\ Len(worker[p].cells) # 0 /\ 1 \in 1..Size[p]
    BY <2>1, LenProperties DEF Block
  <2>3. worker[p].cells # <<>>
    BY <2>1, <2>2, EmptySeq
  <2> QED
    BY <2>1, <2>2, <2>3 DEF Whole, Block
<1>3. Spec => []FormatInv(p)
  BY <1>1, FormatInvariant
<1> QED
  BY <1>2, <1>3, PTL

\* With one format in use each request is from its sending on in exactly one place: in the
\* pipe, in the worker's hands or with the host.
THEOREM RequestsInOnePlace ==
  ASSUME OneFormat PROVE Spec => []OnePlace
<1>1. PICK p : Protocols = {p}
  BY DEF OneFormat
<1>2. FormatInv(p) => OnePlace
  <2> SUFFICES ASSUME FormatInv(p), NEW m \in Requests
               PROVE
    LET inPipe == {i \in DOMAIN pipe : pipe[i].msg = m /\ pipe[i].part = 1}
        inHand == {q \in Protocols : worker[q].cells # <<>> /\ worker[q].cells[1].msg = m}
        atHost == {r \in received : r.msg = m}
    IN  /\ m > sent => inPipe = {} /\ inHand = {} /\ atHost = {}
        /\ m <= sent =>
             /\ inPipe # {} \/ inHand # {} \/ atHost # {}
             /\ \A i, j \in inPipe : i = j
             /\ ~(inPipe # {} /\ inHand # {})
             /\ atHost # {} => inPipe = {} /\ inHand = {}
    BY DEF OnePlace
  <2>1. /\ InPipe(m) \/ WithWorker(p, m) \/ AtHost(m) <=> m <= sent
        /\ ~(InPipe(m) /\ WithWorker(p, m)) /\ ~(InPipe(m) /\ AtHost(m)) /\ ~(WithWorker(p, m) /\ AtHost(m))
        /\ \A i, j \in 1..Len(pipe) : HeaderAt(i, m) /\ HeaderAt(j, m) => i = j
    BY DEF FormatInv, Places
  <2>2. DOMAIN pipe = 1..Len(pipe)
    BY LenProperties DEF FormatInv, TypeOK
  <2>3. worker[p].cells # <<>> <=> worker[p].pc # "read"
    <3>1. /\ worker[p].cells \in Seq(Cell) /\ Size[p] \in Nat \ {0}
          /\ Len(worker[p].cells) = IF worker[p].pc = "read" THEN 0 ELSE Size[p]
      BY <1>1, SyscallPipeAssumption DEF FormatInv, TypeOK
    <3>2. worker[p].cells = <<>> <=> Len(worker[p].cells) = 0
      BY <3>1, EmptySeq
    <3> QED
      BY <3>1, <3>2
  <2>4. m > sent <=> ~(m <= sent)
    BY SyscallPipeAssumption DEF FormatInv, TypeOK, Requests
  <2> DEFINE inPipe == {i \in DOMAIN pipe : pipe[i].msg = m /\ pipe[i].part = 1}
             inHand == {q \in Protocols : worker[q].cells # <<>> /\ worker[q].cells[1].msg = m}
             atHost == {r \in received : r.msg = m}
  <2>5. (inPipe # {} <=> InPipe(m)) /\ \A i \in inPipe : i \in 1..Len(pipe) /\ HeaderAt(i, m)
    BY <2>2 DEF InPipe, HeaderAt
  <2>6. inHand # {} <=> WithWorker(p, m)
    BY <1>1, <2>3 DEF WithWorker
  <2>7. atHost # {} <=> AtHost(m)
    BY DEF AtHost
  <2> HIDE DEF inPipe, inHand, atHost
  <2>8. /\ m > sent => inPipe = {} /\ inHand = {} /\ atHost = {}
        /\ m <= sent =>
             /\ inPipe # {} \/ inHand # {} \/ atHost # {}
             /\ \A i, j \in inPipe : i = j
             /\ ~(inPipe # {} /\ inHand # {})
             /\ atHost # {} => inPipe = {} /\ inHand = {}
    BY <2>1, <2>4, <2>5, <2>6, <2>7
  <2> QED
    BY <2>8 DEF inPipe, inHand, atHost
<1>3. Spec => []FormatInv(p)
  BY <1>1, FormatInvariant
<1> QED
  BY <1>2, <1>3, PTL
=============================================================================
