---------------------------- MODULE SessionProofs ---------------------------
(***************************************************************************)
(* Theorems about Session, for any streams, messages and calls: what Wait  *)
(* reports is what the remote sent, and nil means that all has been copied.*)
(***************************************************************************)
EXTENDS Session, SequenceTheorems, TLAPS

Ops == {"none", "Wait", "collect"} \cup Setups \cup Methods

TypeOK ==
    /\ given \subseteq Fds /\ piped \subseteq Fds /\ collected \subseteq Fds
    /\ call.op \in Ops /\ call = [op |-> call.op, res |-> call.res]
    /\ accepted \in Nat /\ waits \in Nat
    /\ copy \in [Fds -> {"none", "run", "ok", "err"}]
    /\ buf \in [Outputs -> Nat] /\ copied \in [Outputs -> Nat] /\ sent \in [Outputs -> Nat]
    /\ said \in Seq(Messages) /\ reqs \in Seq(Messages)
    /\ wm = [run |-> wm.run, status |-> wm.status, signal |-> wm.signal]

-----------------------------------------------------------------------------
(* The goroutine that reads the exit messages.                             *)

(* How many messages of the remote it has handled; the others are queued.  *)
Handled == Len(said) - Len(reqs)
Queued ==
    /\ Len(reqs) <= Len(said)
    /\ \A i \in 1..Len(reqs) : reqs[i] = said[Handled + i]

(* i is the last of the first n messages that has this kind.               *)
Latest(kind, i, n) ==
    i \in 1..n /\ said[i].t = kind /\ \A j \in 1..n : said[j].t = kind => j <= i

(* What it remembers is the latest of each kind that it has handled.       *)
Heard ==
    /\ \/ wm.status = -1 /\ \A i \in 1..Handled : said[i].t # "exit-status"
       \/ \E i \in 1..Handled : Latest("exit-status", i, Handled) /\ wm.status = ToInt(said[i].v)
    /\ \/ wm.signal = NoSignal /\ \A i \in 1..Handled : said[i].t # "exit-signal"
       \/ \E i \in 1..Handled : Latest("exit-signal", i, Handled) /\ wm.signal = said[i].v

(* It leaves its result when the channel is closed and all is handled, or  *)
(* at a message it cannot read.                                            *)
Over == ~wm.run /\ closed /\ reqs = <<>>
ExitKept ==
    exitStatus = NotYet \/ (exitStatus = Err("malformed") /\ ~wm.run) \/ (exitStatus = Outcome /\ Over)

StatusInv == Queued /\ Heard /\ ExitKept

-----------------------------------------------------------------------------
(* One start, and the streams from then on.                                *)

OneStart ==
    /\ accepted = IF started THEN 1 ELSE 0
    /\ call.op \in Setups \cup Methods => ~started
    /\ waits > 0 => started

(* What the remote sent is copied or still buffered, unless a copy failed; *)
(* a copy that ended well has seen the end of its stream.                  *)
Stream(f) ==
    /\ ~started => copy[f] = "none" /\ sent[f] = 0 /\ copied[f] = 0 /\ buf[f] = 0
    /\ started => (copy[f] = "none" <=> f \in piped)
    /\ f \notin piped /\ copy[f] # "err" => sent[f] = copied[f] + buf[f]
    /\ copy[f] = "ok" => buf[f] = 0 /\ (eof \/ closed)

Streams == \A f \in Outputs : Stream(f)

-----------------------------------------------------------------------------
(* Wait receives the one result once.                                      *)
Once ==
    /\ waits <= 2
    /\ waits = 0 => collected = {} /\ call.op \notin {"Wait", "collect"}
    /\ waits = 1 /\ call.op = "Wait" => collected = {}
    /\ waits = 2 \/ (waits = 1 /\ call.op # "Wait") => ~wm.run /\ exitStatus = NotYet
    /\ call.op = "collect" => waits = 1

(* While Wait collects, a nil result is that of the remote, and of the     *)
(* copies collected so far; when it has returned, of all of them.          *)
Success == Over /\ wm.status = 0
NilSoFar == call.op = "collect" /\ call.res = Nil => Success /\ \A f \in collected : copy[f] = "ok"
NilAtEnd == waits = 1 /\ Idle /\ call.res = Nil => Success /\ \A f \in Outputs : copy[f] \in {"none", "ok"}

Inv == TypeOK /\ StatusInv /\ OneStart /\ Streams /\ Once /\ NilSoFar /\ NilAtEnd

-----------------------------------------------------------------------------
(* The invariant holds when the session has been opened.                   *)
LEMMA InitInv == ASSUME Init PROVE Inv
<1>1. <<>> \in Seq(Messages)
  OBVIOUS
<1>2. TypeOK
  <2>1. call.op \in Ops /\ call = [op |-> call.op, res |-> call.res]
    BY DEF Init, Ops
  <2>2. wm = [run |-> wm.run, status |-> wm.status, signal |-> wm.signal]
    BY DEF Init
  <2>3. /\ accepted \in Nat /\ waits \in Nat
        /\ copy \in [Fds -> {"none", "run", "ok", "err"}]
        /\ buf \in [Outputs -> Nat] /\ copied \in [Outputs -> Nat] /\ sent \in [Outputs -> Nat]
        BY DEF Init
  <2> QED
    BY <1>1, <2>1, <2>2, <2>3 DEF Init, TypeOK
<1>3. StatusInv
  BY DEF Init, StatusInv, Queued, Heard, Handled, ExitKept
<1>4. OneStart /\ Streams /\ Once
  BY DEF Init, OneStart, Streams, Stream, Once, Fds, Outputs, Setups, Methods
<1>5. NilSoFar /\ NilAtEnd
  BY DEF Init, NilSoFar, NilAtEnd
<1> QED
  BY <1>2, <1>3, <1>4, <1>5 DEF Inv

-----------------------------------------------------------------------------
(* What each kind of step leaves alone.                                    *)

Waiter == <<said, reqs, wm, exitStatus, closed>>

(* Which steps touch the exit messages.                                    *)
LEMMA WaiterSteps ==
    ASSUME [Next]_vars
    PROVE  \/ UNCHANGED Waiter
           \/ WaitStep
           \/ \E m \in Messages : RemoteRequest(m)
           \/ closed' = TRUE /\ UNCHANGED <<said, reqs, wm, exitStatus>>
           \/ Exited
<1>1. CASE UNCHANGED vars
  BY <1>1 DEF vars, waiter, remote, Waiter
<1>2. ASSUME NEW f, Assign(f) \/ Pipe(f) \/ Setup(f) \/ Begin(f) \/ ReadPipe(f) \/ CopyOutput(f) PROVE UNCHANGED Waiter
  BY <1>2 DEF Assign, Pipe, Setup, Begin, ReadPipe, CopyOutput, waiter, remote, Waiter
<1>3. ASSUME NEW f, Answered(f) \/ RemoteData(f) PROVE UNCHANGED Waiter
  BY <1>3 DEF Answered, RemoteData, waiter, remote, Waiter
<1>4. CASE Wait \/ Collect \/ Close \/ UsePipe \/ Feed \/ CopyStdin \/ RemoteEOF \/ RemoteRead
  BY <1>4 DEF Wait, Collect, Close, UsePipe, Feed, CopyStdin, RemoteEOF, RemoteRead, waiter, remote, Waiter
<1>5. CASE RemoteClose
  BY <1>5 DEF RemoteClose, waiter
<1> QED
  BY <1>1, <1>2, <1>3, <1>4, <1>5 DEF Next

Flow == <<started, copy, piped, buf, copied, sent>>

(* The steps of the streams; others keep them, but may learn of an end.    *)
LEMMA FlowSteps ==
    ASSUME [Next]_vars
    PROVE  \/ UNCHANGED Flow
           \/ \E f \in Pipes : Pipe(f)
           \/ Answered("ok")
           \/ CopyStdin
           \/ \E f \in Outputs : ReadPipe(f) \/ CopyOutput(f) \/ RemoteData(f)
<1>1. CASE UNCHANGED vars
  BY <1>1 DEF vars, user, output, remote, Flow
<1>2. ASSUME NEW f, Assign(f) \/ Setup(f) \/ Begin(f) \/ RemoteRequest(f) PROVE UNCHANGED Flow
  BY <1>2 DEF Assign, Setup, Begin, RemoteRequest, user, output, remote, Flow
<1>3. ASSUME NEW a, a # "ok", Answered(a) PROVE UNCHANGED Flow
  BY <1>3 DEF Answered, output, Flow
<1>4. CASE Wait \/ Exited \/ Collect \/ Close \/ UsePipe \/ Feed \/ WaitStep \/ RemoteEOF \/ RemoteRead \/ RemoteClose
  BY <1>4 DEF Wait, Exited, Collect, Close, UsePipe, Feed, WaitStep, RemoteEOF, RemoteRead, RemoteClose,
              user, output, remote, Flow
<1> QED
  BY <1>1, <1>2, <1>3, <1>4 DEF Next

User == <<call, waits, started, accepted>>

(* The steps of the user's goroutine.                                      *)
LEMMA UserSteps ==
    ASSUME [Next]_vars
    PROVE  \/ UNCHANGED User
           \/ \E n \in Setups : Setup(n)
           \/ \E m \in Methods : Begin(m)
           \/ \E a \in {"ok", "refused", "error"} : Answered(a)
           \/ Wait \/ Exited \/ Collect
<1>1. CASE UNCHANGED vars
  BY <1>1 DEF vars, user, remote, User
<1>2. ASSUME NEW f, Assign(f) \/ Pipe(f) \/ ReadPipe(f) \/ CopyOutput(f) PROVE UNCHANGED User
  BY <1>2 DEF Assign, Pipe, ReadPipe, CopyOutput, user, remote, User
<1>3. ASSUME NEW f, RemoteData(f) \/ RemoteRequest(f) PROVE UNCHANGED User
  BY <1>3 DEF RemoteData, RemoteRequest, remote, User
<1>4. CASE Close \/ UsePipe \/ Feed \/ CopyStdin \/ WaitStep \/ RemoteEOF \/ RemoteRead \/ RemoteClose
  BY <1>4 DEF Close, UsePipe, Feed, CopyStdin, WaitStep, RemoteEOF, RemoteRead, RemoteClose, user, remote, User
<1> QED
  BY <1>1, <1>2, <1>3, <1>4 DEF Next

(* Only Collect collects, and only Exited and the goroutine that waits     *)
(* change exitStatus.                                                      *)
LEMMA CollectedSteps == ASSUME [Next]_vars PROVE UNCHANGED collected \/ Collect
<1>1. CASE UNCHANGED vars
  BY <1>1 DEF vars
<1>2. ASSUME NEW f, Assign(f) \/ Pipe(f) \/ ReadPipe(f) \/ CopyOutput(f) \/ Setup(f) \/ Begin(f) PROVE UNCHANGED collected
  BY <1>2 DEF Assign, Pipe, ReadPipe, CopyOutput, Setup, Begin
<1>3. ASSUME NEW f, RemoteData(f) \/ RemoteRequest(f) \/ Answered(f) PROVE UNCHANGED collected
  BY <1>3 DEF RemoteData, RemoteRequest, Answered
<1>4. CASE Wait \/ Exited \/ Close \/ UsePipe \/ Feed \/ CopyStdin \/ WaitStep \/ RemoteEOF \/ RemoteRead \/ RemoteClose
  BY <1>4 DEF Wait, Exited, Close, UsePipe, Feed, CopyStdin, WaitStep, RemoteEOF, RemoteRead, RemoteClose
<1> QED
  BY <1>1, <1>2, <1>3, <1>4 DEF Next

-----------------------------------------------------------------------------
(* What the goroutine that waits does with a message, and at the end.      *)
Hears(m) ==
    /\ reqs # <<>> /\ m = Head(reqs) /\ reqs' = Tail(reqs)
    /\ \/ m.t = "exit-status" /\ wm' = [wm EXCEPT !.status = ToInt(m.v)] /\ exitStatus' = exitStatus
       \/ m.t = "exit-signal" /\ wm' = [wm EXCEPT !.signal = m.v] /\ exitStatus' = exitStatus
       \/ m.t = "malformed" /\ wm' = [wm EXCEPT !.run = FALSE] /\ exitStatus' = Err("malformed")
       \/ m.t \notin {"exit-status", "exit-signal"} /\ wm' = wm /\ exitStatus' = exitStatus
Ends ==
    reqs = <<>> /\ closed /\ reqs' = reqs /\ wm' = [wm EXCEPT !.run = FALSE] /\ exitStatus' = Outcome

(* A step of that goroutine is one of these.                               *)
LEMMA WaitEffect ==
    ASSUME WaitStep
    PROVE  wm.run /\ said' = said /\ closed' = closed /\ ((\E m : Hears(m)) \/ Ends)
<1>1. wm.run /\ said' = said /\ closed' = closed
  BY Zenon DEF WaitStep, remote
<1>2. CASE reqs = <<>>
  <2>1. Ends
    BY <1>2, Zenon DEF WaitStep, Ends
  <2> QED
    BY <1>1, <2>1, Zenon
<1>3. CASE reqs # <<>>
  <2>1. PICK m : m = Head(reqs)
    OBVIOUS
  <2>2. /\ reqs' = Tail(reqs)
        /\ CASE m.t = "exit-status" -> wm' = [wm EXCEPT !.status = ToInt(m.v)] /\ UNCHANGED exitStatus
             [] m.t = "exit-signal" -> wm' = [wm EXCEPT !.signal = m.v] /\ UNCHANGED exitStatus
             [] m.t = "malformed" -> wm' = [wm EXCEPT !.run = FALSE] /\ exitStatus' = Err("malformed")
             [] OTHER -> UNCHANGED <<wm, exitStatus>>
    BY <1>3, <2>1, Zenon DEF WaitStep
  <2>3. Hears(m)
    BY <1>3, <2>1, <2>2 DEF Hears
  <2> QED
    BY <1>1, <2>3
<1> QED
  BY <1>1, <1>2, <1>3

(* The fields of Stdin, Stdout and Stderr, and the pipes.                  *)
LEMMA SetSteps ==
    ASSUME given \subseteq Fds, piped \subseteq Fds, [Next]_vars
    PROVE  given' \subseteq Fds /\ piped' \subseteq Fds
<1>1. CASE UNCHANGED vars
  BY <1>1 DEF vars, user
<1>2. ASSUME NEW f \in Assignable, Assign(f) PROVE given' \subseteq Fds /\ piped' \subseteq Fds
  BY <1>2, SessionAssumption DEF Assign
<1>3. ASSUME NEW f \in Pipes, Pipe(f) PROVE given' \subseteq Fds /\ piped' \subseteq Fds
  BY <1>3, SessionAssumption DEF Pipe
<1>4. ASSUME NEW m, Begin(m) PROVE given' \subseteq Fds /\ piped' \subseteq Fds
  BY <1>4 DEF Begin, Sets, Fds, Outputs
<1>5. ASSUME NEW f, Setup(f) \/ ReadPipe(f) \/ CopyOutput(f) \/ RemoteData(f) \/ RemoteRequest(f) \/ Answered(f)
      PROVE  UNCHANGED <<given, piped>>
  BY <1>5 DEF Setup, ReadPipe, CopyOutput, RemoteData, RemoteRequest, Answered, user
<1>6. CASE Wait \/ Exited \/ Collect \/ Close \/ UsePipe \/ Feed \/ CopyStdin \/ WaitStep
           \/ RemoteEOF \/ RemoteRead \/ RemoteClose
  BY <1>6 DEF Wait, Exited, Collect, Close, UsePipe, Feed, CopyStdin, WaitStep,
              RemoteEOF, RemoteRead, RemoteClose, user
<1> QED
  BY <1>1, <1>2, <1>3, <1>4, <1>5, <1>6 DEF Next

(* Every step keeps the types.                                             *)
LEMMA TypeStep == ASSUME TypeOK, [Next]_vars PROVE TypeOK'
<1>1. given' \subseteq Fds /\ piped' \subseteq Fds /\ collected' \subseteq Fds
  BY CollectedSteps, SetSteps DEF Collect, TypeOK
<1>2. /\ call'.op \in Ops /\ call' = [op |-> call'.op, res |-> call'.res]
      /\ accepted' \in Nat /\ waits' \in Nat
  <2>1. CASE UNCHANGED User
    BY <2>1 DEF User, TypeOK
  <2>2. ASSUME NEW n \in Setups, Setup(n)
        PROVE  call' = [op |-> n, res |-> Nil] /\ UNCHANGED <<accepted, waits>>
    BY <2>2 DEF Setup, remote
  <2>3. ASSUME NEW m \in Methods, Begin(m)
        PROVE  \E op \in Ops : \E res : call' = [op |-> op, res |-> res] /\ UNCHANGED <<accepted, waits>>
    BY <2>3 DEF Begin, remote, Return, Ops
  <2>4. ASSUME NEW a, Answered(a)
        PROVE  \E op \in Ops : \E res : call' = [op |-> op, res |-> res]
    BY <2>4 DEF Answered, Return, Ops
  <2>5. ASSUME NEW a, Answered(a)
        PROVE  accepted' \in Nat /\ waits' \in Nat
    BY <2>5 DEF Answered, TypeOK
  <2>6. CASE Wait
    <3>1. \E op \in Ops : \E res : call' = [op |-> op, res |-> res]
      BY <2>6 DEF Wait, Return, Ops
    <3>2. accepted' = accepted /\ waits' \in Nat
      <4>1. accepted' = accepted /\ (waits' = waits \/ waits' = waits + 1)
        BY <2>6, Zenon DEF Wait, remote
      <4> QED
        BY <4>1 DEF TypeOK
    <3> QED
      BY <3>1, <3>2 DEF TypeOK
  <2>7. CASE Exited
    <3>1. call' = [op |-> "collect", res |-> exitStatus] /\ UNCHANGED <<accepted, waits>>
      BY <2>7 DEF Exited, remote
    <3> QED
      BY <3>1 DEF TypeOK, Ops
  <2>8. CASE Collect
    <3>1. UNCHANGED <<accepted, waits>>
      BY <2>8 DEF Collect, remote
    <3>2. \E op \in Ops : \E res : call' = [op |-> op, res |-> res]
      BY <2>8 DEF Collect, TypeOK, Return, Ops
    <3> QED
      BY <3>1, <3>2 DEF TypeOK
  <2> QED
    BY UserSteps, <2>1, <2>2, <2>3, <2>4, <2>5, <2>6, <2>7, <2>8 DEF TypeOK, Ops
<1>3. copy' \in [Fds -> {"none", "run", "ok", "err"}]
  <2>1. ASSUME NEW f \in Pipes, Pipe(f) PROVE UNCHANGED copy
    BY <2>1 DEF Pipe
  <2>2. ASSUME NEW f \in Outputs, ReadPipe(f) \/ RemoteData(f) PROVE UNCHANGED copy
    BY <2>2 DEF ReadPipe, RemoteData
  <2>3. ASSUME NEW f \in Outputs, CopyOutput(f) PROVE copy' \in [Fds -> {"none", "run", "ok", "err"}]
    BY <2>3 DEF CopyOutput, TypeOK, Fds, Outputs
  <2>4. CASE CopyStdin
    BY <2>4 DEF CopyStdin, TypeOK
  <2>5. CASE Answered("ok")
    BY <2>5 DEF Answered, TypeOK
  <2> QED
    BY FlowSteps, <2>1, <2>2, <2>3, <2>4, <2>5 DEF TypeOK, Flow
<1>4. buf' \in [Outputs -> Nat] /\ copied' \in [Outputs -> Nat] /\ sent' \in [Outputs -> Nat]
  <2>1. ASSUME NEW f, Pipe(f) \/ Answered(f) PROVE UNCHANGED <<buf, copied, sent>>
    BY <2>1 DEF Pipe, Answered, output, remote
  <2>2. CASE CopyStdin
    BY <2>2 DEF CopyStdin, output, remote, TypeOK
  <2>3. ASSUME NEW f \in Outputs, ReadPipe(f) \/ CopyOutput(f) \/ RemoteData(f)
        PROVE  buf' \in [Outputs -> Nat] /\ copied' \in [Outputs -> Nat] /\ sent' \in [Outputs -> Nat]
    <3>1. /\ buf' = buf \/ buf' = [buf EXCEPT ![f] = @ + 1] \/ (buf[f] > 0 /\ buf' = [buf EXCEPT ![f] = @ - 1])
          /\ copied' = copied \/ copied' = [copied EXCEPT ![f] = @ + 1]
          /\ sent' = sent \/ sent' = [sent EXCEPT ![f] = @ + 1]
      BY <2>3, Zenon DEF ReadPipe, CopyOutput, RemoteData, output, remote
    <3>2. buf \in [Outputs -> Nat] /\ copied \in [Outputs -> Nat] /\ sent \in [Outputs -> Nat]
      BY DEF TypeOK
    <3>3. buf' \in [Outputs -> Nat]
      <4>1. buf[f] \in Nat
        BY <3>2
      <4>2. CASE buf' = [buf EXCEPT ![f] = @ + 1]
        BY <3>2, <4>1, <4>2
      <4>3. CASE buf[f] > 0 /\ buf' = [buf EXCEPT ![f] = @ - 1]
        BY <3>2, <4>1, <4>3
      <4> QED
        BY <3>1, <3>2, <4>2, <4>3
    <3>4. copied' \in [Outputs -> Nat]
      BY <3>1, <3>2
    <3>5. sent' \in [Outputs -> Nat]
      BY <3>1, <3>2
    <3> QED
      BY <3>3, <3>4, <3>5
  <2> QED
    BY FlowSteps, <2>1, <2>2, <2>3 DEF TypeOK, Flow
<1>5. said' \in Seq(Messages) /\ reqs' \in Seq(Messages)
  <2>1. CASE WaitStep
    <3>1. said' = said /\ (reqs' = reqs \/ (reqs # <<>> /\ reqs' = Tail(reqs)))
      BY <2>1, WaitEffect, Zenon DEF Hears, Ends
    <3> QED
      BY <3>1, HeadTailProperties DEF TypeOK
  <2>2. ASSUME NEW m \in Messages, RemoteRequest(m) PROVE said' \in Seq(Messages) /\ reqs' \in Seq(Messages)
    <3>1. /\ reqs' = reqs \/ reqs' = Append(reqs, m)
          /\ said' = said \/ said' = Append(said, m)
      BY <2>2, Zenon DEF RemoteRequest
    <3>2. Append(reqs, m) \in Seq(Messages) /\ Append(said, m) \in Seq(Messages)
      BY AppendProperties DEF TypeOK
    <3> QED
      BY <3>1, <3>2 DEF TypeOK
  <2>3. CASE Exited
    BY <2>3 DEF Exited, remote, TypeOK
  <2> QED
    BY WaiterSteps, <2>1, <2>2, <2>3 DEF TypeOK, Waiter
<1>6. wm' = [run |-> wm'.run, status |-> wm'.status, signal |-> wm'.signal]
  <2>1. CASE WaitStep
    <3>1. \E run, status, signal : wm' = [run |-> run, status |-> status, signal |-> signal]
      <4>1. ASSUME NEW m, Hears(m) PROVE \E run, status, signal : wm' = [run |-> run, status |-> status, signal |-> signal]
        BY <4>1 DEF Hears, TypeOK
      <4> QED
        BY <2>1, <4>1, WaitEffect DEF Ends, TypeOK
    <3> QED
      BY <3>1
  <2>2. ASSUME NEW m \in Messages, RemoteRequest(m) PROVE UNCHANGED wm
    BY <2>2 DEF RemoteRequest
  <2>3. CASE Exited
    BY <2>3 DEF Exited, TypeOK
  <2> QED
    BY WaiterSteps, <2>1, <2>2, <2>3 DEF TypeOK, Waiter
<1> QED
  BY <1>1, <1>2, <1>3, <1>4, <1>5, <1>6 DEF TypeOK

-----------------------------------------------------------------------------
(* The exit messages.                                                      *)

(* Heard, of any list of messages, of which n have been handled.           *)
HeardOf(s, n, status, signal) ==
    /\ \/ status = -1 /\ \A i \in 1..n : s[i].t # "exit-status"
       \/ \E i \in 1..n : /\ s[i].t = "exit-status" /\ status = ToInt(s[i].v)
                          /\ \A j \in 1..n : s[j].t = "exit-status" => j <= i
    /\ \/ signal = NoSignal /\ \A i \in 1..n : s[i].t # "exit-signal"
       \/ \E i \in 1..n : /\ s[i].t = "exit-signal" /\ signal = s[i].v
                          /\ \A j \in 1..n : s[j].t = "exit-signal" => j <= i

(* This is what Heard says of the messages sent.                           *)
LEMMA HeardIs == Heard <=> HeardOf(said, Handled, wm.status, wm.signal)
BY Zenon DEF Heard, HeardOf, Latest

(* Only the messages handled matter.                                       *)
LEMMA HeardSame ==
    ASSUME NEW s, NEW t, NEW n \in Nat, NEW status, NEW signal, \A i \in 1..n : s[i] = t[i],
           HeardOf(s, n, status, signal)
    PROVE  HeardOf(t, n, status, signal)
BY DEF HeardOf

(* One message more.                                                       *)
LEMMA HeardNext ==
    ASSUME NEW s, NEW n \in Nat, NEW status, NEW signal, NEW status2, NEW signal2,
           HeardOf(s, n, status, signal),
           \/ s[n + 1].t = "exit-status" /\ status2 = ToInt(s[n + 1].v) /\ signal2 = signal
           \/ s[n + 1].t = "exit-signal" /\ signal2 = s[n + 1].v /\ status2 = status
           \/ s[n + 1].t \notin {"exit-status", "exit-signal"} /\ status2 = status /\ signal2 = signal
    PROVE  HeardOf(s, n + 1, status2, signal2)
<1>1. n + 1 \in 1..(n + 1) /\ \A i \in 1..(n + 1) : i <= n + 1 /\ (i \in 1..n \/ i = n + 1)
  OBVIOUS
<1>2. 1..n \subseteq 1..(n + 1) /\ \A i \in 1..n : n + 1 # i
  OBVIOUS
<1>3. CASE s[n + 1].t = "exit-status"
  BY <1>1, <1>2, <1>3 DEF HeardOf
<1>4. CASE s[n + 1].t = "exit-signal"
  BY <1>1, <1>2, <1>4 DEF HeardOf
<1>5. CASE s[n + 1].t \notin {"exit-status", "exit-signal"}
  BY <1>1, <1>2, <1>5 DEF HeardOf
<1> QED
  BY <1>3, <1>4, <1>5

(* Every step keeps what is known of the exit messages.                    *)
LEMMA StatusStep == ASSUME TypeOK, StatusInv, [Next]_vars PROVE StatusInv'
<1> DEFINE n == Handled
<1>t. /\ said \in Seq(Messages) /\ reqs \in Seq(Messages) /\ Len(said) \in Nat /\ Len(reqs) \in Nat
      /\ Len(reqs) <= Len(said) /\ n \in Nat /\ n = Len(said) - Len(reqs)
      /\ \A i \in 1..Len(reqs) : reqs[i] = said[n + i]
  BY DEF TypeOK, StatusInv, Queued, Handled
<1>h. HeardOf(said, n, wm.status, wm.signal)
  BY HeardIs DEF StatusInv
<1>g. Heard' <=> HeardOf(said', Handled', wm'.status, wm'.signal)
  BY Zenon DEF Heard, HeardOf, Latest
<1>1. CASE UNCHANGED Waiter
  BY <1>1, Zenon DEF Waiter, StatusInv, Queued, Heard, Latest, Handled, ExitKept, Over, Outcome
<1>2. CASE closed' = TRUE /\ UNCHANGED <<said, reqs, wm, exitStatus>>
  BY <1>2, Zenon DEF StatusInv, Queued, Heard, Latest, Handled, ExitKept, Over, Outcome
<1>3. CASE Exited
  <2>1. UNCHANGED <<said, reqs, wm>> /\ exitStatus' = NotYet
    BY <1>3 DEF Exited, remote
  <2> QED
    BY <2>1, Zenon DEF StatusInv, Queued, Heard, Latest, Handled, ExitKept
<1>4. ASSUME NEW m \in Messages, RemoteRequest(m) PROVE StatusInv'
  <2>1. /\ ~closed /\ closed' = closed /\ wm' = wm /\ exitStatus' = exitStatus
        /\ \/ UNCHANGED <<said, reqs>>
           \/ reqs' = Append(reqs, m) /\ said' = Append(said, m)
    BY <1>4, Zenon DEF RemoteRequest, Live
  <2>2. ExitKept'
    BY <2>1, Zenon DEF StatusInv, ExitKept, Over
  <2>3. CASE UNCHANGED <<said, reqs>>
    BY <2>1, <2>2, <2>3, Zenon DEF StatusInv, Queued, Heard, Latest, Handled
  <2>4. CASE reqs' = Append(reqs, m) /\ said' = Append(said, m)
    <3>1. /\ Len(said') = Len(said) + 1 /\ Len(reqs') = Len(reqs) + 1
          /\ \A i \in 1..Len(said) : said'[i] = said[i]
          /\ \A i \in 1..Len(reqs) : reqs'[i] = reqs[i]
          /\ said'[Len(said) + 1] = m /\ reqs'[Len(reqs) + 1] = m
      BY <1>t, <2>4
    <3>2. Handled' = n
      BY <1>t, <3>1 DEF Handled
    <3>3. Queued'
      <4>1. \A i \in 1..(Len(reqs) + 1) : reqs'[i] = said'[n + i]
        <5>1. \A i \in 1..Len(reqs) : n + i \in 1..Len(said)
          BY <1>t
        <5>2. \A i \in 1..Len(reqs) : reqs'[i] = said'[n + i]
          BY <1>t, <3>1, <5>1
        <5>3. n + (Len(reqs) + 1) = Len(said) + 1
          BY <1>t
        <5>4. \A i \in 1..(Len(reqs) + 1) : i \in 1..Len(reqs) \/ i = Len(reqs) + 1
          BY <1>t
        <5> QED
          BY <3>1, <5>2, <5>3, <5>4
      <4> QED
        BY <1>t, <3>1, <3>2, <4>1 DEF Queued
    <3>4. \A i \in 1..n : said[i] = said'[i]
      BY <1>t, <3>1
    <3>5. HeardOf(said', n, wm.status, wm.signal)
      BY <1>t, <1>h, <3>4, HeardSame
    <3> QED
      BY <1>g, <2>1, <2>2, <3>2, <3>3, <3>5 DEF StatusInv
  <2> QED
    BY <2>1, <2>3, <2>4
<1>5. CASE WaitStep
  <2>1. wm.run /\ said' = said /\ closed' = closed /\ exitStatus = NotYet
    BY <1>5, WaitEffect, Zenon DEF StatusInv, ExitKept, Over
  <2>2. ASSUME NEW m, Hears(m) PROVE StatusInv'
    <3>1. /\ Len(reqs) > 0 /\ m = reqs[1] /\ Len(reqs') = Len(reqs) - 1
          /\ \A i \in 1..(Len(reqs) - 1) : reqs'[i] = reqs[i + 1]
      BY <1>t, <2>2 DEF Hears
    <3>2. Handled' = n + 1 /\ m = said[n + 1]
      BY <1>t, <2>1, <3>1 DEF Handled
    <3>3. Queued'
      BY <1>t, <2>1, <3>1, <3>2 DEF Queued
    <3>4. \/ m.t = "exit-status" /\ wm'.status = ToInt(m.v) /\ wm'.signal = wm.signal
          \/ m.t = "exit-signal" /\ wm'.signal = m.v /\ wm'.status = wm.status
          \/ m.t \notin {"exit-status", "exit-signal"} /\ wm'.status = wm.status /\ wm'.signal = wm.signal
      BY <2>2 DEF Hears, TypeOK
    <3>5. HeardOf(said, n + 1, wm'.status, wm'.signal)
      BY <1>t, <1>h, <3>2, <3>4, HeardNext
    <3>6. \/ exitStatus' = NotYet
          \/ exitStatus' = Err("malformed") /\ wm' = [wm EXCEPT !.run = FALSE]
      BY <2>1, <2>2, Zenon DEF Hears
    <3>7. ExitKept'
      BY <3>6 DEF ExitKept, TypeOK
    <3> QED
      BY <1>g, <2>1, <3>2, <3>3, <3>5, <3>7 DEF StatusInv
  <2>3. CASE Ends
    <3>1. reqs = <<>> /\ closed /\ reqs' = reqs /\ exitStatus' = Outcome
      BY <2>3, Zenon DEF Ends
    <3>2. wm'.status = wm.status /\ wm'.signal = wm.signal /\ ~wm'.run
      BY <2>3 DEF Ends, TypeOK
    <3>3. ExitKept'
      BY <2>1, <3>1, <3>2, Zenon DEF ExitKept, Over, Outcome
    <3>4. Queued' /\ Heard'
      <4>1. Handled' = n
        BY <2>1, <3>1, Zenon DEF Handled
      <4>2. Queued'
        BY <2>1, <3>1, <4>1, Zenon DEF StatusInv, Queued
      <4>3. HeardOf(said', Handled', wm'.status, wm'.signal)
        BY <1>h, <2>1, <3>2, <4>1
      <4> QED
        BY <1>g, <4>2, <4>3
    <3> QED
      BY <3>3, <3>4 DEF StatusInv
  <2> QED
    BY <1>5, <2>2, <2>3, WaitEffect
<1> QED
  BY WaiterSteps, <1>1, <1>2, <1>3, <1>4, <1>5

-----------------------------------------------------------------------------
(* The user's calls.                                                       *)

Kept == UNCHANGED <<waits, started, accepted>>

(* A call other than Wait begins, or ends without a start;                 *)
Asks == Kept /\ Idle /\ ~started /\ call'.op \in Setups \cup Methods
Refused == Kept /\ call.op # "Wait" /\ call.op # "collect" /\ call'.op = "none"
           /\ (Idle => call'.res # Nil)
(* the remote accepts, and Output and the like go on to Wait;              *)
Starts == /\ call.op \in Methods /\ started' = TRUE /\ accepted' = accepted + 1
          /\ \/ call'.op = "none" /\ waits' = waits
             \/ call'.op = "Wait" /\ waits' = waits + 1
(* Wait begins.                                                            *)
Waits == /\ Idle /\ started /\ waits < 2 /\ call'.op = "Wait" /\ waits' = waits + 1
         /\ UNCHANGED <<started, accepted>>

(* An error is not nil.                                                    *)
LEMMA NotNil == \A k : k # "nil" => Err(k) # Nil
BY DEF Err, Nil

(* What the steps of the user's goroutine do to its calls.                 *)
LEMMA UserEffect ==
    ASSUME TypeOK, [Next]_vars
    PROVE  UNCHANGED User \/ Asks \/ Refused \/ Starts \/ Waits \/ Exited \/ Collect
<1>1. ASSUME NEW n \in Setups, Setup(n) PROVE Asks
  <2>1. Kept /\ Idle /\ ~started /\ call' = [op |-> n, res |-> Nil]
    BY <1>1, Zenon DEF Setup, Kept, remote
  <2> QED
    BY <2>1 DEF Asks
<1>2. ASSUME NEW m \in Methods, Begin(m) PROVE Asks \/ Refused
  <2>1. /\ Kept /\ Idle
        /\ \/ call' = [op |-> "none", res |-> Err("already set")]
           \/ call' = [op |-> "none", res |-> Err("already started")]
           \/ ~started /\ call' = [op |-> m, res |-> Nil]
    BY <1>2, Zenon DEF Begin, Kept, remote, Return
  <2>2. CASE \E k \in {"already set", "already started"} : call' = [op |-> "none", res |-> Err(k)]
    <3>1. PICK k \in {"already set", "already started"} : call' = [op |-> "none", res |-> Err(k)]
      BY <2>2
    <3>2. call'.op = "none" /\ call'.res = Err(k) /\ k # "nil"
      BY <3>1
    <3>3. call'.res # Nil
      BY <3>2, NotNil
    <3> QED
      BY <2>1, <3>2, <3>3, Zenon DEF Refused, Idle
  <2>3. CASE ~started /\ call' = [op |-> m, res |-> Nil]
    BY <2>1, <2>3 DEF Asks
  <2> QED
    BY <2>1, <2>2, <2>3
<1>3. ASSUME NEW a, Answered(a) PROVE Refused \/ Starts
  <2>1. call.op \in Setups \cup Methods /\ ~Idle
    BY <1>3 DEF Answered, Idle, Setups, Methods
  <2>2. CASE a = "ok" /\ call.op \in Methods
    <3>1. /\ started' = TRUE
          /\ accepted' = accepted + 1 /\ waits' = waits + (IF call'.op = "Wait" THEN 1 ELSE 0)
          /\ call' = [op |-> "none", res |-> Nil] \/ call' = [op |-> "Wait", res |-> Nil]
      BY <1>3, <2>2 DEF Answered, Return
    <3>2. call'.op = "none" \/ call'.op = "Wait"
      BY <3>1
    <3> QED
      BY <2>2, <3>1, <3>2 DEF Starts, TypeOK
  <2>3. CASE ~(a = "ok" /\ call.op \in Methods)
    <3>1. /\ started' = started
          /\ accepted' = accepted + 0 /\ waits' = waits + (IF call'.op = "Wait" THEN 1 ELSE 0)
          /\ \E res : call' = [op |-> "none", res |-> res]
      BY <1>3, <2>3 DEF Answered, Return
    <3>2. call'.op = "none"
      BY <3>1
    <3> QED
      BY <2>1, <3>1, <3>2 DEF Refused, Kept, TypeOK, Setups, Methods
  <2> QED
    BY <2>2, <2>3
<1>4. CASE Wait
  <2>1. CASE started
    <3>1. call' = [op |-> "Wait", res |-> Nil] /\ waits' = waits + 1 /\ Idle /\ waits < 2
          /\ UNCHANGED <<started, accepted>>
      BY <1>4, <2>1, Zenon DEF Wait, remote
    <3> QED
      BY <2>1, <3>1 DEF Waits
  <2>2. CASE ~started
    <3>1. call' = [op |-> "none", res |-> Err("not started")] /\ Idle /\ Kept
      BY <1>4, <2>2, Zenon DEF Wait, Return, Kept, remote
    <3> QED
      BY <3>1, NotNil DEF Refused, Idle
  <2> QED
    BY <2>1, <2>2
<1> QED
  BY UserSteps, <1>1, <1>2, <1>3, <1>4

(* One start at most succeeds.                                             *)
LEMMA StartStep == ASSUME TypeOK, OneStart, [Next]_vars PROVE OneStart'
<1>1. CASE UNCHANGED User \/ Asks \/ Refused
  BY <1>1 DEF User, Asks, Refused, Kept, OneStart, Setups, Methods
<1>2. CASE Starts
  BY <1>2 DEF Starts, OneStart, Setups, Methods, TypeOK
<1>3. CASE Waits
  BY <1>3 DEF Waits, OneStart, Setups, Methods, TypeOK
<1>4. CASE Exited
  BY <1>4 DEF Exited, remote, OneStart, Setups, Methods
<1>5. CASE Collect
  <2>1. UNCHANGED <<started, accepted, waits>> /\ call'.op \in {"none", "collect"}
    BY <1>5 DEF Collect, remote, Return, TypeOK
  <2> QED
    BY <2>1 DEF OneStart, Setups, Methods
<1> QED
  BY UserEffect, <1>1, <1>2, <1>3, <1>4, <1>5

-----------------------------------------------------------------------------
(* The streams.                                                            *)

(* The remote's EOF and close are final.                                   *)
LEMMA EndsStay == ASSUME [Next]_vars PROVE (closed => closed') /\ (eof => eof')
<1>1. ASSUME UNCHANGED vars PROVE UNCHANGED <<closed, eof>>
  BY <1>1 DEF vars, remote
<1>2. ASSUME NEW f, Assign(f) \/ Pipe(f) \/ ReadPipe(f) \/ CopyOutput(f) \/ Setup(f) \/ Begin(f) PROVE UNCHANGED <<closed, eof>>
  BY <1>2 DEF Assign, Pipe, ReadPipe, CopyOutput, Setup, Begin, remote
<1>3. ASSUME NEW f, RemoteData(f) \/ RemoteRequest(f) \/ Answered(f) PROVE UNCHANGED <<closed, eof>>
  BY <1>3 DEF RemoteData, RemoteRequest, Answered
<1>4. ASSUME Wait \/ Exited \/ Collect \/ Close \/ UsePipe \/ Feed \/ CopyStdin \/ WaitStep \/ RemoteRead
      PROVE  UNCHANGED <<closed, eof>>
  BY <1>4 DEF Wait, Exited, Collect, Close, UsePipe, Feed, CopyStdin, WaitStep, RemoteRead, remote
<1>5. ASSUME RemoteEOF PROVE closed' = closed /\ eof' = TRUE
  BY <1>5 DEF RemoteEOF
<1>6. ASSUME RemoteClose PROVE eof' = eof /\ closed' = TRUE
  BY <1>6 DEF RemoteClose
<1>7. \/ UNCHANGED <<closed, eof>>
      \/ closed' = closed /\ eof' = TRUE
      \/ eof' = eof /\ closed' = TRUE
  BY <1>1, <1>2, <1>3, <1>4, <1>5, <1>6 DEF Next
<1> QED
  BY <1>7

(* A step that leaves a stream alone.                                      *)
LEMMA StreamSame ==
    ASSUME NEW g, Stream(g), [Next]_vars, started' = started, piped' = piped,
           copy'[g] = copy[g], sent'[g] = sent[g], copied'[g] = copied[g], buf'[g] = buf[g]
    PROVE  Stream(g)'
BY EndsStay, Zenon DEF Stream

(* Every step keeps the account of the streams.                            *)
LEMMA StreamStep == ASSUME TypeOK, OneStart, Streams, [Next]_vars PROVE Streams'
<1> SUFFICES ASSUME NEW g \in Outputs PROVE Stream(g)'
  BY DEF Streams
<1>s. Stream(g) /\ g \in Fds /\ g # "stdin"
  BY DEF Streams, Outputs, Fds
<1>t. /\ copy \in [Fds -> {"none", "run", "ok", "err"}]
      /\ buf \in [Outputs -> Nat] /\ copied \in [Outputs -> Nat] /\ sent \in [Outputs -> Nat]
  BY DEF TypeOK
<1>1. CASE UNCHANGED Flow
  BY <1>1, <1>s, StreamSame, Zenon DEF Flow
<1>2. ASSUME NEW f \in Pipes, Pipe(f) PROVE Stream(g)'
  <2>1. /\ ~started /\ UNCHANGED <<started, copy, buf, copied, sent>>
    BY <1>2, Zenon DEF Pipe, output, remote
  <2> QED
    BY <1>s, <2>1 DEF Stream
<1>3. CASE Answered("ok")
  <2>1. UNCHANGED <<piped, buf, copied, sent>>
    BY <1>3 DEF Answered, output
  <2>2. CASE call.op \in Methods
    <3>1. ~started /\ started' = TRUE /\ copy' = [f \in Fds |-> IF f \in piped THEN copy[f] ELSE "run"]
      BY <1>3, <2>2 DEF Answered, OneStart
    <3>2. copy[g] = "none" /\ sent[g] = 0 /\ copied[g] = 0 /\ buf[g] = 0
      BY <1>s, <3>1 DEF Stream
    <3>3. copy'[g] = IF g \in piped THEN "none" ELSE "run"
      BY <1>s, <3>1, <3>2
    <3> QED
      BY <2>1, <3>1, <3>2, <3>3 DEF Stream
  <2>3. CASE call.op \notin Methods
    <3>1. UNCHANGED <<started, copy>>
      BY <1>3, <2>3 DEF Answered
    <3> QED
      BY <1>s, <2>1, <3>1, StreamSame, Zenon
  <2> QED
    BY <2>2, <2>3
<1>4. CASE CopyStdin
  <2>1. UNCHANGED <<started, piped, buf, copied, sent>>
    BY <1>4 DEF CopyStdin, user, output, remote
  <2>2. copy'[g] = copy[g]
    <3>1. copy' = copy \/ \E res : copy' = [copy EXCEPT !["stdin"] = res]
      BY <1>4, Zenon DEF CopyStdin
    <3> QED
      BY <1>s, <1>t, <3>1
  <2> QED
    BY <1>s, <2>1, <2>2, StreamSame, Zenon
<1>5. ASSUME NEW f \in Outputs, ReadPipe(f) PROVE Stream(g)'
  <2>1. /\ UNCHANGED <<started, piped, copied, sent, copy>> /\ f \in piped /\ buf[f] > 0
        /\ buf' = [buf EXCEPT ![f] = @ - 1]
    BY <1>5 DEF ReadPipe, user, remote
  <2>2. CASE f # g
    <3>1. buf'[g] = buf[g]
      BY <1>t, <2>1, <2>2
    <3> QED
      BY <1>s, <2>1, <3>1, StreamSame, Zenon
  <2>3. CASE f = g
    <3>1. started /\ copy[g] = "none"
      BY <1>s, <1>t, <2>1, <2>3 DEF Stream
    <3> QED
      BY <2>1, <2>3, <3>1 DEF Stream
  <2> QED
    BY <2>2, <2>3
<1>6. ASSUME NEW f \in Outputs, CopyOutput(f) PROVE Stream(g)'
  <2>1. /\ copy[f] = "run" /\ UNCHANGED <<started, piped, sent, closed, eof>>
        /\ \/ /\ buf[f] > 0 /\ buf' = [buf EXCEPT ![f] = @ - 1]
              /\ copied' = [copied EXCEPT ![f] = @ + 1] /\ copy' = copy
           \/ /\ buf' = [buf EXCEPT ![f] = @ - 1]
              /\ copied' = copied /\ copy' = [copy EXCEPT ![f] = "err"]
           \/ /\ buf[f] = 0 /\ (eof \/ closed)
              /\ copy' = [copy EXCEPT ![f] = "ok"] /\ UNCHANGED <<buf, copied>>
    BY <1>6, Zenon DEF CopyOutput, user, remote, output
  <2>2. CASE f # g
    <3>1. buf'[g] = buf[g] /\ copied'[g] = copied[g] /\ copy'[g] = copy[g]
      BY <1>s, <1>t, <2>1, <2>2
    <3> QED
      BY <1>s, <2>1, <2>2, <3>1, StreamSame, Zenon
  <2>3. CASE f = g
    <3>1. started /\ g \notin piped /\ sent[g] = copied[g] + buf[g]
      BY <1>s, <2>1, <2>3 DEF Stream
    <3>2. CASE buf[f] > 0 /\ buf' = [buf EXCEPT ![f] = @ - 1] /\ copied' = [copied EXCEPT ![f] = @ + 1] /\ copy' = copy
      <4>1. buf'[g] = buf[g] - 1 /\ copied'[g] = copied[g] + 1 /\ copy'[g] = "run"
        BY <1>t, <2>1, <2>3, <3>2
      <4>2. sent'[g] = copied'[g] + buf'[g]
        BY <1>t, <2>1, <3>1, <4>1
      <4> QED
        BY <2>1, <3>1, <4>1, <4>2 DEF Stream
    <3>3. CASE copy' = [copy EXCEPT ![f] = "err"]
      <4>1. copy'[g] = "err"
        BY <1>s, <1>t, <2>3, <3>3
      <4> QED
        BY <2>1, <3>1, <4>1 DEF Stream
    <3>4. CASE buf[f] = 0 /\ (eof \/ closed) /\ copy' = [copy EXCEPT ![f] = "ok"] /\ UNCHANGED <<buf, copied>>
      <4>1. copy'[g] = "ok"
        BY <1>s, <1>t, <2>3, <3>4
      <4> QED
        BY <2>1, <2>3, <3>1, <3>4, <4>1 DEF Stream
    <3> QED
      BY <2>1, <3>2, <3>3, <3>4
  <2> QED
    BY <2>2, <2>3
<1>7. ASSUME NEW f \in Outputs, RemoteData(f) PROVE Stream(g)'
  <2>1. /\ UNCHANGED <<started, piped, copied, copy, closed, eof>> /\ accepted > 0 /\ ~eof /\ ~closed
        /\ sent' = [sent EXCEPT ![f] = @ + 1] /\ buf' = [buf EXCEPT ![f] = @ + 1]
    BY <1>7 DEF RemoteData, Live
  <2>2. CASE f # g
    <3>1. buf'[g] = buf[g] /\ sent'[g] = sent[g]
      BY <1>t, <2>1, <2>2
    <3> QED
      BY <1>s, <2>1, <3>1, StreamSame, Zenon
  <2>3. CASE f = g
    <3>1. started
      BY <2>1 DEF OneStart
    <3>2. buf'[g] = buf[g] + 1 /\ sent'[g] = sent[g] + 1 /\ copied'[g] = copied[g] /\ copied[g] \in Nat /\ buf[g] \in Nat
      BY <1>t, <2>1, <2>3
    <3> QED
      BY <1>s, <2>1, <3>1, <3>2 DEF Stream
  <2> QED
    BY <2>2, <2>3
<1> QED
  BY FlowSteps, <1>1, <1>2, <1>3, <1>4, <1>5, <1>6, <1>7

-----------------------------------------------------------------------------
(* Wait and its result.                                                    *)

(* Once the result is taken, or the remote has ended well, it stays so.    *)
LEMMA SpentStays ==
    ASSUME ~wm.run, exitStatus = NotYet, [Next]_vars
    PROVE  ~wm'.run /\ exitStatus' = NotYet
<1>1. ASSUME NEW m, RemoteRequest(m) PROVE UNCHANGED <<wm, exitStatus>>
  BY <1>1 DEF RemoteRequest
<1>2. ~WaitStep /\ ~Exited
  BY DEF WaitStep, Exited
<1> QED
  BY <1>1, <1>2, WaiterSteps, Zenon DEF Waiter

(* A session that has ended well has ended.                                *)
LEMMA SuccessStays == ASSUME Success, [Next]_vars PROVE Success'
<1>1. ASSUME NEW m PROVE ~RemoteRequest(m)
  BY DEF RemoteRequest, Live, Success, Over
<1>2. ~WaitStep
  BY DEF WaitStep, Success, Over
<1>3. closed'
  BY EndsStay DEF Success, Over
<1>4. UNCHANGED <<wm, reqs>>
  <2>1. ASSUME Exited PROVE UNCHANGED <<wm, reqs>>
    BY <2>1 DEF Exited
  <2> QED
    BY <1>1, <1>2, <2>1, WaiterSteps, Zenon DEF Waiter
<1> QED
  BY <1>3, <1>4, Zenon DEF Success, Over

(* So does the result of a copy.                                           *)
LEMMA CopyStays ==
    ASSUME TypeOK, call.op \notin Methods, [Next]_vars, NEW g \in Fds, copy[g] # "run"
    PROVE  copy'[g] = copy[g]
<1>t. copy \in [Fds -> {"none", "run", "ok", "err"}]
  BY DEF TypeOK
<1>1. ASSUME NEW f, Pipe(f) \/ ReadPipe(f) \/ RemoteData(f) PROVE UNCHANGED copy
  BY <1>1 DEF Pipe, ReadPipe, RemoteData
<1>2. ASSUME Answered("ok") PROVE UNCHANGED copy
  BY <1>2 DEF Answered
<1>3. ASSUME CopyStdin PROVE copy'[g] = copy[g]
  <2>1. copy["stdin"] = "run" /\ (copy' = copy \/ \E res : copy' = [copy EXCEPT !["stdin"] = res])
    BY <1>3, Zenon DEF CopyStdin
  <2> QED
    BY <1>t, <2>1
<1>4. ASSUME NEW f \in Outputs, CopyOutput(f) PROVE copy'[g] = copy[g]
  <2>1. copy[f] = "run" /\ (copy' = copy \/ \E res : copy' = [copy EXCEPT ![f] = res])
    BY <1>4, Zenon DEF CopyOutput
  <2> QED
    BY <1>t, <2>1
<1> QED
  BY FlowSteps, <1>1, <1>2, <1>3, <1>4 DEF Flow

(* Wait receives the result once, and collects afterwards.                 *)
LEMMA ExitedEffect ==
    ASSUME TypeOK, StatusInv, Once, Exited
    PROVE  /\ waits = 1 /\ waits' = 1 /\ collected = {} /\ collected' = {}
           /\ call' = [op |-> "collect", res |-> exitStatus] /\ exitStatus # NotYet
           /\ ~wm'.run /\ exitStatus' = NotYet /\ UNCHANGED <<wm, reqs, closed, copy>>
<1>1. /\ call.op = "Wait" /\ exitStatus # NotYet /\ exitStatus' = NotYet /\ waits' = waits
      /\ call' = [op |-> "collect", res |-> exitStatus] /\ UNCHANGED <<wm, reqs, closed, collected, copy>>
  BY Zenon DEF Exited, remote
<1>2. waits = 1
  BY <1>1 DEF Once, TypeOK
<1>3. ~wm.run
  BY <1>1 DEF StatusInv, ExitKept, Over
<1> QED
  BY <1>1, <1>2, <1>3 DEF Once

(* Collect takes one more result, or returns when it has them all.         *)
LEMMA CollectEffect ==
    ASSUME TypeOK, Once, Collect
    PROVE  /\ call.op = "collect" /\ waits = 1 /\ waits' = 1 /\ UNCHANGED copy
           /\ \/ /\ call'.op = "collect"
                 /\ \E f \in Fds : /\ copy[f] \in {"ok", "err"} /\ collected' = collected \cup {f}
                                   /\ call'.res = Nil => call.res = Nil /\ copy[f] # "err"
              \/ /\ call'.op = "none" /\ call'.res = call.res
                 /\ \A f \in Fds : copy[f] # "none" => f \in collected
<1>1. call.op = "collect" /\ waits = 1 /\ waits' = 1 /\ UNCHANGED copy
  BY DEF Collect, Once
<1>2. ASSUME NEW f \in Fds, copy[f] \in {"ok", "err"}, collected' = collected \cup {f},
             call' = IF copy[f] = "err" /\ call.res = Nil THEN [call EXCEPT !.res = Err("copy")] ELSE call
      PROVE  call'.op = "collect" /\ (call'.res = Nil => call.res = Nil /\ copy[f] # "err")
  <2>1. CASE copy[f] = "err" /\ call.res = Nil
    <3>1. call' = [call EXCEPT !.res = Err("copy")]
      BY <1>2, <2>1
    <3>2. call'.op = "collect" /\ call'.res = Err("copy")
      BY <1>1, <3>1 DEF TypeOK
    <3> QED
      BY <3>2, NotNil
  <2>2. CASE ~(copy[f] = "err" /\ call.res = Nil)
    BY <1>1, <1>2, <2>2
  <2> QED
    BY <2>1, <2>2
<1>3. \/ \E f \in Fds : /\ copy[f] \in {"ok", "err"} /\ collected' = collected \cup {f}
                        /\ call' = IF copy[f] = "err" /\ call.res = Nil
                                   THEN [call EXCEPT !.res = Err("copy")] ELSE call
      \/ /\ call' = [op |-> "none", res |-> call.res]
         /\ \A f \in Fds : copy[f] # "none" => f \in collected
  BY Zenon DEF Collect, Return
<1>4. CASE call' = [op |-> "none", res |-> call.res] /\ \A f \in Fds : copy[f] # "none" => f \in collected
  <2>1. call'.op = "none" /\ call'.res = call.res
    BY <1>4
  <2> QED
    BY <1>1, <1>4, <2>1, Zenon
<1> QED
  BY <1>1, <1>2, <1>3, <1>4, Zenon

(* The one result is received once.                                        *)
LEMMA OnceStep == ASSUME TypeOK, StatusInv, OneStart, Once, [Next]_vars PROVE Once'
<1>s. ASSUME ~wm.run, exitStatus = NotYet PROVE ~wm'.run /\ exitStatus' = NotYet
  BY <1>s, SpentStays
<1>1. CASE Exited
  BY <1>1, ExitedEffect DEF Once
<1>2. CASE Collect
  <2>1. call'.op \in {"none", "collect"} /\ waits = 1 /\ waits' = 1 /\ call.op = "collect"
    BY <1>2, CollectEffect
  <2> QED
    BY <2>1, <1>s DEF Once
<1>3. CASE UNCHANGED collected
  <2>1. CASE UNCHANGED User
    BY <1>3, <2>1, <1>s DEF User, Once
  <2>2. CASE Asks
    BY <1>3, <2>2, <1>s DEF Asks, Kept, Once, OneStart, TypeOK, Setups, Methods
  <2>3. CASE Refused
    BY <1>3, <2>3, <1>s DEF Refused, Kept, Once
  <2>4. CASE Starts
    <3>1. waits = 0 /\ collected = {}
      BY <2>4 DEF Starts, OneStart, Once, TypeOK
    <3> QED
      BY <1>3, <2>4, <3>1 DEF Starts, Once
  <2>5. CASE Waits
    BY <1>3, <2>5, <1>s DEF Waits, Idle, Once, TypeOK
  <2> QED
    BY <1>1, <1>2, <2>1, <2>2, <2>3, <2>4, <2>5, UserEffect
<1> QED
  BY <1>2, <1>3, CollectedSteps

(* A nil result stays what it was when it was returned.                    *)
LEMMA NilStep ==
    ASSUME TypeOK, StatusInv, OneStart, Once, NilSoFar, NilAtEnd, [Next]_vars
    PROVE  NilSoFar' /\ NilAtEnd'
<1>c. collected \subseteq Fds /\ Outputs \subseteq Fds /\ waits \in Nat
  BY DEF TypeOK, Outputs, Fds
<1>1. CASE Exited
  <2>1. NilSoFar'
    <3>1. SUFFICES ASSUME call'.res = Nil PROVE Success' /\ \A f \in collected' : copy'[f] = "ok"
      BY Zenon DEF NilSoFar
    <3>2. exitStatus = Nil /\ collected' = {}
      BY <1>1, <3>1, ExitedEffect
    <3>3. Nil # NotYet /\ Nil # Err("malformed")
      BY DEF Nil, NotYet, Err
    <3>4. Outcome = Nil /\ Over
      BY <3>2, <3>3 DEF StatusInv, ExitKept
    <3>5. wm.status = 0
      <4>1. Err("no status") # Nil /\ \A st, sig : Exit(st, sig) # Nil
        BY DEF Err, Exit, Nil
      <4> QED
        BY <3>4, <4>1, Zenon DEF Outcome
    <3>6. Success'
      BY <3>4, <3>5, SuccessStays DEF Success
    <3> QED
      BY <3>2, <3>6
  <2>2. NilAtEnd'
    BY <1>1, ExitedEffect DEF NilAtEnd, Idle
  <2> QED
    BY <2>1, <2>2
<1>2. CASE Collect
  <2>1. CASE call'.op = "collect"
    <3>1. PICK f \in Fds : /\ copy[f] \in {"ok", "err"} /\ collected' = collected \cup {f}
                           /\ call'.res = Nil => call.res = Nil /\ copy[f] # "err"
      BY <1>2, <2>1, CollectEffect
    <3>2. call.op = "collect" /\ UNCHANGED copy
      BY <1>2, CollectEffect
    <3>3. call'.res = Nil => Success /\ \A g \in collected' : copy'[g] = "ok"
      BY <3>1, <3>2 DEF NilSoFar
    <3>4. NilSoFar'
      BY <3>3, SuccessStays, Zenon DEF NilSoFar
    <3> QED
      BY <2>1, <3>4 DEF NilAtEnd, Idle
  <2>2. CASE call'.op # "collect"
    <3>1. /\ call'.op = "none" /\ call'.res = call.res /\ call.op = "collect" /\ UNCHANGED copy
          /\ \A f \in Fds : copy[f] # "none" => f \in collected
      BY <1>2, <2>2, CollectEffect
    <3>2. call'.res = Nil => Success /\ \A f \in Outputs : copy'[f] \in {"none", "ok"}
      BY <1>c, <3>1 DEF NilSoFar
    <3>3. NilAtEnd'
      BY <3>2, SuccessStays, Zenon DEF NilAtEnd
    <3> QED
      BY <3>1, <3>3 DEF NilSoFar
  <2> QED
    BY <2>1, <2>2
<1>3. CASE UNCHANGED User /\ UNCHANGED collected
  <2>1. call' = call /\ waits' = waits /\ collected' = collected
    BY <1>3 DEF User
  <2>2. ASSUME call.op = "collect", call.res = Nil PROVE Success' /\ \A f \in collected' : copy'[f] = "ok"
    <3>1. Success /\ call.op \notin Methods /\ \A f \in collected : copy[f] = "ok"
      BY <2>2 DEF NilSoFar, Methods
    <3>2. \A f \in collected : copy'[f] = "ok"
      BY <1>c, <3>1, CopyStays
    <3> QED
      BY <2>1, <3>1, <3>2, SuccessStays
  <2>3. ASSUME waits = 1, Idle, call.res = Nil
        PROVE  Success' /\ \A f \in Outputs : copy'[f] \in {"none", "ok"}
    <3>1. Success /\ call.op \notin Methods /\ \A f \in Outputs : copy[f] \in {"none", "ok"}
      BY <2>3 DEF NilAtEnd, Methods, Idle
    <3>2. \A f \in Outputs : copy'[f] \in {"none", "ok"}
      BY <1>c, <3>1, CopyStays
    <3> QED
      BY <3>1, <3>2, SuccessStays
  <2> QED
    BY <2>1, <2>2, <2>3, Zenon DEF NilSoFar, NilAtEnd, Idle
<1>4. CASE Asks
  BY <1>4 DEF Asks, NilSoFar, NilAtEnd, Idle, Setups, Methods
<1>5. CASE Refused
  <2>1. ~Idle => waits = 0
    BY <1>5, <1>c DEF Refused, OneStart, Idle, TypeOK, Ops
  <2> QED
    BY <1>5, <2>1 DEF Refused, Kept, NilSoFar, NilAtEnd
<1>6. CASE Starts
  <2>1. waits = 0
    BY <1>6, <1>c DEF Starts, OneStart
  <2> QED
    BY <1>6, <2>1 DEF Starts, NilSoFar, NilAtEnd, Idle
<1>7. CASE Waits
  BY <1>7 DEF Waits, NilSoFar, NilAtEnd, Idle
<1> QED
  BY UserEffect, CollectedSteps, <1>1, <1>2, <1>3, <1>4, <1>5, <1>6, <1>7

(* Every step keeps the invariant.                                         *)
LEMMA NextInv == ASSUME Inv, [Next]_vars PROVE Inv'
BY TypeStep, StatusStep, StartStep, StreamStep, OnceStep, NilStep DEF Inv

(* The goroutine that reads the exit messages remembers the last of each   *)
(* kind (session.go, wait), one start at most succeeds, every chunk of     *)
(* output is copied, buffered or lost to a copy that failed, and the one   *)
(* result is received once, whatever user and remote do in which order.    *)
THEOREM ResultsKept == Spec => []Inv
<1>1. Init => Inv
  BY InitInv
<1>2. Inv /\ [Next]_vars => Inv'
  BY NextInv
<1> QED
  BY <1>1, <1>2, PTL DEF Spec

-----------------------------------------------------------------------------
(* The last of the messages of one kind.                                   *)
LEMMA LastIs ==
    ASSUME NEW kind, said \in Seq(Messages), NEW i \in 1..Len(said), Latest(kind, i, Len(said))
    PROVE  i \in Sent(kind) /\ LastOf(kind) = said[i].v
<1>1. DOMAIN said = 1..Len(said) /\ Sent(kind) \subseteq Int
  BY DEF Sent
<1>2. i \in Sent(kind) /\ \A j \in Sent(kind) : j <= i
  BY <1>1 DEF Sent, Latest
<1>3. PICK l : l = CHOOSE j \in Sent(kind) : \A k \in Sent(kind) : k <= j
  OBVIOUS
<1>4. l \in Sent(kind) /\ \A k \in Sent(kind) : k <= l
  BY <1>2, <1>3
<1>5. l = i
  BY <1>1, <1>2, <1>4
<1> QED
  BY <1>2, <1>3, <1>5 DEF LastOf

(* At the end, what is remembered is what the remote sent last.            *)
LEMMA AllHeard ==
    ASSUME Inv, Over
    PROVE  /\ \/ wm.status = -1 /\ Sent("exit-status") = {}
              \/ \E v \in Statuses : /\ Sent("exit-status") # {} /\ LastOf("exit-status") = v
                                     /\ wm.status = ToInt(v)
           /\ \/ wm.signal = NoSignal /\ Sent("exit-signal") = {}
              \/ \E v \in SignalNames : /\ Sent("exit-signal") # {} /\ LastOf("exit-signal") = v
                                        /\ wm.signal = v
<1>1. said \in Seq(Messages) /\ Handled = Len(said) /\ DOMAIN said = 1..Len(said)
  BY DEF Inv, TypeOK, Over, Handled
<1>2. \A i \in 1..Len(said) : /\ said[i] \in Messages
                              /\ said[i].t = "exit-status" => said[i].v \in Statuses
                              /\ said[i].t = "exit-signal" => said[i].v \in SignalNames
  <2>1. ASSUME NEW m \in Messages
        PROVE  /\ m.t = "exit-status" => m.v \in Statuses
               /\ m.t = "exit-signal" => m.v \in SignalNames
    <3>1. CASE \E s \in Statuses : m = [t |-> "exit-status", v |-> s]
      BY <3>1
    <3>2. CASE \E s \in SignalNames : m = [t |-> "exit-signal", v |-> s]
      BY <3>2
    <3>3. CASE \E k \in Other : m = [t |-> k, v |-> 0]
      BY <3>3, SessionAssumption
    <3> QED
      BY <3>1, <3>2, <3>3 DEF Messages
  <2>2. \A i \in 1..Len(said) : said[i] \in Messages
    BY <1>1
  <2> QED
    BY <2>1, <2>2
<1>3. \/ wm.status = -1 /\ Sent("exit-status") = {}
      \/ \E v \in Statuses : Sent("exit-status") # {} /\ LastOf("exit-status") = v /\ wm.status = ToInt(v)
  <2>1. CASE wm.status = -1 /\ \A i \in 1..Handled : said[i].t # "exit-status"
    BY <1>1, <2>1 DEF Sent
  <2>2. CASE \E i \in 1..Handled : Latest("exit-status", i, Handled) /\ wm.status = ToInt(said[i].v)
    <3>1. PICK i \in 1..Len(said) : Latest("exit-status", i, Len(said)) /\ wm.status = ToInt(said[i].v)
      BY <1>1, <2>2
    <3>2. said[i].v \in Statuses
      BY <1>2, <3>1 DEF Latest
    <3> QED
      BY <1>1, <3>1, <3>2, LastIs
  <2> QED
    BY <2>1, <2>2 DEF Inv, StatusInv, Heard
<1>4. \/ wm.signal = NoSignal /\ Sent("exit-signal") = {}
      \/ \E v \in SignalNames : Sent("exit-signal") # {} /\ LastOf("exit-signal") = v /\ wm.signal = v
  <2>1. CASE wm.signal = NoSignal /\ \A i \in 1..Handled : said[i].t # "exit-signal"
    BY <1>1, <2>1 DEF Sent
  <2>2. CASE \E i \in 1..Handled : Latest("exit-signal", i, Handled) /\ wm.signal = said[i].v
    <3>1. PICK i \in 1..Len(said) : Latest("exit-signal", i, Len(said)) /\ wm.signal = said[i].v
      BY <1>1, <2>2
    <3>2. said[i].v \in SignalNames
      BY <1>2, <3>1 DEF Latest
    <3> QED
      BY <1>1, <3>1, <3>2, LastIs
  <2> QED
    BY <2>1, <2>2 DEF Inv, StatusInv, Heard
<1> QED
  BY <1>3, <1>4

(* No other status than zero becomes zero in an int.                       *)
LEMMA ZeroStays == ASSUME NEW v \in Statuses, ToInt(v) = 0 PROVE v = 0
<1>1. v \in 0..(2^IntBits - 1) /\ IntBits \in Nat
  BY SessionAssumption
<1> QED
  BY <1>1 DEF ToInt

(* Wait, Run and Output return nil only if the last exit status that the   *)
(* remote sent is zero and all the output it sent is in Stdout and Stderr  *)
(* (session.go, Wait and wait), for any order of exit messages, output,    *)
(* end of streams and calls, and of the remote's answers at most one is    *)
(* the acceptance of a start.                                              *)
THEOREM NilIsDone == Spec => []NilMeansDone
<1>1. ASSUME Inv PROVE NilMeansDone
  <2> SUFFICES ASSUME waits = 1, Idle, started, call.res = Nil
               PROVE  /\ Sent("exit-status") # {} /\ LastOf("exit-status") = 0
                      /\ \A f \in Outputs \ piped : copied[f] = sent[f]
                      /\ accepted = 1
    BY DEF NilMeansDone
  <2>1. Over /\ wm.status = 0 /\ \A f \in Outputs : copy[f] \in {"none", "ok"}
    BY <1>1 DEF Inv, NilAtEnd, Success
  <2>2. Sent("exit-status") # {} /\ LastOf("exit-status") = 0
    BY <1>1, <2>1, AllHeard, ZeroStays
  <2>3. ASSUME NEW f \in Outputs \ piped PROVE copied[f] = sent[f]
    <3>1. copied[f] \in Nat
      BY <1>1 DEF Inv, TypeOK
    <3> QED
      BY <1>1, <2>1, <3>1 DEF Inv, Streams, Stream
  <2>4. accepted = 1
    BY <1>1 DEF Inv, OneStart
  <2> QED
    BY <2>2, <2>3, <2>4
<1> QED
  BY <1>1, ResultsKept, PTL

(* Where an int holds every exit status, what Wait reports is the last one *)
(* that the remote sent, and "without exit status or exit signal" only if  *)
(* it sent neither (session.go, wait).                                     *)
THEOREM StatusIsTrue ==
    ASSUME \A s \in Statuses : s < 2^(IntBits - 1)
    PROVE  Spec => []StatusTrue
<1>1. ASSUME Inv PROVE StatusTrue
  <2> SUFFICES ASSUME exitStatus.k \notin {"notyet", "malformed"} PROVE StatusTrue
    BY DEF StatusTrue
  <2>1. exitStatus = Outcome /\ Over
    <3>1. NotYet.k = "notyet" /\ Err("malformed").k = "malformed"
      BY DEF NotYet, Err
    <3> QED
      BY <1>1, <3>1 DEF Inv, StatusInv, ExitKept
  <2>2. \A v \in Statuses : v \in Nat /\ ToInt(v) = v
    BY SessionAssumption DEF ToInt
  <2>3. CASE Sent("exit-status") # {}
    <3>1. PICK v \in Nat : LastOf("exit-status") = v /\ wm.status = v
      BY <1>1, <2>1, <2>2, <2>3, AllHeard
    <3>2. exitStatus = IF v = 0 THEN Nil ELSE Exit(v, wm.signal)
      <4>1. v # -1
        OBVIOUS
      <4> QED
        BY <2>1, <3>1, <4>1, Zenon DEF Outcome
    <3>3. exitStatus.k = (IF v = 0 THEN "nil" ELSE "exit") /\ exitStatus.status = v
      BY <3>2 DEF Nil, Exit
    <3> QED
      BY <2>3, <3>1, <3>3 DEF StatusTrue
  <2>4. CASE Sent("exit-status") = {}
    <3>1. wm.status = -1
      BY <1>1, <2>1, <2>4, AllHeard
    <3>2. CASE Sent("exit-signal") = {}
      <4>1. wm.signal = NoSignal
        BY <1>1, <2>1, <3>2, AllHeard
      <4>2. exitStatus = Err("no status")
        <5>1. -1 # 0
          OBVIOUS
        <5> QED
          BY <2>1, <3>1, <4>1, <5>1, Zenon DEF Outcome
      <4>3. exitStatus.k = "no status"
        BY <4>2 DEF Err
      <4> QED
        BY <2>4, <3>2, <4>3, Zenon DEF StatusTrue
    <3>3. CASE Sent("exit-signal") # {}
      <4>1. wm.signal \in SignalNames /\ LastOf("exit-signal") = wm.signal
        BY <1>1, <2>1, <3>3, AllHeard
      <4>2. wm.signal # NoSignal
        BY <4>1, SessionAssumption DEF SignalNames
      <4>3. PICK n \in Nat : n = IF wm.signal \in DOMAIN Signals THEN Signals[wm.signal] ELSE 0
        BY SessionAssumption
      <4>4. exitStatus = Exit(128 + n, wm.signal)
        BY <2>1, <3>1, <4>2, <4>3 DEF Outcome
      <4>5. exitStatus.k = "exit" /\ exitStatus.status >= 128 /\ exitStatus.signal = wm.signal
        BY <4>4 DEF Exit
      <4> QED
        BY <2>4, <3>3, <4>1, <4>5, Zenon DEF StatusTrue
    <3> QED
      BY <3>2, <3>3
  <2> QED
    BY <2>3, <2>4
<1> QED
  BY <1>1, ResultsKept, PTL

=============================================================================
