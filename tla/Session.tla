------------------------------ MODULE Session -------------------------------
(***************************************************************************)
(* A client session (session.go): a remote command, the goroutines that    *)
(* copy its three streams, the goroutine that reads its exit messages, and *)
(* the user's goroutine that configures, starts and waits for it.          *)
(*                                                                         *)
(* The channel underneath is the one of ChannelData and Channels.  Here it *)
(* is what Session sees of it: a stream carries a number of chunks, stdout *)
(* and stderr share one window of Window chunks, stdin has its own, and a  *)
(* request of the remote waits in a queue of ReqCap.  The remote command   *)
(* may do anything the protocol allows in any order and may stop anywhere. *)
(***************************************************************************)
EXTENDS Integers, Sequences, FiniteSets

CONSTANTS
    Statuses,   \* the exit statuses the remote may send (32 bits on the wire)
    IntBits,    \* width of Go's int (32 or 64)
    Signals,    \* signals[s]: number of a signal that session.go lists
    OtherSignal,\* the name of a signal that it does not list
    Other,      \* which of "malformed" (an exit-signal) and "keepalive" the remote may send
    Assignable, \* the fields of Stdin, Stdout and Stderr that the user may set
    Pipes,      \* the streams that the user may take as pipes
    Calls,      \* the methods that the user may call
    ReqCap,     \* capacity of incomingRequests (16 in the code)
    Window,     \* window shared by stdout and stderr
    MaxActs     \* bound: fields set, pipes taken, calls made, requests refused, chunks and
                \* exit messages sent, all together

Fds == {"stdin", "stdout", "stderr"}
Outputs == {"stdout", "stderr"}
NoSignal == ""
Setups == {"env", "pty-req", "subsystem"}   \* Setenv, RequestPty, RequestSubsystem
Methods == {"Start", "Shell", "Output", "CombinedOutput"}

ASSUME SessionAssumption ==
    /\ IntBits \in Nat \ {0} /\ Statuses \subseteq 0..(2^IntBits - 1)
    /\ \A s \in DOMAIN Signals : Signals[s] \in Nat
    /\ OtherSignal \notin DOMAIN Signals /\ NoSignal \notin DOMAIN Signals \cup {OtherSignal}
    /\ Other \subseteq {"malformed", "keepalive"}
    /\ Assignable \subseteq Fds /\ Pipes \subseteq Fds /\ Calls \subseteq Setups \cup Methods
    /\ {ReqCap, Window, MaxActs} \subseteq Nat

VARIABLES
    given,      \* the fields of Stdin, Stdout, Stderr that are not nil
    piped,      \* stdinpipe, stdoutpipe, stderrpipe
    started,
    call,       \* the user's call in progress, or its last result
    acts,       \* what counts towards MaxActs
    copy,       \* copy[f]: "none", "run", or what the copy function returned
    collected,  \* the copy functions whose result Wait has received
    feeder,     \* the goroutine that copies Session.Stdin into the io.Pipe
    pipe,       \* the io.Pipe: "open", "eof" or "err", and the chunk it holds
    inflight,   \* chunks of stdin the remote has not read
    sentEOF, sentClose,
    buf,        \* buf[f]: chunks in the channel's buffer of stdout, stderr
    window,     \* what the remote may still send
    copied,     \* copied[f]: chunks given to Stdout, Stderr
    reqs, closed, eof,      \* requests received; the remote has closed; has sent EOF
    wm, exitStatus,         \* of the goroutine that runs wait
    jammed,     \* the mux's loop waits on a request queue that nobody reads
    accepted, sent, said,   \* history: starts accepted, chunks and exit messages sent
    waits       \* calls of Wait

user == <<given, piped, started, call, acts, waits>>
stdin == <<feeder, pipe, inflight, sentEOF, sentClose>>
output == <<buf, window, copied>>
remote == <<closed, eof, jammed, accepted, sent, said>>
waiter == <<reqs, wm, exitStatus>>
vars == <<user, copy, collected, stdin, output, remote, waiter>>

Nil == [k |-> "nil", status |-> 0, signal |-> NoSignal]
Err(k) == [k |-> k, status |-> 0, signal |-> NoSignal]
Exit(st, sig) == [k |-> "exit", status |-> st, signal |-> sig]
NotYet == Err("notyet")

Init ==
    /\ given = {} /\ piped = {} /\ started = FALSE
    /\ call = [op |-> "none", res |-> Nil] /\ acts = 0 /\ waits = 0
    /\ copy = [f \in Fds |-> "none"] /\ collected = {}
    /\ feeder = "none" /\ pipe = [st |-> "none", full |-> FALSE]
    /\ inflight = 0 /\ sentEOF = FALSE /\ sentClose = FALSE
    /\ buf = [f \in Outputs |-> 0] /\ window = Window /\ copied = [f \in Outputs |-> 0]
    /\ reqs = <<>> /\ closed = FALSE /\ eof = FALSE /\ jammed = FALSE
    /\ wm = [run |-> TRUE, status |-> -1, signal |-> NoSignal] /\ exitStatus = NotYet
    /\ accepted = 0 /\ sent = [f \in Outputs |-> 0] /\ said = <<>>

Act == acts < MaxActs /\ acts' = acts + 1
Idle == call.op = "none"
Return(res) == call' = [op |-> "none", res |-> res]

-----------------------------------------------------------------------------
(* The user's goroutine.                                                   *)

(* An assignment to Stdin, Stdout or Stderr.                               *)
Assign(f) ==
    /\ Idle /\ ~started /\ f \notin given
    /\ given' = given \cup {f} /\ Act
    /\ UNCHANGED <<piped, started, call, waits, copy, collected, stdin, output, remote, waiter>>

(* StdinPipe, StdoutPipe and StderrPipe: refused when the field is set or  *)
(* the command has started.                                                *)
Pipe(f) ==
    /\ Idle /\ f \notin piped /\ f \notin given /\ ~started
    /\ piped' = piped \cup {f} /\ Act
    /\ UNCHANGED <<given, started, call, waits, copy, collected, stdin, output, remote, waiter>>

(* Setenv, RequestPty, RequestSubsystem; Signal and SendRequest go through *)
(* the same channel request and change nothing either.                     *)
Setup(name) ==
    /\ Idle /\ ~started /\ Act
    /\ call' = [op |-> name, res |-> Nil]
    /\ UNCHANGED <<given, piped, started, waits, copy, collected, stdin, output, remote, waiter>>

(* The fields that Output and CombinedOutput set, before Start.            *)
Sets(m) == CASE m = "Output" -> {"stdout"} [] m = "CombinedOutput" -> Outputs [] OTHER -> {}

(* Start, Shell, Run, Output and CombinedOutput up to the request.         *)
Begin(m) ==
    /\ Idle /\ Act
    /\ IF Sets(m) \cap given # {}
       THEN Return(Err("already set")) /\ UNCHANGED given
       ELSE /\ given' = given \cup Sets(m)
            /\ IF started THEN Return(Err("already started")) ELSE call' = [op |-> m, res |-> Nil]
    /\ UNCHANGED <<piped, started, waits, copy, collected, stdin, output, remote, waiter>>

(* The answer of the remote, or the error of a channel that is closed.     *)
(* Without an error start makes one copy function for each stream that is  *)
(* no pipe; Run and Output go on to Wait.                                  *)
Answered(answer) ==
    LET ok == answer = "ok" /\ call.op \in Methods IN
    /\ call.op \in Setups \cup Methods
    /\ answer = "error" => closed \/ sentClose
    /\ answer # "error" => ~closed /\ ~jammed
    /\ IF answer = "refused" THEN Act ELSE UNCHANGED acts
    /\ accepted' = accepted + (IF ok THEN 1 ELSE 0)
    /\ IF ok
       THEN /\ started' = TRUE
            /\ copy' = [f \in Fds |-> IF f \in piped THEN copy[f] ELSE "run"]
            /\ feeder' = IF "stdin" \in given \ piped THEN "run" ELSE feeder
            /\ pipe' = IF "stdin" \in piped THEN pipe
                       ELSE [st |-> IF "stdin" \in given THEN "open" ELSE "eof", full |-> FALSE]
            /\ IF call.op \in {"Start", "Shell"} THEN Return(Nil)
               ELSE call' = [op |-> "Wait", res |-> Nil]
       ELSE /\ Return(IF answer = "ok" THEN Nil ELSE Err(answer))
            /\ UNCHANGED <<started, copy, feeder, pipe>>
    /\ waits' = waits + (IF call'.op = "Wait" THEN 1 ELSE 0)
    /\ UNCHANGED <<given, piped, collected, inflight, sentEOF, sentClose, output, closed, eof,
                   jammed, sent, said, waiter>>

(* Wait is called.  A second call finds nothing in exitStatus, for ever.   *)
Wait ==
    /\ Idle /\ waits < 2 /\ acts > 0
    /\ IF started THEN /\ call' = [op |-> "Wait", res |-> Nil] /\ waits' = waits + 1
       ELSE Return(Err("not started")) /\ UNCHANGED waits
    /\ UNCHANGED <<given, piped, started, acts, copy, collected, stdin, output, remote, waiter>>

(* Mutant: Wait leaves the user's Stdin to end by itself.                  *)
Exited_Open ==
    /\ call.op = "Wait" /\ exitStatus # NotYet
    /\ call' = [op |-> "collect", res |-> exitStatus] /\ exitStatus' = NotYet
    /\ UNCHANGED <<given, piped, started, acts, waits, copy, collected, stdin, output, remote,
                   reqs, wm>>

(* Wait receives the exit status, and closes the pipe that feeds stdin.    *)
Exited ==
    /\ call.op = "Wait" /\ exitStatus # NotYet
    /\ call' = [op |-> "collect", res |-> exitStatus] /\ exitStatus' = NotYet
    /\ pipe' = IF pipe.st = "open" THEN [pipe EXCEPT !.st = "eof"] ELSE pipe
    /\ UNCHANGED <<given, piped, started, acts, waits, copy, collected, feeder, inflight,
                   sentEOF, sentClose, output, remote, reqs, wm>>

(* Mutant: Wait returns without the results of the copy functions.         *)
Collect_Early ==
    /\ call.op = "collect" /\ Return(call.res)
    /\ UNCHANGED <<given, piped, started, acts, waits, copy, collected, stdin, output, remote, waiter>>

(* Wait takes one result after the other from errors, and returns the exit *)
(* status, or else the first error of a copy.                              *)
Collect ==
    /\ call.op = "collect"
    /\ \/ \E f \in Fds \ collected :
            /\ copy[f] \in {"ok", "err"}
            /\ collected' = collected \cup {f}
            /\ call' = IF copy[f] = "err" /\ call.res = Nil
                       THEN [call EXCEPT !.res = Err("copy")] ELSE call
       \/ /\ \A f \in Fds : copy[f] # "none" => f \in collected
          /\ Return(call.res) /\ UNCHANGED collected
    /\ UNCHANGED <<given, piped, started, acts, waits, copy, stdin, output, remote, waiter>>

(* Session.Close sends the close of the channel; the remote answers it.    *)
Close ==
    /\ Idle /\ ~sentClose
    /\ sentClose' = TRUE
    /\ UNCHANGED <<user, copy, collected, feeder, pipe, inflight, sentEOF, output, remote, waiter>>

(* The writer that StdinPipe returned: Write goes to the channel, Close to *)
(* CloseWrite.                                                             *)
UsePipe ==
    /\ "stdin" \in piped /\ Idle /\ ~sentEOF /\ ~sentClose /\ ~closed
    /\ \/ inflight < Window /\ inflight' = inflight + 1 /\ UNCHANGED sentEOF
       \/ sentEOF' = TRUE /\ UNCHANGED inflight
    /\ UNCHANGED <<user, copy, collected, feeder, pipe, sentClose, output, remote, waiter>>

(* The user reads a stream it has taken as a pipe.                         *)
ReadPipe(f) ==
    /\ f \in piped /\ Idle /\ buf[f] > 0
    /\ buf' = [buf EXCEPT ![f] = @ - 1] /\ window' = window + 1
    /\ UNCHANGED <<user, copy, collected, stdin, copied, remote, waiter>>

-----------------------------------------------------------------------------
(* The copying goroutines.                                                 *)

(* Session.Stdin, which the user gave, may end, fail, give a chunk, or     *)
(* block for ever.  A chunk waits in the io.Pipe for its reader; on a pipe *)
(* that Wait has closed the feeder ends, and CloseWithError may turn the   *)
(* end of the pipe into an error.                                          *)
Feed ==
    /\ feeder = "run"
    /\ IF pipe.st = "open"
       THEN \/ ~pipe.full /\ pipe' = [pipe EXCEPT !.full = TRUE] /\ UNCHANGED feeder
            \/ /\ ~pipe.full /\ feeder' = "end"
               /\ \E st \in {"eof", "err"} : pipe' = [pipe EXCEPT !.st = st]
       ELSE /\ feeder' = "end"
            /\ \E st \in {pipe.st, "err"} : pipe' = [st |-> st, full |-> FALSE]
    /\ UNCHANGED <<user, copy, collected, inflight, sentEOF, sentClose, output, remote, waiter>>

(* Mutant: the copy function leaves the channel's write side open.         *)
CopyStdin_NoEOF ==
    /\ copy["stdin"] = "run" /\ pipe.st # "open"
    /\ copy' = [copy EXCEPT !["stdin"] = IF pipe.st = "err" THEN "err" ELSE "ok"]
    /\ UNCHANGED <<user, collected, stdin, output, remote, waiter>>

(* The copy function of stdin: it writes chunks while the remote's window  *)
(* lasts, fails on a closed channel, and calls CloseWrite at the end.      *)
CopyStdin ==
    LET ended(res) ==
            /\ copy' = [copy EXCEPT !["stdin"] = res]
            /\ sentEOF' = (sentEOF \/ (~closed /\ ~sentClose))
    IN
    /\ copy["stdin"] = "run"
    /\ \/ /\ pipe.full /\ ~closed /\ ~sentClose /\ inflight < Window
          /\ inflight' = inflight + 1 /\ pipe' = [pipe EXCEPT !.full = FALSE]
          /\ UNCHANGED <<copy, sentEOF>>
       \/ pipe.full /\ (closed \/ (sentClose /\ inflight < Window)) /\ ended("err")
          /\ UNCHANGED <<inflight, pipe>>
       \/ ~pipe.full /\ pipe.st = "eof" /\ ended("ok") /\ UNCHANGED <<inflight, pipe>>
       \/ ~pipe.full /\ pipe.st = "err" /\ ended("err") /\ UNCHANGED <<inflight, pipe>>
    /\ UNCHANGED <<user, collected, feeder, sentClose, output, remote, waiter>>

(* The copy functions of stdout and stderr.  A read gives the window back  *)
(* to the remote before the chunk is written; the user's writer may fail,  *)
(* which ends the copy with the stream not drained.                        *)
CopyOutput(f) ==
    /\ copy[f] = "run"
    /\ \/ /\ buf[f] > 0
          /\ buf' = [buf EXCEPT ![f] = @ - 1] /\ window' = window + 1
          /\ \/ copied' = [copied EXCEPT ![f] = @ + 1] /\ UNCHANGED copy
             \/ f \in given /\ copy' = [copy EXCEPT ![f] = "err"] /\ UNCHANGED copied
       \/ /\ buf[f] = 0 /\ (eof \/ closed)
          /\ copy' = [copy EXCEPT ![f] = "ok"] /\ UNCHANGED output
    /\ UNCHANGED <<user, collected, stdin, remote, waiter>>

-----------------------------------------------------------------------------
(* The goroutine of newSession.                                            *)

(* Mutant: the status is tested before the default is told apart from it.  *)
Outcome_NoDefault == IF wm.status <= 0 THEN Nil ELSE Exit(wm.status, wm.signal)

(* What wait returns when its queue is closed.                             *)
Outcome ==
    IF wm.status = 0 THEN Nil
    ELSE IF wm.status # -1 THEN Exit(wm.status, wm.signal)
    ELSE IF wm.signal = NoSignal THEN Err("no status")
    ELSE Exit(128 + (IF wm.signal \in DOMAIN Signals THEN Signals[wm.signal] ELSE 0), wm.signal)

(* The four bytes of an exit status shifted into an int.                   *)
ToInt(s) == IF s >= 2^(IntBits - 1) THEN s - 2^IntBits ELSE s

WaitStep ==
    /\ wm.run
    /\ IF reqs # <<>>
       THEN LET m == Head(reqs) IN
            /\ reqs' = Tail(reqs)
            /\ CASE m.t = "exit-status" ->
                      wm' = [wm EXCEPT !.status = ToInt(m.v)] /\ UNCHANGED exitStatus
                 [] m.t = "exit-signal" ->
                      wm' = [wm EXCEPT !.signal = m.v] /\ UNCHANGED exitStatus
                 [] m.t = "malformed" ->
                      wm' = [wm EXCEPT !.run = FALSE] /\ exitStatus' = Err("malformed")
                 [] OTHER -> UNCHANGED <<wm, exitStatus>>      \* keepalive, answered
       ELSE /\ closed
            /\ wm' = [wm EXCEPT !.run = FALSE] /\ exitStatus' = Outcome /\ UNCHANGED reqs
    /\ UNCHANGED <<user, copy, collected, stdin, output, remote>>

-----------------------------------------------------------------------------
(* The remote command and the mux's loop that delivers its packets.        *)

Live == ~closed /\ ~jammed

RemoteData(f) ==
    /\ Live /\ accepted > 0 /\ ~eof /\ window > 0 /\ Act
    /\ sent' = [sent EXCEPT ![f] = @ + 1] /\ buf' = [buf EXCEPT ![f] = @ + 1]
    /\ window' = window - 1
    /\ UNCHANGED <<given, piped, started, call, waits, copy, collected, stdin, copied, closed, eof, jammed, accepted, said, waiter>>

RemoteEOF ==
    /\ Live /\ accepted > 0 /\ ~eof /\ eof' = TRUE
    /\ UNCHANGED <<user, copy, collected, stdin, output, closed, jammed, accepted, sent, said, waiter>>

(* A remote that sends signals sends listed ones and others.               *)
SignalNames == IF Signals = <<>> THEN {} ELSE DOMAIN Signals \cup {OtherSignal}

Messages ==
    {[t |-> "exit-status", v |-> s] : s \in Statuses}
    \cup {[t |-> "exit-signal", v |-> s] : s \in SignalNames}
    \cup {[t |-> k, v |-> 0] : k \in Other}

(* A request whose queue is full stops the mux's loop until wait reads it; *)
(* wait no longer does after a malformed exit-signal.                      *)
RemoteRequest(m) ==
    /\ Live /\ accepted > 0
    /\ IF Len(reqs) < ReqCap
       THEN reqs' = Append(reqs, m) /\ said' = Append(said, m) /\ Act /\ UNCHANGED jammed
       ELSE ~wm.run /\ jammed' = TRUE /\ UNCHANGED <<reqs, said, acts>>
    /\ UNCHANGED <<given, piped, started, call, waits, copy, collected, stdin, output, closed, eof, accepted, sent, wm, exitStatus>>

RemoteRead ==
    /\ Live /\ inflight > 0 /\ inflight' = inflight - 1
    /\ UNCHANGED <<user, copy, collected, feeder, pipe, sentEOF, sentClose, output, remote, waiter>>

RemoteClose ==
    /\ Live /\ (accepted > 0 \/ sentClose) /\ closed' = TRUE
    /\ UNCHANGED <<user, copy, collected, stdin, output, eof, jammed, accepted, sent, said, waiter>>

Next ==
    \/ \E f \in Assignable : Assign(f)
    \/ \E f \in Pipes : Pipe(f)
    \/ \E n \in Setups \cap Calls : Setup(n)
    \/ \E m \in Methods \cap Calls : Begin(m)
    \/ \E a \in {"ok", "refused", "error"} : Answered(a)
    \/ Wait \/ Exited \/ Collect \/ Close \/ UsePipe
    \/ \E f \in Outputs : ReadPipe(f) \/ CopyOutput(f)
    \/ Feed \/ CopyStdin \/ WaitStep
    \/ \E f \in Outputs : RemoteData(f)
    \/ \E m \in Messages : RemoteRequest(m)
    \/ RemoteEOF \/ RemoteRead \/ RemoteClose

Spec == Init /\ [][Next]_vars

(* The library's goroutines run on, and a writer that the user gave        *)
(* returns.  Nothing is assumed of the remote, nor of the user's Stdin.    *)
FairSpec ==
    /\ Spec
    /\ WF_vars(Exited) /\ WF_vars(Collect) /\ WF_vars(CopyStdin) /\ WF_vars(WaitStep)
    /\ \A f \in Outputs : WF_vars(CopyOutput(f))

-----------------------------------------------------------------------------

(* The places of the messages of one kind among those the remote sent, and *)
(* what the last one said.                                                 *)
Sent(kind) == {i \in DOMAIN said : said[i].t = kind}
LastOf(kind) == said[CHOOSE i \in Sent(kind) : \A j \in Sent(kind) : j <= i].v

(* A nil error from Wait, Run, Output or CombinedOutput means that the     *)
(* last exit status the remote sent was zero, and that all the output it   *)
(* sent before it closed the channel is in Stdout and Stderr (session.go   *)
(* 370-371): the exit status travels past the output in its own queue, and *)
(* three goroutines still copy when it has been received.  Of the calls    *)
(* that start a command, refused and repeated, the remote has accepted one *)
(* (session.go 256).                                                       *)
NilMeansDone ==
    (waits = 1 /\ Idle /\ started /\ call.res = Nil /\ exitStatus = NotYet /\ ~wm.run)
        => /\ Sent("exit-status") # {} /\ LastOf("exit-status") = 0
           /\ \A f \in Outputs \ piped : copied[f] = sent[f]
           /\ accepted = 1

(* The exit status that Wait reports is the last the remote sent, and a    *)
(* missing status is reported only when it sent none (session.go 432).     *)
StatusTrue ==
    (exitStatus.k \notin {"notyet", "malformed"}) =>
        IF Sent("exit-status") # {}
        THEN LET status == LastOf("exit-status")
             IN  exitStatus.k = (IF status = 0 THEN "nil" ELSE "exit") /\ exitStatus.status = status
        ELSE IF Sent("exit-signal") = {} THEN exitStatus.k = "no status"
        ELSE /\ exitStatus.k = "exit" /\ exitStatus.status >= 128
             /\ exitStatus.signal = LastOf("exit-signal")

(* Once the remote has closed the channel, Wait returns, even though the   *)
(* user's Stdin may block for ever, the copy of stdin may wait for window, *)
(* and the remote may have ended before it read or wrote anything.         *)
WaitReturns == (waits = 1 /\ call.op \in {"Wait", "collect"} /\ closed) ~> Idle

(* A Stdin that ends is followed by an EOF to the remote, unless one side  *)
(* closes the channel or the remote stops reading.                         *)
StdinEnds ==
    (copy["stdin"] = "run" /\ pipe.st # "open" /\ ~pipe.full)
        ~> (sentEOF \/ closed \/ sentClose)

=============================================================================
