------------------------------- MODULE Fibers -------------------------------
(***************************************************************************)
(* The computations of a program that runs on the JavaScript runtime: one  *)
(* loop on one thread (io_run in toolchain-debug/comp.ts) that runs each   *)
(* computation until it parks, polls only when nothing is runnable, and    *)
(* the effects in toolchain-debug/effs that park, wake and answer.  What a *)
(* computation asks next is its own business: any effect of Effects.       *)
(***************************************************************************)
EXTENDS Picks, Integers, Sequences, SequencesExt, FiniteSets

CONSTANTS
  Fibers,       \* the ids of computations, 1..n; main is 1
  Chans,        \* the ids of channels, 1..n
  Fds,          \* the file descriptors the system can hand out
  Effects,      \* which effects the programs ask for
  Rooms,        \* the rooms channels are made with
  Delays,       \* the delays slept
  Asks,         \* bound: effects asked by one computation
  Bytes,        \* the length of every text sent
  Horizon       \* bound: the last instant

ASSUME FibersAssumption ==
  /\ Fibers = 1..Cardinality(Fibers) /\ 1 \in Fibers
  /\ Chans = 1..Cardinality(Chans)
  /\ Rooms \subseteq Nat /\ Delays \subseteq Nat
  /\ Asks \in Nat /\ Bytes \in Nat /\ Horizon \in Nat

VARIABLES
  runs,         \* BEND_IO.runs: what is runnable, the next first
  live,         \* BEND_IO.live
  waits,        \* BEND_IO.waits: who waits for an instant or a descriptor
  chans,        \* the rows of the channels made so far
  cur,          \* the computation inside the loop, or Idle
  left,         \* [born computation -> effects it may still ask]
  owns,         \* [born computation -> descriptors in its hands]
  fds,          \* the descriptors open in the process
  asking,       \* [born computation -> the value it is sending, or NoValue]
  sent,         \* the values whose sender was told True
  refused,      \* the values whose sender was told False
  heard,        \* the values receivers have seen
  clock,        \* performance.now()
  exit          \* Running, or how the process ended

fvars == <<runs, live, waits, chans, cur, left, owns, fds, asking, sent,
           refused, heard, clock, exit>>

Idle == 0
Main == 1
NoValue == <<>>
NoOp == [eff |-> "none"]
Running == "running"

Value == Fibers \X (1..Asks)

Born == 1..Len(left)

\* The results computations are answered with.
Unit == [tag |-> "Unit"]
None == [tag |-> "None"]
Some(v) == [tag |-> "Some", value |-> v]
Told(b) == [tag |-> "Bool", value |-> b]

\* An entry of runs: a computation and what its continuation gets, or the
\* interrupted effect that is to be tried again first.
Ready(f, x) == [fiber |-> f, x |-> x, op |-> NoOp]
Retry(w) == [fiber |-> w.fiber, x |-> Unit, op |-> w.op]

Init ==
  /\ runs = <<Ready(Main, Unit)>>
  /\ live = 1
  /\ waits = <<>> /\ chans = <<>>
  /\ cur = Idle
  /\ left = <<Asks>> /\ owns = <<{}>> /\ asking = <<NoValue>>
  /\ fds = {} /\ sent = {} /\ refused = {} /\ heard = {}
  /\ clock = 0
  /\ exit = Running

-----------------------------------------------------------------------------
(* The answer to an effect: the continuation is applied and stays in the loop. *)

Answer(f, x) ==
  /\ cur' = f
  /\ heard' = IF x.tag = "Some" THEN heard \cup {x.value} ELSE heard
  /\ sent' = IF x = Told(TRUE) THEN sent \cup {asking[f]} ELSE sent
  /\ refused' = IF x = Told(FALSE) THEN refused \cup {asking[f]} ELSE refused
  /\ asking' = [asking EXCEPT ![f] = NoValue]

\* The computation leaves the loop unanswered.
Leave ==
  /\ cur' = Idle
  /\ UNCHANGED <<heard, sent, refused, asking>>

Park(w) == waits' = Append(waits, w) /\ Leave

\* Mutant: a sleep parks as if it waited for a descriptor.
TimerNever(f, at, op) == [fiber |-> f, at |-> Horizon + 1, fd |-> Idle, op |-> op]

Timer(f, at, op) == [fiber |-> f, at |-> at, fd |-> Idle, op |-> op]
OnFd(f, fd, op) == [fiber |-> f, at |-> Horizon + 1, fd |-> fd, op |-> op]

-----------------------------------------------------------------------------
(* Attempting an effect on a descriptor, the first time or after a wake.   *)

Handed(f, fd) == owns' = [owns EXCEPT ![f] = @ \cup {fd}]

\* udp_recv_from: a datagram or an error, or none there after all.
AttemptRecvFrom(f, op) ==
  /\ \/ Answer(f, Unit) /\ UNCHANGED waits
     \/ Park(OnFd(f, op.fd, op))
  /\ UNCHANGED <<fds, owns>>

\* tcp_recv: data or an error, or not ready after all.
AttemptRecv(f, op) ==
  /\ \/ Answer(f, Unit) /\ UNCHANGED waits
     \/ Park(OnFd(f, op.fd, op))
  /\ UNCHANGED <<fds, owns>>

\* tcp_accept: a new descriptor, kept open only if it could be made non-blocking.
AttemptAccept(f, op) ==
  /\ \/ Answer(f, Unit) /\ UNCHANGED <<waits, fds, owns>>
     \/ Park(OnFd(f, op.fd, op)) /\ UNCHANGED <<fds, owns>>
     \/ \E fd \in Fds \ fds :
          /\ fds' = fds \cup {fd}
          /\ Handed(f, fd) /\ Answer(f, Unit) /\ UNCHANGED waits

\* Mutant: a socket that fails to connect stays open.
EndConnectLeaks(f, op) ==
  /\ Handed(f, op.fd) \/ UNCHANGED owns
  /\ Answer(f, Unit)
  /\ UNCHANGED <<waits, fds>>

\* tcp_connect's end: SO_ERROR decides, and a failed socket is closed.
EndConnect(f, op) ==
  /\ \/ Handed(f, op.fd) /\ UNCHANGED fds
     \/ fds' = fds \ {op.fd} /\ UNCHANGED owns
  /\ Answer(f, Unit)
  /\ UNCHANGED <<waits>>

\* tcp_send: what is left, in parts, until all is sent, the socket is full or
\* an error ends it.
AttemptSend(f, op) ==
  /\ \/ Answer(f, Unit) /\ UNCHANGED waits
     \/ \E rest \in 1..op.rest : Park(OnFd(f, op.fd, [op EXCEPT !.rest = rest]))
  /\ UNCHANGED <<fds, owns>>

\* udp_send_to: a datagram goes whole or not at all.
AttemptSendTo(f, op) ==
  /\ \/ Answer(f, Unit) /\ UNCHANGED waits
     \/ Park(OnFd(f, op.fd, op))
  /\ UNCHANGED <<fds, owns>>

\* The loop parked a sleep until its instant, so its run only answers.
AttemptSleep(f) ==
  /\ Answer(f, Unit)
  /\ UNCHANGED <<waits, fds, owns>>

Attempt(f, op) ==
  \/ op.eff = "recv" /\ AttemptRecv(f, op)
  \/ op.eff = "recvfrom" /\ AttemptRecvFrom(f, op)
  \/ op.eff = "accept" /\ AttemptAccept(f, op)
  \/ op.eff = "connect" /\ EndConnect(f, op)
  \/ op.eff = "send" /\ AttemptSend(f, op)
  \/ op.eff = "sendto" /\ AttemptSendTo(f, op)
  \/ op.eff = "sleep" /\ AttemptSleep(f)

-----------------------------------------------------------------------------
(* Channels: a row keeps its values in ring and who waits in wait, senders  *)
(* with their value, receivers with NoValue (null in the code).             *)

Waiter(f, item) == [fiber |-> f, item |-> item]

NewRow(room) == [room |-> room, ring |-> <<>>, wait |-> <<>>, shut |-> FALSE]

First(row) == row.wait[1]
ReceiverWaits(row) == row.wait # <<>> /\ First(row).item = NoValue
SenderWaits(row) == row.wait # <<>> /\ First(row).item # NoValue

\* Mutant: the waiter is woken and stays in the row.
WakeAgain(row) == row

\* chan_wake: the first waiter becomes runnable with x.
Wake(row) == [row EXCEPT !.wait = Tail(@)]
Woken(row, x) == Append(runs, Ready(First(row).fiber, x))

\* Mutant: the waiting sender's value overtakes the ring.
TakeRowOvertaking(row) ==
  IF row.wait = <<>> THEN [row EXCEPT !.ring = Tail(@)]
  ELSE [Wake(row) EXCEPT !.ring = <<First(row).item>> \o Tail(@)]

\* Mutant: the room freed is left empty while senders wait.
TakeRowLeft(row) == [row EXCEPT !.ring = Tail(@)]

\* chan_take: the room freed goes to the first sender that waits.
TakeRow(row) ==
  IF row.wait = <<>> THEN [row EXCEPT !.ring = Tail(@)]
  ELSE [Wake(row) EXCEPT !.ring = Append(Tail(@), First(row).item)]

TakeRuns(row) == IF row.wait = <<>> THEN runs ELSE Woken(row, Told(TRUE))

\* chan_shut: everyone who waits is told so.
ShutRow(row) == [row EXCEPT !.shut = TRUE, !.wait = <<>>]

ShutRuns(row) ==
  runs \o [i \in DOMAIN row.wait |->
             Ready(row.wait[i].fiber,
                   IF row.wait[i].item = NoValue THEN None ELSE Told(FALSE))]

Row(c, row) == chans' = [chans EXCEPT ![c] = row]

ChanNew(f) ==
  /\ Len(chans) + 1 \in Chans
  /\ \E room \in Rooms : chans' = Append(chans, NewRow(room))
  /\ Answer(f, Unit)
  /\ UNCHANGED runs

ChanSend(f, c) ==
  LET row == chans[c]
      v == <<f, left[f]>>
      Leaving == cur' = Idle /\ UNCHANGED <<heard, sent, refused>>
                 /\ asking' = [asking EXCEPT ![f] = v]
      Reply(b) == /\ cur' = f
                  /\ sent' = IF b THEN sent \cup {v} ELSE sent
                  /\ refused' = IF b THEN refused ELSE refused \cup {v}
                  /\ UNCHANGED <<heard, asking>>
  IN \/ /\ row.shut
        /\ Reply(FALSE) /\ UNCHANGED <<chans, runs>>
     \/ /\ ~row.shut /\ ReceiverWaits(row)
        /\ Row(c, Wake(row)) /\ runs' = Woken(row, Some(v))
        /\ Reply(TRUE)
     \/ /\ ~row.shut /\ ~ReceiverWaits(row) /\ Len(row.ring) < row.room
        /\ Row(c, [row EXCEPT !.ring = Append(@, v)])
        /\ Reply(TRUE) /\ UNCHANGED runs
     \/ /\ ~row.shut /\ ~ReceiverWaits(row) /\ Len(row.ring) >= row.room
        /\ Row(c, [row EXCEPT !.wait = Append(@, Waiter(f, v))])
        /\ Leaving /\ UNCHANGED runs

ChanRecv(f, c) ==
  LET row == chans[c]
  IN \/ /\ row.ring # <<>>
        /\ Row(c, TakeRow(row)) /\ runs' = TakeRuns(row)
        /\ Answer(f, Some(Head(row.ring)))
     \/ /\ row.ring = <<>> /\ SenderWaits(row)
        /\ Row(c, Wake(row)) /\ runs' = Woken(row, Told(TRUE))
        /\ Answer(f, Some(First(row).item))
     \/ /\ row.ring = <<>> /\ ~SenderWaits(row) /\ row.shut
        /\ Answer(f, None) /\ UNCHANGED <<chans, runs>>
     \/ /\ row.ring = <<>> /\ ~SenderWaits(row) /\ ~row.shut
        /\ Row(c, [row EXCEPT !.wait = Append(@, Waiter(f, NoValue))])
        /\ Leave /\ UNCHANGED runs

ChanClose(f, c) ==
  LET row == chans[c]
  IN /\ \/ row.shut /\ UNCHANGED <<chans, runs>>
        \/ ~row.shut /\ Row(c, ShutRow(row)) /\ runs' = ShutRuns(row)
     /\ Answer(f, Unit)

ChanEffect(f) ==
  /\ \/ "new" \in Effects /\ ChanNew(f)
     \/ "send" \in Effects /\ \E c \in DOMAIN chans : ChanSend(f, c)
     \/ "recv" \in Effects /\ \E c \in DOMAIN chans : ChanRecv(f, c)
     \/ "close" \in Effects /\ \E c \in DOMAIN chans : ChanClose(f, c)
  /\ left' = [left EXCEPT ![f] = @ - 1]
  /\ UNCHANGED <<live, waits, owns, fds>>

-----------------------------------------------------------------------------
(* The other effects.                                                      *)

\* io_spawn: the new computation is runnable, after those that already are.
Spawn(f) ==
  /\ "spawn" \in Effects
  /\ Len(left) + 1 \in Fibers
  /\ runs' = Append(runs, Ready(Len(left) + 1, Unit))
  /\ live' = live + 1
  /\ left' = Append([left EXCEPT ![f] = @ - 1], Asks)
  /\ owns' = Append(owns, {})
  /\ cur' = f /\ asking' = Append(asking, NoValue)
  /\ UNCHANGED <<waits, chans, fds, heard, sent, refused>>

\* io_run parks an effect whose need names an instant before it runs it.
Sleep(f) ==
  /\ "sleep" \in Effects
  /\ \E ms \in Delays :
       /\ clock + ms <= Horizon
       /\ Park(Timer(f, clock + ms, [eff |-> "sleep"]))
  /\ left' = [left EXCEPT ![f] = @ - 1]
  /\ UNCHANGED <<runs, live, chans, owns, fds>>

\* ... or a descriptor to read from (tcp_accept, tcp_recv, udp_recv_from).
ReadEffect(f) ==
  /\ "read" \in Effects
  /\ \E fd \in owns[f], eff \in {"accept", "recv", "recvfrom"} :
       Park(OnFd(f, fd, [eff |-> eff, fd |-> fd]))
  /\ left' = [left EXCEPT ![f] = @ - 1]
  /\ UNCHANGED <<runs, live, chans, owns, fds>>

\* Sends are attempted at once.
WriteEffect(f) ==
  /\ "write" \in Effects
  /\ \E fd \in owns[f], eff \in {"send", "sendto"} :
       Attempt(f, [eff |-> eff, fd |-> fd, rest |-> Bytes])
  /\ left' = [left EXCEPT ![f] = @ - 1]
  /\ UNCHANGED <<runs, live, chans>>

\* tcp_connect: the socket ends its connect at once, or when it is writable.
Connect(f) ==
  /\ "connect" \in Effects
  /\ \E fd \in Fds \ fds :
       \/ /\ fds' = fds \cup {fd} /\ Handed(f, fd)
          /\ Answer(f, Unit) /\ UNCHANGED waits
       \/ /\ fds' = fds \cup {fd}
          /\ Park(OnFd(f, fd, [eff |-> "connect", fd |-> fd])) /\ UNCHANGED owns
       \/ Answer(f, Unit) /\ UNCHANGED <<waits, fds, owns>>
  /\ left' = [left EXCEPT ![f] = @ - 1]
  /\ UNCHANGED <<runs, live, chans>>

Opened(f) == \E fd \in Fds \ fds : fds' = fds \cup {fd} /\ Handed(f, fd)
NotOpened == UNCHANGED <<fds, owns>>

\* A port out of range, and a failing bind, listen or fcntl, close the socket.
Listen(f) == "listen" \in Effects /\ (Opened(f) \/ NotOpened)
Bind(f) == "bind" \in Effects /\ (Opened(f) \/ NotOpened)

\* A bad name or mode, or the system, refuses to open.
OpenFile(f) == "file" \in Effects /\ (Opened(f) \/ NotOpened)

Open(f) ==
  /\ Listen(f) \/ Bind(f) \/ OpenFile(f)
  /\ Answer(f, Unit)
  /\ left' = [left EXCEPT ![f] = @ - 1]
  /\ UNCHANGED <<runs, live, waits, chans>>

\* socket_close, listener_close, file_close: the descriptor is consumed.
Close(f) ==
  /\ \E fd \in owns[f] :
       /\ fds' = fds \ {fd}
       /\ owns' = [owns EXCEPT ![f] = @ \ {fd}]
  /\ Answer(f, Unit)
  /\ left' = [left EXCEPT ![f] = @ - 1]
  /\ UNCHANGED <<runs, live, waits, chans>>

\* An effect that answers at once and touches nothing the loop keeps: print,
\* write, now, get_env, udp_poll, the files' reads and writes.
Immediate(f) ==
  /\ "immediate" \in Effects
  /\ Answer(f, Unit)
  /\ left' = [left EXCEPT ![f] = @ - 1]
  /\ UNCHANGED <<runs, live, waits, chans, owns, fds>>

-----------------------------------------------------------------------------
(* The loop.                                                               *)

Others == <<runs, live, waits, chans, owns, fds>>

\* The computation is over.
Emit ==
  /\ cur # Idle /\ exit = Running
  /\ live' = live - 1
  /\ Leave
  /\ UNCHANGED <<runs, waits, chans, left, owns, fds, clock, exit>>

\* A foreign action where a pure value is due ($FFI), a stack too deep
\* (RangeError): the program ends, whoever else is alive.
Throw ==
  /\ "halt" \in Effects
  /\ cur # Idle /\ exit = Running
  /\ exit' = "failed"
  /\ UNCHANGED <<left, clock, cur, heard, sent, refused, asking>>
  /\ UNCHANGED Others

\* The computation ends the program.
Halt ==
  /\ "halt" \in Effects
  /\ cur # Idle /\ exit = Running
  /\ exit' = "halted"
  /\ UNCHANGED <<left, clock, cur, heard, sent, refused, asking>>
  /\ UNCHANGED Others

Effect ==
  /\ cur # Idle /\ exit = Running
  /\ left[cur] > 0
  /\ \/ ChanEffect(cur) \/ Spawn(cur) \/ Sleep(cur) \/ ReadEffect(cur)
     \/ WriteEffect(cur) \/ Connect(cur) \/ Open(cur) \/ Close(cur)
     \/ Immediate(cur)
  /\ UNCHANGED <<clock, exit>>

\* The next runnable computation: its continuation, or its effect again.
Run ==
  /\ cur = Idle /\ exit = Running
  /\ runs # <<>>
  /\ runs' = Tail(runs)
  /\ LET s == Head(runs)
     IN \/ s.op = NoOp /\ Answer(s.fiber, s.x) /\ UNCHANGED <<waits, owns, fds>>
        \/ s.op # NoOp /\ Attempt(s.fiber, s.op)
  /\ UNCHANGED <<live, chans, left, clock, exit>>

\* Nothing is runnable: poll, and wake in order who is ready or due.  The
\* descriptors that are ready are the system's choice; poll blocks without one
\* unless a timer is due.
Poll ==
  /\ cur = Idle /\ exit = Running
  /\ runs = <<>> /\ live # 0
  /\ \E ready \in SUBSET {waits[i].fd : i \in DOMAIN waits} :
       LET fires == {i \in DOMAIN waits : \/ waits[i].fd # Idle /\ waits[i].fd \in ready
                                          \/ waits[i].at <= clock}
           fired == Picked(waits, fires)
       IN /\ fires # {}
          /\ runs' = [i \in DOMAIN fired |-> Retry(fired[i])]
          /\ waits' = Picked(waits, DOMAIN waits \ fires)
  /\ UNCHANGED <<live, chans, cur, left, owns, fds, asking, sent, refused,
                 heard, clock, exit>>

Finish ==
  /\ cur = Idle /\ exit = Running
  /\ runs = <<>> /\ live = 0
  /\ exit' = "done"
  /\ UNCHANGED <<left, clock, cur, heard, sent, refused, asking>>
  /\ UNCHANGED Others

Deadlock ==
  /\ cur = Idle /\ exit = Running
  /\ runs = <<>> /\ live # 0 /\ waits = <<>>
  /\ exit' = "deadlock"
  /\ UNCHANGED <<left, clock, cur, heard, sent, refused, asking>>
  /\ UNCHANGED Others

Loop == Run \/ Effect \/ Emit \/ Throw \/ Halt \/ Poll \/ Finish \/ Deadlock

\* Time passes whatever the loop does.
Tick ==
  /\ clock < Horizon /\ exit = Running
  /\ clock' = clock + 1
  /\ UNCHANGED <<left, exit, cur, heard, sent, refused, asking>>
  /\ UNCHANGED Others

Next == Loop \/ Tick

Spec == Init /\ [][Next]_fvars

\* The one thread goes on as long as it can, time passes, and a descriptor that
\* is tried again and again, each time poll finds it ready, answers at last.
LiveSpec ==
  /\ Spec
  /\ WF_fvars(Loop) /\ WF_fvars(Tick)
  /\ SF_fvars(Run /\ cur' # Idle)

-----------------------------------------------------------------------------
(* Properties.                                                             *)

\* Where a computation is: in the loop, runnable, waiting on the loop, or
\* waiting in a row.
Places(f) ==
  Cardinality({i \in DOMAIN runs : runs[i].fiber = f})
  + Cardinality({i \in DOMAIN waits : waits[i].fiber = f})
  + Cardinality(UNION {{c} \X {i \in DOMAIN chans[c].wait : chans[c].wait[i].fiber = f} :
                       c \in DOMAIN chans})
  + (IF cur = f THEN 1 ELSE 0)

\* Every computation that has not emitted is in exactly one place, and live
\* counts them: no wakeup is lost, none is doubled, and the loop's exit on
\* live = 0 forgets nobody (io_push, chan_wake, io_wait against Emit).
EachInOnePlace ==
  /\ \A f \in Born : Places(f) <= 1
  /\ live = Cardinality({f \in Born : Places(f) = 1})

\* Who waits in a row is of one kind, and only when it must: receivers on an
\* empty open row, senders on a full open one (chan_send, chan_recv, chan_take
\* and chan_shut keep what the others rely on when they look at wait[0] only).
WaitersMustWait ==
  \A c \in DOMAIN chans :
    LET row == chans[c]
    IN row.wait # <<>> =>
         /\ ~row.shut
         /\ \/ row.ring = <<>> /\ \A i \in DOMAIN row.wait : row.wait[i].item = NoValue
            \/ /\ Len(row.ring) = row.room
               /\ \A i \in DOMAIN row.wait : row.wait[i].item # NoValue

\* The process keeps open exactly the descriptors programs hold and the sockets
\* that are still connecting: no failure path of tcp_connect, tcp_accept or
\* tcp_listen leaks one or closes one that is in use.
Connecting ==
  {w.op.fd : w \in {x \in ToSet(waits) \cup ToSet(runs) : x.op.eff = "connect"}}

DescriptorsOwned ==
  /\ fds = Connecting \cup UNION {owns[f] : f \in Born}
  /\ \A f, g \in Born : f # g => owns[f] \cap owns[g] = {}
  /\ \A f \in Born : owns[f] \cap Connecting = {}

\* The channels implement what channels promise: a row's queue is its ring
\* followed by the values of the senders that wait; who is runnable with an
\* answer has been told, and a sender is told the truth, whatever closes
\* meanwhile (chan_send, chan_recv, chan_take, chan_shut).
Queue(row) ==
  row.ring \o [i \in DOMAIN SelectSeq(row.wait, LAMBDA w : w.item # NoValue) |->
                 SelectSeq(row.wait, LAMBDA w : w.item # NoValue)[i].item]

OnTheirWay(x) == {i \in DOMAIN runs : runs[i].x = x}

Promise ==
  INSTANCE Channel WITH
    Handle <- Chans,
    offered <- [c \in Chans |-> IF c \in DOMAIN chans THEN Queue(chans[c]) ELSE <<>>],
    roomed <- [c \in Chans |-> IF c \in DOMAIN chans THEN Len(chans[c].ring) ELSE 0],
    closed <- {c \in DOMAIN chans : chans[c].shut},
    received <- heard \cup {v \in Value : OnTheirWay(Some(v)) # {}},
    yes <- sent \cup {asking[runs[i].fiber] : i \in OnTheirWay(Told(TRUE))},
    no <- refused \cup {asking[runs[i].fiber] : i \in OnTheirWay(Told(FALSE))}

ImplementsChannel == Promise!Spec

\* Every program whose computations are finite comes to an end: a sleeper is
\* woken, a runnable computation gets its turn.
Ends == <>(exit # Running)
=============================================================================
