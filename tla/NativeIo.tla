------------------------------- MODULE NativeIo -------------------------------
(***************************************************************************)
(* The computations of a program that was compiled to C: the event loop of *)
(* toolchain-debug/comp.ts (io_loop and below) on its thread, the helper   *)
(* threads that do blocking file calls for it, the pipe they answer on, and *)
(* the table of channel rows, whose freed rows are used again one          *)
(* generation up.  Channels are effects of the loop's thread alone.        *)
(***************************************************************************)
EXTENDS Picks, Integers, Sequences, SequencesExt, FiniteSets, FiniteSetsExt

CONSTANTS
  Fibers,       \* the ids of computations, 1..n; main is 1
  Rows,         \* bound: the indexes of rows, 1..n
  Generations,  \* bound: how often a row is used, 1..n
  Programs,     \* the programs: [uses |-> effects, asks |-> by one computation]
  Rooms,        \* the rooms channels are made with
  Delays,       \* the delays slept
  Horizon,      \* bound: the last instant
  IO_HELP,      \* the most helper threads: 64
  PipeRoom,     \* the activations the wake pipe holds
  Every         \* iterations between two looks at the pipe: 64

ASSUME NativeIoAssumption ==
  /\ Fibers = 1..Cardinality(Fibers) /\ 1 \in Fibers
  /\ Rows = 1..Cardinality(Rows) /\ Generations = 1..Cardinality(Generations)
  /\ Rooms \subseteq Nat /\ Delays \subseteq Nat
  /\ \A p \in Programs : p.asks \in Nat
  /\ Horizon \in Nat /\ {IO_HELP, PipeRoom, Every} \subseteq Nat \ {0}

VARIABLES
  program,      \* the one of Programs that runs
  runs,         \* io_runs: the runnable computations
  park,         \* io_park: who waits, and until when (0: for a descriptor)
  jobs,         \* io_jobs: the computations whose file call no helper has yet
  item,         \* [born computation -> what its continuation gets, or, while
                \*  it waits in a row, the value it sends or Hole]
  live,         \* io_live
  busy,         \* io_busy: jobs not yet taken back
  helpers,      \* the helper threads: Awake, Asleep or the job in hand
  pipe,         \* the activations written to the wake pipe
  rows,         \* chan_rows
  idle,         \* the freed rows, from chan_idle on
  n,            \* the iteration of io_loop, modulo Every
  cur,          \* the computation inside io_step, or Idle
  left,         \* [born computation -> effects it may still ask]
  asking,       \* [born computation -> the value it last offered, or Hole]
  handles,      \* the handles of channels made so far
  received,     \* the values receivers went on with
  yes,          \* the values whose sender went on with true ...
  no,           \* ... and with false
  clock,        \* the monotonic clock
  exit          \* Running, or how the process ended

queues == <<runs, park, jobs, busy, helpers, pipe, n>>
table == <<rows, idle, handles>>
history == <<asking, received, yes, no>>
nvars == <<program, queues, table, history, item, live, cur, left, clock, exit>>

Idle == 0
Hole == <<>>
Awake == 0
Asleep == -1
Running == "running"

Asks == program.asks
Value == Fibers \X (1..Max({p.asks : p \in Programs}))
Born == DOMAIN left

Unit == [tag |-> "Unit"]
None == [tag |-> "None"]
Some(v) == [tag |-> "Some", value |-> v]
Told(b) == [tag |-> "Bool", value |-> b]

Init ==
  /\ program \in Programs
  /\ runs = <<1>> /\ park = <<>> /\ jobs = <<>>
  /\ item = <<Unit>> /\ left = <<Asks>> /\ asking = <<Hole>>
  /\ live = 1 /\ busy = 0 /\ helpers = <<>> /\ pipe = <<>> /\ n = 0
  /\ rows = <<>> /\ idle = <<>> /\ handles = {}
  /\ received = {} /\ yes = {} /\ no = {}
  /\ cur = Idle /\ clock = 1 /\ exit = Running

-----------------------------------------------------------------------------
(* How an effect ends: its value is the next item of a computation that     *)
(* stays in io_step, or IO_PARK, and the computation is in some queue.     *)

\* The continuation gets x, and what its sender or receiver learns.
Learns(f, x) ==
  /\ received' = IF x.tag = "Some" THEN received \cup {x.value} ELSE received
  /\ yes' = IF x = Told(TRUE) THEN yes \cup {asking[f]} ELSE yes
  /\ no' = IF x = Told(FALSE) THEN no \cup {asking[f]} ELSE no

Answer(f, x) == cur' = f /\ Learns(f, x) /\ UNCHANGED asking
IO_PARK == cur' = Idle /\ UNCHANGED history

\* A parked activation: time 0 waits for its descriptor.
Parked(f, time) == [fiber |-> f, time |-> time]

-----------------------------------------------------------------------------
(* Rows of channels.  A handle is a generation and an index.               *)

NewRow(gen, room) ==
  [gen |-> gen, room |-> room, ring |-> [i \in 0..(room - 1) |-> Hole], size |-> 0,
   head |-> 0, live |-> TRUE, shut |-> FALSE, wait |-> <<>>]

\* chan_at finds no row for a stale handle.
Found(h) == rows[h[2]].live /\ rows[h[2]].gen = h[1]

\* Mutant: a row comes back in the generation it was freed in.
NextGenerationSame(row) == row.gen

NextGeneration(row) == row.gen + 1

\* chan_open: a freed row first, else a new one.
ChanNew(f) ==
  /\ \E room \in Rooms :
       \/ /\ idle # <<>>
          /\ LET i == Head(idle)
                 gen == NextGeneration(rows[i])
             IN /\ gen \in Generations
                /\ rows' = [rows EXCEPT ![i] = NewRow(gen, room)]
                /\ handles' = handles \cup {<<gen, i>>}
          /\ idle' = Tail(idle)
       \/ /\ idle = <<>> /\ Len(rows) + 1 \in Rows
          /\ rows' = Append(rows, NewRow(1, room))
          /\ handles' = handles \cup {<<1, Len(rows) + 1>>}
          /\ UNCHANGED idle
  /\ Answer(f, Unit)
  /\ UNCHANGED <<runs, item>>

ReceiverWaits(row) == row.wait # <<>> /\ item[Head(row.wait)] = Hole
SenderWaits(row) == row.wait # <<>> /\ item[Head(row.wait)] # Hole

\* chan_park: the activation's item tells what it waits with.
ChanPark(f, i, x) ==
  /\ rows' = [rows EXCEPT ![i].wait = Append(@, f)]
  /\ item' = [item EXCEPT ![f] = x]

\* chan_wake, where the row becomes another besides.
ChanWake(i, row, x) ==
  /\ rows' = [rows EXCEPT ![i] = [row EXCEPT !.wait = Tail(@)]]
  /\ item' = [item EXCEPT ![Head(row.wait)] = x]
  /\ runs' = Append(runs, Head(row.wait))

Slot(row, k) == (row.head + k) % row.room

Stored(row, v) == [row EXCEPT !.ring[Slot(row, row.size)] = v, !.size = @ + 1]
Taken(row) == [row EXCEPT !.head = (@ + 1) % row.room, !.size = @ - 1]

\* chan_free of the row at i, which has become row.
ChanFree(i, row) ==
  /\ rows' = [rows EXCEPT ![i] = [row EXCEPT !.live = FALSE]]
  /\ idle' = <<i>> \o idle

ChanSend(f, h) ==
  LET i == h[2]
      row == rows[i]
      v == <<f, left[f]>>
      Asking == asking' = [asking EXCEPT ![f] = v]
      Reply(b) == /\ cur' = f /\ Asking /\ UNCHANGED received
                  /\ yes' = IF b THEN yes \cup {v} ELSE yes
                  /\ no' = IF b THEN no ELSE no \cup {v}
  IN /\ \/ /\ ~Found(h) \/ row.shut
           /\ Reply(FALSE) /\ UNCHANGED <<rows, item, runs>>
        \/ /\ Found(h) /\ ~row.shut /\ ReceiverWaits(row)
           /\ ChanWake(i, row, Some(v)) /\ Reply(TRUE)
        \/ /\ Found(h) /\ ~row.shut /\ ~ReceiverWaits(row) /\ row.size < row.room
           /\ rows' = [rows EXCEPT ![i] = Stored(row, v)]
           /\ Reply(TRUE) /\ UNCHANGED <<item, runs>>
        \/ /\ Found(h) /\ ~row.shut /\ ~ReceiverWaits(row) /\ row.size >= row.room
           /\ ChanPark(f, i, v)
           /\ cur' = Idle /\ Asking /\ UNCHANGED <<received, yes, no, runs>>
     /\ UNCHANGED <<idle, handles>>

\* chan_take gives the room freed to the first sender that waits; the last
\* value of a shut row frees it, so that none is found shut and empty (RowsKept).
ChanRecv(f, h) ==
  LET i == h[2]
      row == rows[i]
      v == row.ring[row.head]
  IN /\ \/ /\ ~Found(h)
           /\ Answer(f, None) /\ UNCHANGED <<rows, idle, item, runs>>
        \/ /\ Found(h) /\ row.size > 0 /\ row.wait # <<>>
           /\ ChanWake(i, Stored(Taken(row), item[Head(row.wait)]), Told(TRUE))
           /\ Answer(f, Some(v)) /\ UNCHANGED idle
        \/ /\ Found(h) /\ row.size > 0 /\ row.wait = <<>>
           /\ IF row.shut /\ row.size = 1 THEN ChanFree(i, Taken(row))
              ELSE rows' = [rows EXCEPT ![i] = Taken(row)] /\ UNCHANGED idle
           /\ Answer(f, Some(v)) /\ UNCHANGED <<item, runs>>
        \/ /\ Found(h) /\ row.size = 0 /\ SenderWaits(row)
           /\ ChanWake(i, row, Told(TRUE))
           /\ Answer(f, Some(item[Head(row.wait)])) /\ UNCHANGED idle
        \/ /\ Found(h) /\ row.size = 0 /\ ~SenderWaits(row) /\ ~row.shut
           /\ ChanPark(f, i, Hole) /\ IO_PARK /\ UNCHANGED <<idle, runs>>
     /\ UNCHANGED handles

\* Mutant: a row is freed with values in it.
FreesAny(row) == TRUE

Frees(row) == row.size = 0

\* chan_shut: everyone who waits is told so, and an empty row is freed.
ChanShut(i) ==
  LET row == [rows[i] EXCEPT !.shut = TRUE, !.wait = <<>>]
      waiting == ToSet(rows[i].wait)
  IN /\ runs' = runs \o rows[i].wait
     /\ item' = [f \in DOMAIN item |->
                   IF f \notin waiting THEN item[f]
                   ELSE IF item[f] = Hole THEN None ELSE Told(FALSE)]
     /\ IF Frees(row) THEN ChanFree(i, row)
        ELSE rows' = [rows EXCEPT ![i] = row] /\ UNCHANGED idle

ChanClose(f, h) ==
  /\ \/ Found(h) /\ ~rows[h[2]].shut /\ ChanShut(h[2])
     \/ (~Found(h) \/ rows[h[2]].shut) /\ UNCHANGED <<rows, idle, item, runs>>
  /\ Answer(f, Unit)
  /\ UNCHANGED handles

ChanEffect(f) ==
  /\ \/ "new" \in program.uses /\ ChanNew(f)
     \/ "send" \in program.uses /\ \E h \in handles : ChanSend(f, h)
     \/ "recv" \in program.uses /\ \E h \in handles : ChanRecv(f, h)
     \/ "close" \in program.uses /\ \E h \in handles : ChanClose(f, h)
  /\ UNCHANGED <<park, jobs, busy, helpers, pipe, live>>

-----------------------------------------------------------------------------
(* Helpers.  The gate guards jobs; a helper waits on the bell under it.     *)

\* Mutant: the bell is not rung.
RungNot(threads) == {threads}

\* pthread_cond_signal: one of those asleep wakes, if there is one.
Rung(threads) ==
  LET asleep == {t \in DOMAIN threads : threads[t] = Asleep}
  IN IF asleep = {} THEN {threads}
     ELSE {[threads EXCEPT ![t] = Awake] : t \in asleep}

\* io_work: a file call goes to a helper, a new one while all are taken.
FileCall(f) ==
  /\ "file" \in program.uses
  /\ busy' = busy + 1
  /\ jobs' = Append(jobs, f)
  /\ helpers' \in Rung(IF busy' > Len(helpers) /\ Len(helpers) < IO_HELP
                       THEN Append(helpers, Awake) ELSE helpers)
  /\ IO_PARK
  /\ UNCHANGED <<runs, park, pipe, item, table, live>>

Threads == <<runs, park, busy, n, table, history, item, live, cur, left, clock, exit>>

\* io_help: waits for a job, calls, and writes its activation to the pipe.
Fetch(t) ==
  /\ exit = Running /\ helpers[t] = Awake
  /\ IF jobs = <<>> THEN helpers' = [helpers EXCEPT ![t] = Asleep] /\ UNCHANGED jobs
     ELSE helpers' = [helpers EXCEPT ![t] = Head(jobs)] /\ jobs' = Tail(jobs)
  /\ UNCHANGED <<pipe, Threads>>

Reply(t) ==
  /\ exit = Running /\ helpers[t] \notin {Awake, Asleep}
  /\ Len(pipe) < PipeRoom
  /\ pipe' = Append(pipe, helpers[t])
  /\ helpers' = [helpers EXCEPT ![t] = Awake]
  /\ UNCHANGED <<jobs, Threads>>

Help(t) == Fetch(t) \/ Reply(t)

\* Mutant: one read of the pipe counts as one job, whatever it brought.
BusyAfterRead(taken) == IF taken = <<>> THEN busy ELSE busy - 1

\* io_take: what came back on the pipe.
BusyAfter(taken) == busy - Len(taken)

\* The file's answer readies its computation.
ItemsAfter(ready) == [f \in DOMAIN item |-> IF f \in ready THEN Unit ELSE item[f]]

-----------------------------------------------------------------------------
(* The other effects.                                                      *)

Spawn(f) ==
  /\ "spawn" \in program.uses
  /\ Len(left) + 1 \in Fibers
  /\ runs' = Append(runs, Len(left) + 1)
  /\ item' = Append(item, Unit)
  /\ live' = live + 1
  /\ left' = Append([left EXCEPT ![f] = @ - 1], Asks)
  /\ asking' = Append(asking, Hole)
  /\ cur' = f
  /\ UNCHANGED <<park, jobs, busy, helpers, pipe, table, received, yes, no>>

\* An effect with a need waits before it runs (io_exec as the pack).
Sleep(f) ==
  /\ "sleep" \in program.uses
  /\ \E ms \in Delays : /\ clock + ms <= Horizon
                        /\ park' = Append(park, Parked(f, clock + ms))
  /\ IO_PARK
  /\ UNCHANGED <<runs, jobs, busy, helpers, pipe, item, table, live>>

\* io_wait_on: a read waits first; a send or a connect only if it would block.
Socket(f) ==
  /\ "socket" \in program.uses
  /\ \/ park' = Append(park, Parked(f, 0)) /\ IO_PARK
     \/ UNCHANGED park /\ Answer(f, Unit)
  /\ UNCHANGED <<runs, jobs, busy, helpers, pipe, item, table, live>>

-----------------------------------------------------------------------------
(* The loop.                                                               *)

Turn == n' = (n + 1) % Every

\* A computation's next request, in io_step.
Effect ==
  /\ cur # Idle /\ exit = Running /\ left[cur] > 0
  /\ \/ /\ ChanEffect(cur) \/ FileCall(cur) \/ Sleep(cur) \/ Socket(cur)
        /\ left' = [left EXCEPT ![cur] = @ - 1]
     \/ Spawn(cur)
  /\ UNCHANGED <<n, clock, exit>>

\* CID_EMIT: the computation is over.
Emit ==
  /\ cur # Idle /\ exit = Running
  /\ live' = live - 1
  /\ IO_PARK
  /\ UNCHANGED <<queues, table, item, left, clock, exit>>

Exits(how) ==
  /\ exit' = how
  /\ UNCHANGED <<queues, table, history, item, live, cur, left, clock>>

\* CID_HALT: the program is over, whoever is alive.
Halt == "halt" \in program.uses /\ cur # Idle /\ exit = Running /\ Exits("halted")

\* The next runnable computation; every so often the pipe is looked at first.
Run ==
  /\ cur = Idle /\ exit = Running
  /\ runs # <<>>
  /\ LET taken == IF n = 0 /\ busy # 0 THEN pipe ELSE <<>>
         f == Head(runs)
     IN /\ runs' = Tail(runs) \o taken
        /\ pipe' = IF taken = <<>> THEN pipe ELSE <<>>
        /\ busy' = BusyAfter(taken)
        /\ item' = ItemsAfter(ToSet(taken))
        /\ Answer(f, item[f])
  /\ Turn
  /\ UNCHANGED <<park, jobs, helpers, table, live, left, clock, exit>>

\* io_wait: with nothing runnable, poll until the pipe, a descriptor or an
\* instant is due, take the pipe, and resume who is due in order; a socket
\* that would block after all parks again.  What is ready is the system's choice.
Poll ==
  /\ cur = Idle /\ exit = Running
  /\ runs = <<>> /\ live # 0
  /\ \E ready \in SUBSET {i \in DOMAIN park : park[i].time = 0} :
     \E again \in SUBSET ready :
       LET due == ready \cup {i \in DOMAIN park : park[i].time \in 1..clock}
           resumed == Picked(park, due \ again)
           readied == [k \in DOMAIN resumed |-> resumed[k].fiber]
       IN /\ due # {} \/ pipe # <<>>
          /\ runs' = pipe \o readied
          /\ park' = Picked(park, DOMAIN park \ (due \ again))
          /\ item' = ItemsAfter(ToSet(pipe \o readied))
  /\ busy' = BusyAfter(pipe)
  /\ pipe' = <<>>
  /\ Turn
  /\ UNCHANGED <<jobs, helpers, table, history, live, cur, left, clock, exit>>

Finish ==
  /\ cur = Idle /\ exit = Running
  /\ runs = <<>> /\ live = 0
  /\ Exits("done")

Deadlock ==
  /\ cur = Idle /\ exit = Running
  /\ runs = <<>> /\ live # 0 /\ park = <<>> /\ busy = 0
  /\ Exits("deadlock")

Loop == Run \/ Effect \/ Emit \/ Halt \/ Poll \/ Finish \/ Deadlock

\* Time passes for those who sleep.
Tick ==
  /\ \E i \in DOMAIN park : park[i].time > clock
  /\ clock < Horizon /\ exit = Running
  /\ clock' = clock + 1
  /\ UNCHANGED <<queues, table, history, item, live, cur, left, exit>>

Next ==
  /\ Loop \/ Tick \/ \E t \in DOMAIN helpers : Help(t)
  /\ UNCHANGED program

Spec == Init /\ [][Next]_nvars

\* The loop's thread and the helpers go on while they can, time passes, and a
\* descriptor that poll finds ready again and again answers at last.
LiveSpec ==
  /\ Spec
  /\ WF_nvars(Loop /\ UNCHANGED program) /\ WF_nvars(Tick /\ UNCHANGED program)
  /\ \A t \in 1..IO_HELP : WF_nvars(t \in DOMAIN helpers /\ Help(t) /\ UNCHANGED program)
  /\ SF_nvars(Poll /\ runs' # <<>> /\ UNCHANGED program)

-----------------------------------------------------------------------------
(* Properties.                                                             *)

InHand == {t \in DOMAIN helpers : helpers[t] \notin {Awake, Asleep}}

\* Where computation f is: in the loop, in one of its queues, in a helper's
\* hand, in the pipe, or in a row.
Places(f) ==
  Cardinality({i \in DOMAIN runs : runs[i] = f})
  + Cardinality({i \in DOMAIN park : park[i].fiber = f})
  + Cardinality({i \in DOMAIN jobs : jobs[i] = f})
  + Cardinality({t \in DOMAIN helpers : helpers[t] = f})
  + Cardinality({i \in DOMAIN pipe : pipe[i] = f})
  + Cardinality({i \in DOMAIN rows : f \in ToSet(rows[i].wait)})
  + (IF cur = f THEN 1 ELSE 0)

\* One activation is linked through one next field: it is in one place as long
\* as its computation lives, whichever thread holds it; io_live counts the
\* computations and io_busy those that are away, on which the loop decides
\* whether it is over, deadlocked or has something to poll for.
Accounted ==
  /\ \A f \in Born : Places(f) <= 1
  /\ \A i \in DOMAIN rows : IsInjective(rows[i].wait)
  /\ live = Cardinality({f \in Born : Places(f) = 1})
  /\ busy = Len(jobs) + Cardinality(InHand) + Len(pipe)
  /\ Len(helpers) <= IO_HELP

\* A row that is not live is on the idle list, once, empty and with nobody
\* waiting, so that two channels never share a row; a live one that is shut
\* still holds a value.  Who waits is of one kind and must wait.
RowsKept ==
  /\ IsInjective(idle)
  /\ ToSet(idle) = {i \in DOMAIN rows : ~rows[i].live}
  /\ \A i \in DOMAIN rows :
       LET row == rows[i]
           kind(x) == \A k \in DOMAIN row.wait : (item[row.wait[k]] = Hole) = x
       IN /\ row.size \in 0..row.room
          /\ ~row.live => row.size = 0
          /\ ~row.live \/ row.shut => row.wait = <<>>
          /\ row.live /\ row.shut => row.size > 0
          /\ row.wait # <<>> =>
               (row.size = 0 /\ kind(TRUE)) \/ (row.size = row.room /\ kind(FALSE))

\* Every handle is a channel of its own that does what channels promise,
\* whatever became of the row behind it: a stale one is a closed one.
Ring(row) == [k \in 1..row.size |-> row.ring[Slot(row, k - 1)]]
Senders(row) == SelectSeq(row.wait, LAMBDA f : item[f] # Hole)
Queue(row) ==
  Ring(row) \o [k \in DOMAIN Senders(row) |-> item[Senders(row)[k]]]

Handles == Generations \X Rows
Runnable(x) == {f \in ToSet(runs) : item[f] = x}

Promise ==
  INSTANCE Channel WITH
    Handle <- Handles,
    offered <- [h \in Handles |-> IF h \in handles /\ Found(h) THEN Queue(rows[h[2]]) ELSE <<>>],
    roomed <- [h \in Handles |-> IF h \in handles /\ Found(h) THEN rows[h[2]].size ELSE 0],
    closed <- {h \in handles : ~Found(h) \/ rows[h[2]].shut},
    received <- received \cup {v \in Value : Runnable(Some(v)) # {}},
    yes <- yes \cup {asking[f] : f \in Runnable(Told(TRUE))},
    no <- no \cup {asking[f] : f \in Runnable(Told(FALSE))}

ImplementsChannel == Promise!Spec

\* Every program whose computations are finite comes to an end: no job waits
\* for a bell that was not rung, no sleeper is forgotten.
Finishes == <>(exit # Running)
=============================================================================
