----------------------------- MODULE FiberProofs -----------------------------
(***************************************************************************)
(* The computations of the JavaScript runtime, for every number of         *)
(* computations, channels, descriptors and rooms and every program.        *)
(*                                                                         *)
(* Who waits in a channel: a row is judged by itself, RowOk says of one    *)
(* row what WaitersMustWait says of all, with the bound on its ring that a *)
(* full row is recognised by.  Values and waiters may be anything, so the  *)
(* type only says that ring and wait are sequences.                        *)
(*                                                                         *)
(* Where computations are: the runnable, those that wait on the loop, the  *)
(* rows and the one in the loop have nobody in common (Apart), and live    *)
(* is the number of all of them (Crowd).  A step moves one or several of   *)
(* them, adds one or lets one go.                                          *)
(*                                                                         *)
(* What they have open: the connects that are interrupted (Dials), the     *)
(* hands and the open descriptors are three sides of one book (Books).     *)
(* That a connect in the books is there once follows from where its        *)
(* computation is.                                                         *)
(***************************************************************************)
EXTENDS Fibers, InductionProofs

RowLike(row) ==
  /\ row = [room |-> row.room, ring |-> row.ring, wait |-> row.wait, shut |-> row.shut]
  /\ row.room \in Nat
  /\ IsSeq(row.ring) /\ IsSeq(row.wait)

ReceiversOnly(row) == \A i \in 1..Len(row.wait) : row.wait[i].item = NoValue
SendersOnly(row) == \A i \in 1..Len(row.wait) : row.wait[i].item # NoValue

RowOk(row) ==
  /\ RowLike(row)
  /\ Len(row.ring) <= row.room
  /\ row.wait # <<>> =>
       /\ ~row.shut
       /\ (row.ring = <<>> /\ ReceiversOnly(row))
          \/ (Len(row.ring) = row.room /\ SendersOnly(row))

FInv ==
  /\ IsSeq(chans)
  /\ \A c \in 1..Len(chans) : RowOk(chans[c])

----------------------------------------------------------------------------
(* What the operations do to one row.                                      *)

\* A row is made of what it holds.
RowOf(room, ring, wait, shut) ==
  [room |-> room, ring |-> ring, wait |-> wait, shut |-> shut]

\* What a change of one field leaves of a row.
LEMMA RowEdits ==
  ASSUME NEW row, RowLike(row), NEW x, NEW y
  PROVE  /\ [row EXCEPT !.ring = x] = RowOf(row.room, x, row.wait, row.shut)
         /\ [row EXCEPT !.wait = x] = RowOf(row.room, row.ring, x, row.shut)
         /\ [row EXCEPT !.shut = x, !.wait = y] = RowOf(row.room, row.ring, y, x)
<1>1. PICK room, ring, wait, shut : row = RowOf(room, ring, wait, shut)
  BY DEF RowLike, RowOf
<1>2. [row EXCEPT !.ring = x] = RowOf(row.room, x, row.wait, row.shut)
  BY <1>1 DEF RowOf
<1>3. [row EXCEPT !.wait = x] = RowOf(row.room, row.ring, x, row.shut)
  BY <1>1 DEF RowOf
<1>4. [row EXCEPT !.shut = x, !.wait = y] = RowOf(row.room, row.ring, y, x)
  <2>1. [row EXCEPT !.shut = x] = RowOf(room, ring, wait, x)
    BY <1>1 DEF RowOf
  <2>2. [RowOf(room, ring, wait, x) EXCEPT !.wait = y] = RowOf(room, ring, y, x)
    BY DEF RowOf
  <2>3. [row EXCEPT !.shut = x, !.wait = y] = [[row EXCEPT !.shut = x] EXCEPT !.wait = y]
    OBVIOUS
  <2>4. row.room = room /\ row.ring = ring
    BY <1>1 DEF RowOf
  <2> QED
    BY <2>1, <2>2, <2>3, <2>4
<1> QED
  BY <1>2, <1>3, <1>4

\* And what its fields are.
LEMMA RowFields ==
  ASSUME NEW room, NEW ring, NEW wait, NEW shut, NEW row,
         row = RowOf(room, ring, wait, shut)
  PROVE  /\ row.room = room /\ row.ring = ring /\ row.wait = wait /\ row.shut = shut
         /\ row = RowOf(row.room, row.ring, row.wait, row.shut)
  BY DEF RowOf

\* comp.ts, chan_new.  A new row has nobody who waits.
LEMMA NewRowOk ==
  ASSUME NEW room \in Nat
  PROVE  RowOk(NewRow(room))
<1> DEFINE row == NewRow(room)
<1>1. IsSeq(<<>>)
  BY EmptyIsSeq
<1>2. /\ row = RowOf(row.room, row.ring, row.wait, row.shut)
      /\ row.room = room /\ row.ring = <<>> /\ row.wait = <<>>
  BY DEF NewRow, RowOf
<1> HIDE DEF row
<1>3. Len(row.ring) = 0
  BY <1>2
<1>4. RowOk(row)
  BY <1>1, <1>2, <1>3 DEF RowOk, RowLike, RowOf
<1> QED
  BY <1>4 DEF row

\* comp.ts, chan_wake.  Waking the first leaves the others as they were.
LEMMA WakeOk ==
  ASSUME NEW row, RowOk(row), row.wait # <<>>
  PROVE  RowOk(Wake(row))
<1> DEFINE after == Wake(row)
<1>1. /\ after.wait = Tail(row.wait) /\ after.ring = row.ring
      /\ after.room = row.room /\ after.shut = row.shut
      /\ after = RowOf(after.room, after.ring, after.wait, after.shut)
  <2>1. after = RowOf(row.room, row.ring, Tail(row.wait), row.shut)
    BY RowEdits DEF Wake, RowOk
  <2> HIDE DEF after
  <2> QED
    BY <2>1, RowFields
<1> HIDE DEF after
<1>2. IsSeq(row.wait) /\ IsSeq(row.ring) /\ row.room \in Nat
  BY DEF RowOk, RowLike
<1>3. /\ IsSeq(after.wait) /\ Len(after.wait) = Len(row.wait) - 1
      /\ \A i \in 1..Len(row.wait) - 1 : after.wait[i] = row.wait[i + 1]
      /\ Len(row.wait) \in Nat \ {0}
  BY <1>1, <1>2, TailSeq
<1>4. RowLike(after)
  BY <1>1, <1>2, <1>3 DEF RowLike, RowOf
<1>5. \A i \in 1..Len(row.wait) - 1 : i + 1 \in 1..Len(row.wait)
  BY <1>3
<1>6. /\ ReceiversOnly(row) => ReceiversOnly(after)
      /\ SendersOnly(row) => SendersOnly(after)
  BY <1>3, <1>5 DEF ReceiversOnly, SendersOnly
<1>7. RowOk(after)
  BY <1>1, <1>4, <1>6 DEF RowOk
<1> QED
  BY <1>7 DEF after

\* comp.ts, chan_take.  The room that a receiver frees in a ring goes to the
\* first sender, so the row is as full as before for the others.
LEMMA TakeRowOk ==
  ASSUME NEW row, RowOk(row), row.ring # <<>>
  PROVE  RowOk(TakeRow(row))
<1>1. IsSeq(row.wait) /\ IsSeq(row.ring) /\ row.room \in Nat
  BY DEF RowOk, RowLike
<1>2. /\ IsSeq(Tail(row.ring)) /\ Len(Tail(row.ring)) = Len(row.ring) - 1
      /\ Len(row.ring) \in Nat \ {0}
  BY <1>1, TailSeq
<1>3. CASE row.wait = <<>>
  <2> DEFINE after == [row EXCEPT !.ring = Tail(@)]
  <2>1. /\ after.wait = <<>> /\ after.ring = Tail(row.ring)
        /\ after.room = row.room
        /\ after = RowOf(after.room, after.ring, after.wait, after.shut)
    BY <1>3 DEF RowOk, RowLike, RowOf
  <2>2. TakeRow(row) = after
    BY <1>3 DEF TakeRow
  <2> HIDE DEF after
  <2>3. RowLike(after)
    BY <1>1, <1>2, <2>1, EmptyIsSeq DEF RowLike, RowOf
  <2>4. Len(after.ring) <= after.room
    BY <1>1, <1>2, <2>1 DEF RowOk
  <2>5. RowOk(after)
    BY <2>1, <2>3, <2>4 DEF RowOk
  <2> QED
    BY <2>2, <2>5
<1>4. CASE row.wait # <<>>
  <2> DEFINE woken == Wake(row)
             after == [woken EXCEPT !.ring = Append(Tail(@), First(row).item)]
  <2>1. RowOk(woken) /\ woken.ring = row.ring /\ woken.room = row.room
        /\ woken.shut = row.shut /\ woken.wait = Tail(row.wait)
    BY <1>4, WakeOk DEF Wake, RowOk, RowLike
  <2>2. TakeRow(row) = after
    BY <1>4 DEF TakeRow
  <2> HIDE DEF woken
  <2>3. /\ after.ring = Append(Tail(row.ring), First(row).item)
        /\ after.wait = woken.wait /\ after.room = row.room /\ after.shut = row.shut
        /\ after = RowOf(after.room, after.ring, after.wait, after.shut)
    BY <2>1 DEF RowOk, RowLike, RowOf
  <2> HIDE DEF after
  <2>4. IsSeq(after.ring) /\ Len(after.ring) = Len(row.ring)
    BY <1>2, <2>3, AppendSeq
  <2>5. ~row.shut /\ Len(row.ring) = row.room
    BY <1>4 DEF RowOk
  <2>6. after.wait # <<>> => SendersOnly(after)
    BY <2>1, <2>3 DEF RowOk, SendersOnly
  <2>7. IsSeq(after.wait) /\ after.room \in Nat
    BY <1>1, <2>1, <2>3 DEF RowOk, RowLike
  <2> QED
    BY <1>1, <1>2, <2>2, <2>3, <2>4, <2>5, <2>6, <2>7 DEF RowOk, RowLike, RowOf
<1> QED
  BY <1>3, <1>4

\* comp.ts, chan_send.  A value that finds room finds nobody who waits.
LEMMA StoreOk ==
  ASSUME NEW row, RowOk(row), ~ReceiverWaits(row), Len(row.ring) < row.room, NEW v
  PROVE  RowOk([row EXCEPT !.ring = Append(@, v)])
<1> DEFINE after == [row EXCEPT !.ring = Append(@, v)]
<1>1. IsSeq(row.wait) /\ IsSeq(row.ring) /\ row.room \in Nat
  BY DEF RowOk, RowLike
<1>2. row.wait = <<>>
  <2> SUFFICES ASSUME row.wait # <<>> PROVE FALSE
    OBVIOUS
  <2>1. 1 \in 1..Len(row.wait)
    BY <1>1, SeqFacts
  <2>2. ReceiversOnly(row)
    BY DEF RowOk
  <2> QED
    BY <2>1, <2>2 DEF ReceiversOnly, ReceiverWaits, First
<1>3. /\ after.ring = Append(row.ring, v) /\ after.wait = <<>> /\ after.room = row.room
      /\ after = RowOf(after.room, after.ring, after.wait, after.shut)
  <2>1. after = RowOf(row.room, Append(row.ring, v), <<>>, row.shut)
    BY <1>2, RowEdits DEF RowOk
  <2> HIDE DEF after
  <2> QED
    BY <2>1 DEF RowOf
<1> HIDE DEF after
<1>4. IsSeq(after.ring) /\ Len(after.ring) = Len(row.ring) + 1 /\ Len(row.ring) \in Nat
  <2>1. Len(row.ring) \in Nat
    BY <1>1, SeqFacts
  <2>2. IsSeq(Append(row.ring, v)) /\ Len(Append(row.ring, v)) = Len(row.ring) + 1
    BY <1>1, AppendSeq
  <2> QED
    BY <1>3, <2>1, <2>2
<1>5. RowOk(after)
  BY <1>1, <1>3, <1>4, EmptyIsSeq DEF RowOk, RowLike, RowOf
<1> QED
  BY <1>5 DEF after

\* comp.ts, chan_send and chan_recv.  Who joins the others in wait is of
\* their kind, and the row is one it must wait for.
LEMMA WaitOk ==
  ASSUME NEW row, RowOk(row), ~row.shut, NEW f, NEW item,
         \/ item = NoValue /\ row.ring = <<>> /\ ~SenderWaits(row)
         \/ item # NoValue /\ Len(row.ring) >= row.room /\ ~ReceiverWaits(row)
  PROVE  RowOk([row EXCEPT !.wait = Append(@, Waiter(f, item))])
<1> DEFINE w == Waiter(f, item)
           after == [row EXCEPT !.wait = Append(@, w)]
<1>1. /\ IsSeq(row.wait) /\ IsSeq(row.ring) /\ row.room \in Nat
      /\ Len(row.wait) \in Nat /\ Len(row.ring) \in Nat
  BY SeqFacts DEF RowOk, RowLike
<1>2. w.item = item
  BY DEF Waiter
<1> HIDE DEF w
<1>3. /\ after.wait = Append(row.wait, w) /\ after.ring = row.ring
      /\ after.room = row.room /\ after.shut = row.shut
      /\ after = RowOf(after.room, after.ring, after.wait, after.shut)
  <2>1. after = RowOf(row.room, row.ring, Append(row.wait, w), row.shut)
    BY RowEdits DEF RowOk
  <2> HIDE DEF after
  <2> QED
    BY <2>1 DEF RowOf
<1> HIDE DEF after
<1>4. /\ IsSeq(after.wait) /\ Len(after.wait) = Len(row.wait) + 1
      /\ \A i \in 1..Len(row.wait) : after.wait[i] = row.wait[i]
      /\ after.wait[Len(row.wait) + 1] = w
  BY <1>1, <1>3, AppendSeq
<1>5. \A i \in 1..Len(row.wait) + 1 : i \in 1..Len(row.wait) \/ i = Len(row.wait) + 1
  BY <1>1
<1>6. row.wait # <<>> => 1 \in 1..Len(row.wait)
  BY <1>1, SeqFacts
<1>7. CASE item = NoValue /\ row.ring = <<>> /\ ~SenderWaits(row)
  <2>1. ReceiversOnly(row)
    BY <1>1, <1>6, <1>7, SeqFacts DEF RowOk, ReceiversOnly, SendersOnly, SenderWaits, First
  <2>2. ReceiversOnly(after)
    BY <1>2, <1>4, <1>5, <1>7, <2>1 DEF ReceiversOnly
  <2> QED
    BY <1>1, <1>3, <1>4, <1>7, <2>2 DEF RowOk, RowLike, RowOf, after, w
<1>8. CASE item # NoValue /\ Len(row.ring) >= row.room /\ ~ReceiverWaits(row)
  <2>1. SendersOnly(row)
    BY <1>1, <1>6, <1>8, SeqFacts DEF RowOk, ReceiversOnly, SendersOnly, ReceiverWaits, First
  <2>2. SendersOnly(after)
    BY <1>2, <1>4, <1>5, <1>8, <2>1 DEF SendersOnly
  <2>3. Len(row.ring) = row.room
    BY <1>1, <1>8 DEF RowOk
  <2> QED
    BY <1>1, <1>3, <1>4, <2>2, <2>3 DEF RowOk, RowLike, RowOf, after, w
<1> QED
  BY <1>7, <1>8

\* comp.ts, chan_shut.  Nobody waits in a closed row.
LEMMA ShutOk ==
  ASSUME NEW row, RowOk(row)
  PROVE  RowOk(ShutRow(row))
<1> DEFINE after == ShutRow(row)
<1>1. /\ IsSeq(row.ring) /\ row.room \in Nat /\ IsSeq(<<>>)
      /\ Len(row.ring) <= row.room
  BY EmptyIsSeq DEF RowOk, RowLike
<1>2. /\ after = RowOf(after.room, after.ring, after.wait, after.shut)
      /\ after.room = row.room /\ after.ring = row.ring /\ after.wait = <<>>
  <2>1. after = RowOf(row.room, row.ring, <<>>, TRUE)
    BY RowEdits DEF ShutRow, RowOk
  <2> HIDE DEF after
  <2> QED
    BY <2>1 DEF RowOf
<1> HIDE DEF after
<1>3. RowOk(after)
  BY <1>1, <1>2 DEF RowOk, RowLike, RowOf
<1> QED
  BY <1>3 DEF after

----------------------------------------------------------------------------
(* The steps.                                                              *)

\* comp.ts, row_of.  An operation on one row leaves the others alone.
LEMMA RowKeeps ==
  ASSUME FInv, NEW c \in DOMAIN chans, NEW row, RowOk(row), Row(c, row)
  PROVE  FInv'
<1>1. IsSeq(chans) /\ c \in 1..Len(chans)
  BY SeqFacts DEF FInv
<1>2. /\ IsSeq(chans') /\ Len(chans') = Len(chans) /\ chans'[c] = row
      /\ \A i \in 1..Len(chans) : i # c => chans'[i] = chans[i]
  <2>1. PICK s, t : s = chans /\ t = chans'
    OBVIOUS
  <2>2. t = Replaced(s, c, row)
    BY <2>1 DEF Row, Replaced
  <2>3. IsSeq(s) /\ c \in 1..Len(s)
    BY <1>1, <2>1
  <2>4. /\ IsSeq(t) /\ Len(t) = Len(s) /\ t[c] = row
        /\ \A i \in 1..Len(s) : i # c => t[i] = s[i]
    BY <2>2, <2>3, ReplaceSeq
  <2> QED
    BY <2>1, <2>4
<1>3. \A i \in 1..Len(chans') : RowOk(chans'[i])
  BY <1>2 DEF FInv
<1>4. FInv' <=> IsSeq(chans') /\ \A i \in 1..Len(chans') : RowOk(chans'[i])
  BY DEF FInv, RowOk, RowLike, IsSeq, ReceiversOnly, SendersOnly
<1> QED
  BY <1>2, <1>3, <1>4

\* comp.ts, chan_new.  A new row joins those there are.
LEMMA NewKeeps ==
  ASSUME FInv, NEW f, ChanNew(f)
  PROVE  FInv'
<1>1. PICK room \in Rooms : chans' = Append(chans, NewRow(room))
  BY DEF ChanNew
<1>2. RowOk(NewRow(room))
  BY <1>1, FibersAssumption, NewRowOk
<1>3. /\ IsSeq(chans') /\ Len(chans') = Len(chans) + 1
      /\ \A i \in 1..Len(chans) : chans'[i] = chans[i]
      /\ chans'[Len(chans) + 1] = NewRow(room)
      /\ Len(chans) \in Nat
  BY <1>1, AppendSeq, SeqFacts DEF FInv
<1>4. \A i \in 1..Len(chans') : i \in 1..Len(chans) \/ i = Len(chans) + 1
  BY <1>3
<1>5. \A i \in 1..Len(chans') : RowOk(chans'[i])
  BY <1>2, <1>3, <1>4 DEF FInv
<1>6. FInv' <=> IsSeq(chans') /\ \A i \in 1..Len(chans') : RowOk(chans'[i])
  BY DEF FInv, RowOk, RowLike, IsSeq, ReceiversOnly, SendersOnly
<1> QED
  BY <1>3, <1>5, <1>6

\* A step that leaves the rows alone keeps what is known of them.
LEMMA SameRowsKeep ==
  ASSUME FInv, chans' = chans
  PROVE  FInv'
  BY DEF FInv, RowOk, RowLike, IsSeq, ReceiversOnly, SendersOnly

\* comp.ts, chan_send.  A value that is sent is not the receivers' nothing.
LEMMA SendKeeps ==
  ASSUME FInv, NEW f, NEW c \in DOMAIN chans, ChanSend(f, c)
  PROVE  FInv'
<1> DEFINE row == chans[c]
           v == <<f, left[f]>>
<1>1. v # NoValue
  BY DEF NoValue
<1>2. RowOk(row)
  BY SeqFacts DEF FInv
<1>3. CASE row.shut /\ chans' = chans
  BY <1>3, SameRowsKeep
<1>4. CASE ~row.shut /\ ReceiverWaits(row) /\ Row(c, Wake(row))
  BY <1>2, <1>4, WakeOk, RowKeeps DEF ReceiverWaits
<1>5. CASE /\ ~row.shut /\ ~ReceiverWaits(row) /\ Len(row.ring) < row.room
           /\ Row(c, [row EXCEPT !.ring = Append(@, v)])
  <2>1. RowOk([row EXCEPT !.ring = Append(@, v)])
    BY <1>2, <1>5, StoreOk
  <2> QED
    BY <1>5, <2>1, RowKeeps
<1>6. CASE /\ ~row.shut /\ ~ReceiverWaits(row) /\ Len(row.ring) >= row.room
           /\ Row(c, [row EXCEPT !.wait = Append(@, Waiter(f, v))])
  <2>1. RowOk([row EXCEPT !.wait = Append(@, Waiter(f, v))])
    BY <1>1, <1>2, <1>6, WaitOk
  <2> QED
    BY <1>6, <2>1, RowKeeps
<1> QED
  BY <1>3, <1>4, <1>5, <1>6 DEF ChanSend

\* comp.ts, chan_recv.
LEMMA RecvKeeps ==
  ASSUME FInv, NEW f, NEW c \in DOMAIN chans, ChanRecv(f, c)
  PROVE  FInv'
<1> DEFINE row == chans[c]
<1>1. RowOk(row)
  BY SeqFacts DEF FInv
<1>2. CASE row.ring # <<>> /\ Row(c, TakeRow(row))
  BY <1>1, <1>2, TakeRowOk, RowKeeps
<1>3. CASE SenderWaits(row) /\ Row(c, Wake(row))
  BY <1>1, <1>3, WakeOk, RowKeeps DEF SenderWaits
<1>4. CASE chans' = chans
  BY <1>4, SameRowsKeep
<1>5. CASE /\ row.ring = <<>> /\ ~SenderWaits(row) /\ ~row.shut
           /\ Row(c, [row EXCEPT !.wait = Append(@, Waiter(f, NoValue))])
  <2>1. RowOk([row EXCEPT !.wait = Append(@, Waiter(f, NoValue))])
    BY <1>1, <1>5, WaitOk
  <2> QED
    BY <1>5, <2>1, RowKeeps
<1> QED
  BY <1>2, <1>3, <1>4, <1>5 DEF ChanRecv

\* comp.ts, chan_close.
LEMMA CloseKeeps ==
  ASSUME FInv, NEW f, NEW c \in DOMAIN chans, ChanClose(f, c)
  PROVE  FInv'
<1>1. RowOk(chans[c])
  BY SeqFacts DEF FInv
<1>2. RowOk(ShutRow(chans[c]))
  BY <1>1, ShutOk
<1>3. CASE chans' = chans
  BY <1>3, SameRowsKeep
<1>4. CASE Row(c, ShutRow(chans[c]))
  BY <1>2, <1>4, RowKeeps
<1> QED
  BY <1>3, <1>4 DEF ChanClose

\* comp.ts, io_run.  Only the channels' effects touch their rows.
LEMMA StepKeeps ==
  ASSUME FInv, [Next]_fvars
  PROVE  FInv'
<1>1. CASE ChanEffect(cur)
  BY <1>1, NewKeeps, SendKeeps, RecvKeeps, CloseKeeps DEF ChanEffect
<1>2. CASE chans' = chans
  BY <1>2, SameRowsKeep
<1>3. ChanEffect(cur) \/ chans' = chans
  <2>1. Effect => ChanEffect(cur) \/ chans' = chans
    BY DEF Effect, Spawn, Sleep, ReadEffect, WriteEffect, Connect, Open, Close, Immediate
  <2>2. Run \/ Emit \/ Poll => chans' = chans
    BY DEF Run, Emit, Poll
  <2>3. Throw \/ Halt \/ Finish \/ Deadlock \/ Tick => chans' = chans
    BY DEF Throw, Halt, Finish, Deadlock, Tick, Others
  <2>4. UNCHANGED fvars => chans' = chans
    BY DEF fvars
  <2> QED
    BY <2>1, <2>2, <2>3, <2>4 DEF Next, Loop
<1> QED
  BY <1>1, <1>2, <1>3

----------------------------------------------------------------------------

\* At the start there are no rows.
LEMMA RowsInit ==
  ASSUME Init
  PROVE  FInv
<1>1. chans = <<>>
  BY DEF Init
<1>2. IsSeq(chans) /\ Len(chans) = 0
  BY <1>1, EmptyIsSeq
<1> QED
  BY <1>2 DEF FInv

\* comp.ts, chan_send, chan_recv, chan_close and io_run.  Whatever the
\* programs ask, and however many they are, who waits in a row is of one kind
\* and has to wait: no receiver is left beside a value, no sender beside a
\* room, nobody in a closed row.
THEOREM NobodyWaitsInVain == Spec => []WaitersMustWait
<1>1. Init => FInv
  BY RowsInit
<1>2. FInv /\ [Next]_fvars => FInv'
  BY StepKeeps
<1>3. FInv => WaitersMustWait
  <2> SUFFICES ASSUME FInv, NEW c \in DOMAIN chans, chans[c].wait # <<>>
               PROVE  /\ ~chans[c].shut
                      /\ \/ /\ chans[c].ring = <<>>
                            /\ \A i \in DOMAIN chans[c].wait :
                                 chans[c].wait[i].item = NoValue
                         \/ /\ Len(chans[c].ring) = chans[c].room
                            /\ \A i \in DOMAIN chans[c].wait :
                                 chans[c].wait[i].item # NoValue
    BY DEF WaitersMustWait
  <2>1. RowOk(chans[c])
    BY SeqFacts DEF FInv
  <2>2. DOMAIN chans[c].wait = 1..Len(chans[c].wait)
    BY <2>1, SeqFacts DEF RowOk, RowLike
  <2> QED
    BY <2>1, <2>2 DEF RowOk, ReceiversOnly, SendersOnly
<1> QED
  BY <1>1, <1>2, <1>3, PTL DEF Spec

----------------------------------------------------------------------------
(* Lines of computations.                                                  *)

Names(s) == {s[i].fiber : i \in 1..Len(s)}

\* Nobody stands in the line twice.
Line(s) ==
  /\ IsSeq(s)
  /\ \A i, j \in 1..Len(s) : s[i].fiber = s[j].fiber => i = j

Entries(s) == {s[i] : i \in 1..Len(s)}

\* Who is listed after one more is added.
LEMMA EntriesAppend ==
  ASSUME NEW s, IsSeq(s), NEW x
  PROVE  Entries(Append(s, x)) = Entries(s) \cup {x}
<1>1. /\ Len(Append(s, x)) = Len(s) + 1 /\ Len(s) \in Nat
      /\ \A k \in 1..Len(s) : Append(s, x)[k] = s[k]
      /\ Append(s, x)[Len(s) + 1] = x
  BY AppendSeq, SeqFacts
<1>2. 1..(Len(s) + 1) = (1..Len(s)) \cup {Len(s) + 1}
  BY <1>1
<1> QED
  BY <1>1, <1>2 DEF Entries

\* Nobody stands in an empty line.
LEMMA EmptyLine ==
  ASSUME NEW s, s = <<>>
  PROVE  Line(s) /\ Names(s) = {}
<1>1. IsSeq(s) /\ Len(s) = 0
  BY EmptyIsSeq
<1> QED
  BY <1>1 DEF Line, Names

\* Who joins at the end of a line is in it from then on.
LEMMA JoinLine ==
  ASSUME NEW s, Line(s), NEW x, x.fiber \notin Names(s)
  PROVE  Line(Append(s, x)) /\ Names(Append(s, x)) = Names(s) \cup {x.fiber}
<1> DEFINE t == Append(s, x)
<1>1. /\ IsSeq(t) /\ Len(t) = Len(s) + 1 /\ Len(s) \in Nat
      /\ \A i \in 1..Len(s) : t[i] = s[i]
      /\ t[Len(s) + 1] = x
  BY AppendSeq, SeqFacts DEF Line
<1> HIDE DEF t
<1>2. \A i \in 1..Len(t) : i \in 1..Len(s) \/ i = Len(s) + 1
  BY <1>1
<1>3. \A i \in 1..Len(s) : i \in 1..Len(t) /\ s[i].fiber # x.fiber
  BY <1>1 DEF Names
<1>4. Len(s) + 1 \in 1..Len(t)
  BY <1>1
<1>5. Line(t)
  BY <1>1, <1>2, <1>3 DEF Line
<1>6. Names(t) = Names(s) \cup {x.fiber}
  BY <1>1, <1>2, <1>3, <1>4 DEF Names
<1> QED
  BY <1>5, <1>6 DEF t

\* Who is first leaves the others behind.
LEMMA LeaveLine ==
  ASSUME NEW s, Line(s), s # <<>>
  PROVE  /\ Line(Tail(s)) /\ s[1].fiber \in Names(s)
         /\ Names(Tail(s)) = Names(s) \ {s[1].fiber}
<1> DEFINE t == Tail(s)
<1>1. /\ IsSeq(t) /\ Len(t) = Len(s) - 1 /\ Len(s) \in Nat \ {0}
      /\ \A i \in 1..Len(s) - 1 : t[i] = s[i + 1]
  BY TailSeq DEF Line
<1> HIDE DEF t
<1>2. \A i \in 1..Len(t) : i + 1 \in 1..Len(s) /\ t[i] = s[i + 1] /\ i + 1 # 1
  BY <1>1
<1>3. \A i \in 1..Len(s) : i = 1 \/ (i - 1 \in 1..Len(t) /\ t[i - 1] = s[i])
  <2> SUFFICES ASSUME NEW i \in 1..Len(s), i # 1
               PROVE  i - 1 \in 1..Len(t) /\ t[i - 1] = s[i]
    OBVIOUS
  <2>1. i - 1 \in 1..Len(s) - 1 /\ (i - 1) + 1 = i
    BY <1>1
  <2> QED
    BY <1>1, <2>1
<1>4. 1 \in 1..Len(s)
  BY <1>1
<1>5. \A i, j \in 1..Len(t) : i + 1 = j + 1 => i = j
  BY <1>1
<1>6. Line(t)
  BY <1>1, <1>2, <1>5 DEF Line
<1>7. \A i \in 1..Len(t) : t[i].fiber # s[1].fiber
  BY <1>2, <1>4 DEF Line
<1>8. Names(t) = Names(s) \ {s[1].fiber}
  <2>1. ASSUME NEW i \in 1..Len(t)
        PROVE  t[i].fiber \in Names(s) \ {s[1].fiber}
    BY <1>2, <1>7 DEF Names
  <2>2. ASSUME NEW i \in 1..Len(s), s[i].fiber # s[1].fiber
        PROVE  s[i].fiber \in Names(t)
    <3>1. i - 1 \in 1..Len(t) /\ t[i - 1] = s[i]
      BY <1>3, <2>2
    <3> QED
      BY <3>1 DEF Names
  <2> QED
    BY <2>1, <2>2 DEF Names
<1> QED
  BY <1>4, <1>6, <1>8 DEF t, Names

\* A line with the same computations in the same order.
LEMMA SameLine ==
  ASSUME NEW s, Line(s), NEW t, IsSeq(t), Len(t) = Len(s),
         \A i \in 1..Len(s) : t[i].fiber = s[i].fiber
  PROVE  Line(t) /\ Names(t) = Names(s)
  BY DEF Line, Names

\* Two lines one behind the other.
LEMMA JoinLines ==
  ASSUME NEW s, Line(s), NEW t, Line(t), Names(s) \cap Names(t) = {}
  PROVE  Line(s \o t) /\ Names(s \o t) = Names(s) \cup Names(t)
<1> DEFINE u == s \o t
<1>1. /\ IsSeq(u) /\ Len(u) = Len(s) + Len(t) /\ Len(s) \in Nat /\ Len(t) \in Nat
      /\ \A i \in 1..Len(u) : u[i] = IF i <= Len(s) THEN s[i] ELSE t[i - Len(s)]
  BY ConcatSeq DEF Line
<1> HIDE DEF u
<1>2. \A i \in 1..Len(u) : \/ i \in 1..Len(s) /\ u[i] = s[i]
                           \/ i - Len(s) \in 1..Len(t) /\ u[i] = t[i - Len(s)] /\ ~(i <= Len(s))
  BY <1>1
<1>3. \A i \in 1..Len(s) : i \in 1..Len(u) /\ u[i] = s[i]
  BY <1>1
<1>4. \A i \in 1..Len(t) : Len(s) + i \in 1..Len(u) /\ u[Len(s) + i] = t[i]
  BY <1>1
<1>5. Names(u) = Names(s) \cup Names(t)
  <2>1. \A i \in 1..Len(u) : u[i].fiber \in Names(s) \cup Names(t)
    BY <1>2 DEF Names
  <2>2. ASSUME NEW i \in 1..Len(s) PROVE s[i].fiber \in Names(u)
    BY <1>3 DEF Names
  <2>3. ASSUME NEW i \in 1..Len(t) PROVE t[i].fiber \in Names(u)
    <3>1. Len(s) + i \in 1..Len(u) /\ u[Len(s) + i] = t[i]
      BY <1>4
    <3> QED
      BY <3>1 DEF Names
  <2> QED
    BY <2>1, <2>2, <2>3 DEF Names
<1>6. ASSUME NEW i \in 1..Len(u), NEW j \in 1..Len(u), u[i].fiber = u[j].fiber
      PROVE  i = j
  <2>1. CASE i \in 1..Len(s) /\ u[i] = s[i] /\ j \in 1..Len(s) /\ u[j] = s[j]
    BY <1>6, <2>1 DEF Line
  <2>2. CASE /\ i - Len(s) \in 1..Len(t) /\ u[i] = t[i - Len(s)]
             /\ j - Len(s) \in 1..Len(t) /\ u[j] = t[j - Len(s)]
    <3>1. i - Len(s) = j - Len(s)
      BY <1>6, <2>2 DEF Line
    <3> QED
      BY <1>1, <3>1
  <2>3. CASE /\ i \in 1..Len(s) /\ u[i] = s[i]
             /\ j - Len(s) \in 1..Len(t) /\ u[j] = t[j - Len(s)]
    BY <1>6, <2>3 DEF Names
  <2>4. CASE /\ j \in 1..Len(s) /\ u[j] = s[j]
             /\ i - Len(s) \in 1..Len(t) /\ u[i] = t[i - Len(s)]
    BY <1>6, <2>4 DEF Names
  <2> QED
    BY <1>2, <2>1, <2>2, <2>3, <2>4
<1>7. Line(u)
  BY <1>1, <1>6 DEF Line
<1> QED
  BY <1>5, <1>7 DEF u

\* comp.ts, io_wait.  Those picked from a line are those at the positions.
LEMMA PickedLine ==
  ASSUME NEW s, Line(s), NEW I, I \subseteq 1..Len(s)
  PROVE  Line(Picked(s, I)) /\ Entries(Picked(s, I)) = {s[i] : i \in I}
<1> DEFINE N == Len(s)
<1>1. IsSeq(s)
  BY DEF Line
<1>2. N \in Nat
  BY <1>1, SeqFacts
<1>3. PICK it :
       /\ \A i \in 0..N : IsSeq(it[i])
       /\ it[0] = <<>>
       /\ \A i \in 1..N : it[i] = IF i \in I THEN Append(it[i - 1], s[i]) ELSE it[i - 1]
       /\ Picked(s, I) = it[N]
  BY <1>1, PickedUpto
<1> HIDE DEF N
<1>11. /\ it[0] = <<>>
       /\ \A i \in 1..N : it[i] = IF i \in I THEN Append(it[i - 1], s[i]) ELSE it[i - 1]
  BY <1>3
<1> DEFINE Right(i) == Line(it[i]) /\ Entries(it[i]) = {s[j] : j \in I \cap (1..i)}
           T == {i \in 0..N : ~Right(i)}
<1>12. Right(0)
  <2>1. Line(it[0]) /\ Len(it[0]) = 0
    BY <1>11, EmptyLine, EmptyIsSeq
  <2>2. 1..0 = {}
    OBVIOUS
  <2> QED
    BY <2>1, <2>2 DEF Entries
<1>13. ASSUME NEW i \in 1..N, Right(i - 1)
       PROVE  Right(i)
  <2>1. 1..i = (1..(i - 1)) \cup {i} /\ i \notin 1..(i - 1)
    BY <1>2
  <2>2. CASE i \notin I
    <3>1. I \cap (1..i) = I \cap (1..(i - 1))
      BY <2>1, <2>2
    <3> QED
      BY <1>11, <1>13, <2>2, <3>1
  <2>3. CASE i \in I
    <3> DEFINE t == it[i - 1]
    <3>1. it[i] = Append(t, s[i])
      BY <1>11, <2>3
    <3>2. Line(t) /\ Entries(t) = {s[j] : j \in I \cap (1..(i - 1))}
      BY <1>13
    <3> HIDE DEF t
    <3>3. s[i].fiber \notin Names(t)
      <4> SUFFICES ASSUME NEW k \in 1..Len(t), t[k].fiber = s[i].fiber PROVE FALSE
        BY DEF Names
      <4>1. t[k] \in Entries(t)
        BY DEF Entries
      <4>2. PICK j \in I \cap (1..(i - 1)) : t[k] = s[j]
        BY <3>2, <4>1
      <4>3. j \in 1..Len(s) /\ i \in 1..Len(s) /\ j # i
        BY <2>1, <2>3
      <4> QED
        BY <4>2, <4>3 DEF Line
    <3>4. Line(Append(t, s[i]))
      BY <3>2, <3>3, JoinLine
    <3>5. Entries(Append(t, s[i])) = Entries(t) \cup {s[i]}
      BY <3>2, EntriesAppend DEF Line
    <3>6. I \cap (1..i) = (I \cap (1..(i - 1))) \cup {i}
      BY <2>1, <2>3
    <3>7. {s[j] : j \in I \cap (1..i)} = {s[j] : j \in I \cap (1..(i - 1))} \cup {s[i]}
      BY <3>6
    <3> QED
      BY <3>1, <3>2, <3>4, <3>5, <3>7
  <2> QED
    BY <2>2, <2>3
<1> HIDE DEF Right
<1>14. T = {}
  <2> SUFFICES ASSUME T # {} PROVE FALSE
    OBVIOUS
  <2>1. T \subseteq Nat
    BY <1>2
  <2>2. PICK m \in T : \A k \in T : m <= k
    BY <2>1, LeastNumber
  <2>3. m # 0 /\ m \in 0..N
    BY <1>12, <2>2
  <2>4. m \in 1..N /\ m - 1 \in 0..N /\ m - 1 \notin T
    BY <1>2, <2>2, <2>3
  <2> QED
    BY <1>13, <2>2, <2>4
<1>15. Right(N) /\ I \cap (1..N) = I
  <2>1. I \cap (1..N) = I
    BY DEF N
  <2>2. N \in 0..N
    BY <1>2
  <2> QED
    BY <1>14, <2>1, <2>2
<1> QED
  BY <1>3, <1>15 DEF Right

----------------------------------------------------------------------------
(* Where computations are, and how they move.                              *)

Waiters(rows) == UNION {Names(rows[c].wait) : c \in 1..Len(rows)}

\* Nobody waits twice in a row or in two rows.
Separate(rows) ==
  /\ IsSeq(rows)
  /\ \A c \in 1..Len(rows) : Line(rows[c].wait)
  /\ \A c, d \in 1..Len(rows) :
       c # d => Names(rows[c].wait) \cap Names(rows[d].wait) = {}

\* What is runnable and what waits on the loop, the rows and the computation
\* inside the loop have nobody in common.
Apart(r, w, rows, k) ==
  /\ Line(r) /\ Line(w) /\ Separate(rows)
  /\ Names(r) \cap Names(w) = {}
  /\ Names(r) \cap Waiters(rows) = {}
  /\ Names(w) \cap Waiters(rows) = {}
  /\ k # Idle => k \notin Names(r) \cup Names(w) \cup Waiters(rows)

Crowd(r, w, rows, k) ==
  Names(r) \cup Names(w) \cup Waiters(rows) \cup (IF k = Idle THEN {} ELSE {k})

\* A row is put in the place of another.
LEMMA SetRow ==
  ASSUME NEW rows, Separate(rows), NEW c \in 1..Len(rows), NEW row, Line(row.wait),
         NEW after, after = Replaced(rows, c, row),
         Names(row.wait) \cap (Waiters(rows) \ Names(rows[c].wait)) = {}
  PROVE  /\ Separate(after)
         /\ Waiters(after) = (Waiters(rows) \ Names(rows[c].wait)) \cup Names(row.wait)
         /\ Names(rows[c].wait) \subseteq Waiters(rows)
<1> DEFINE Company(d) == Names(rows[d].wait)
<1>1. /\ IsSeq(after) /\ Len(after) = Len(rows) /\ after[c] = row
      /\ \A i \in 1..Len(rows) : i # c => after[i] = rows[i]
  BY ReplaceSeq DEF Separate
<1>2. \A d \in 1..Len(rows) : d # c => Company(d) \cap Company(c) = {}
  BY DEF Separate
<1>3. \A d \in 1..Len(rows) : Company(d) \subseteq Waiters(rows)
  BY DEF Waiters
<1>4. \A d \in 1..Len(rows) : d # c => Company(d) \cap Names(row.wait) = {}
  BY <1>2, <1>3
<1>5. \A d \in 1..Len(rows) : Names(after[d].wait) = IF d = c THEN Names(row.wait) ELSE Company(d)
  BY <1>1
<1>6. \A d \in 1..Len(rows) : Line(after[d].wait)
  BY <1>1 DEF Separate
<1>7. \A d, e \in 1..Len(rows) : d # e => Company(d) \cap Company(e) = {}
  BY DEF Separate
<1>8. Waiters(rows) = UNION {Company(d) : d \in 1..Len(rows)}
  BY DEF Waiters
<1>9. Waiters(after) = UNION {Names(after[d].wait) : d \in 1..Len(rows)}
  BY <1>1 DEF Waiters
<1> HIDE DEF Company
<1>10. ASSUME NEW d \in 1..Len(rows), NEW e \in 1..Len(rows), d # e
       PROVE  Names(after[d].wait) \cap Names(after[e].wait) = {}
  BY <1>4, <1>5, <1>7, <1>10
<1>11. Separate(after)
  BY <1>1, <1>6, <1>10 DEF Separate
<1>12. ASSUME NEW f
       PROVE  f \in Waiters(after) <=>
                f \in (Waiters(rows) \ Company(c)) \cup Names(row.wait)
  <2>1. f \in Waiters(after) <=> \E d \in 1..Len(rows) : f \in Names(after[d].wait)
    BY <1>9
  <2>2. f \in Waiters(rows) <=> \E d \in 1..Len(rows) : f \in Company(d)
    BY <1>8
  <2>3. (\E d \in 1..Len(rows) : f \in Names(after[d].wait))
          <=> f \in Names(row.wait) \/ \E d \in 1..Len(rows) : d # c /\ f \in Company(d)
    BY <1>5
  <2>4. (\E d \in 1..Len(rows) : d # c /\ f \in Company(d))
          <=> (\E d \in 1..Len(rows) : f \in Company(d)) /\ f \notin Company(c)
    BY <1>2
  <2> QED
    BY <2>1, <2>2, <2>3, <2>4
<1>13. Waiters(after) = (Waiters(rows) \ Company(c)) \cup Names(row.wait)
  BY <1>12
<1>14. Company(c) \subseteq Waiters(rows)
  BY <1>3
<1> QED
  BY <1>11, <1>13, <1>14 DEF Company

\* A row where nobody waits is added.
LEMMA AddRow ==
  ASSUME NEW rows, Separate(rows), NEW row, row.wait = <<>>
  PROVE  /\ Separate(Append(rows, row))
         /\ Waiters(Append(rows, row)) = Waiters(rows)
<1> DEFINE after == Append(rows, row)
           n == Len(rows) + 1
<1>1. /\ IsSeq(after) /\ Len(after) = n /\ Len(rows) \in Nat
      /\ \A i \in 1..Len(rows) : after[i] = rows[i]
      /\ after[n] = row
  BY AppendSeq, SeqFacts DEF Separate
<1> HIDE DEF after
<1>2. 1..n = (1..Len(rows)) \cup {n} /\ n \notin 1..Len(rows)
  BY <1>1
<1> HIDE DEF n
<1>3. Line(row.wait) /\ Names(row.wait) = {}
  BY EmptyLine
<1>4. Separate(after)
  BY <1>1, <1>2, <1>3 DEF Separate
<1>5. Waiters(after) = Waiters(rows)
  BY <1>1, <1>2, <1>3 DEF Waiters
<1> QED
  BY <1>4, <1>5 DEF after

\* comp.ts, io_park_on.  The computation in the loop waits on it instead.
LEMMA Parks ==
  ASSUME NEW r, NEW w, NEW rows, NEW k, Apart(r, w, rows, k), k # Idle,
         NEW x, x.fiber = k
  PROVE  /\ Apart(r, Append(w, x), rows, Idle)
         /\ Crowd(r, Append(w, x), rows, Idle) = Crowd(r, w, rows, k)
<1>1. Line(Append(w, x)) /\ Names(Append(w, x)) = Names(w) \cup {k}
  BY JoinLine DEF Apart
<1> QED
  BY <1>1 DEF Apart, Crowd

\* comp.ts, io_run.  Who is first among the runnable comes into the loop.
LEMMA Enters ==
  ASSUME NEW r, NEW w, NEW rows, Apart(r, w, rows, Idle), r # <<>>,
         r[1].fiber # Idle
  PROVE  /\ Apart(Tail(r), w, rows, r[1].fiber)
         /\ Crowd(Tail(r), w, rows, r[1].fiber) = Crowd(r, w, rows, Idle)
<1> DEFINE t == Tail(r)
           f == r[1].fiber
<1>1. Line(t) /\ f \in Names(r) /\ Names(t) = Names(r) \ {f}
  BY LeaveLine DEF Apart
<1>2. f # Idle
  OBVIOUS
<1> HIDE DEF t, f
<1>3. Apart(t, w, rows, f) /\ Crowd(t, w, rows, f) = Crowd(r, w, rows, Idle)
  BY <1>1, <1>2 DEF Apart, Crowd
<1> QED
  BY <1>3 DEF t, f

\* comp.ts, Emit.  It leaves for good.
LEMMA Leaves ==
  ASSUME NEW r, NEW w, NEW rows, NEW k, Apart(r, w, rows, k), k # Idle
  PROVE  /\ Apart(r, w, rows, Idle)
         /\ Crowd(r, w, rows, Idle) = Crowd(r, w, rows, k) \ {k}
         /\ k \in Crowd(r, w, rows, k)
  BY DEF Apart, Crowd

\* comp.ts, io_spawn.  Another one becomes runnable.
LEMMA Spawns ==
  ASSUME NEW r, NEW w, NEW rows, NEW k, Apart(r, w, rows, k),
         NEW x, x.fiber \notin Crowd(r, w, rows, k)
  PROVE  /\ Apart(Append(r, x), w, rows, k)
         /\ Crowd(Append(r, x), w, rows, k) = Crowd(r, w, rows, k) \cup {x.fiber}
<1>1. Line(Append(r, x)) /\ Names(Append(r, x)) = Names(r) \cup {x.fiber}
  BY JoinLine DEF Apart, Crowd
<1> QED
  BY <1>1 DEF Apart, Crowd

\* comp.ts, chan_wake.  The first waiter of a row becomes runnable.
LEMMA Wakes ==
  ASSUME NEW r, NEW w, NEW rows, NEW k, Apart(r, w, rows, k),
         NEW c \in 1..Len(rows), rows[c].wait # <<>>,
         NEW row, row.wait = Tail(rows[c].wait),
         NEW after, after = Replaced(rows, c, row),
         NEW x, x.fiber = rows[c].wait[1].fiber
  PROVE  /\ Apart(Append(r, x), w, after, k)
         /\ Crowd(Append(r, x), w, after, k) = Crowd(r, w, rows, k)
<1> DEFINE old == rows[c].wait
           f == x.fiber
           t == Append(r, x)
<1>1. Line(old) /\ Separate(rows)
  BY DEF Apart, Separate
<1>2. Line(row.wait) /\ f \in Names(old) /\ Names(row.wait) = Names(old) \ {f}
  BY <1>1, LeaveLine
<1>3. /\ Separate(after) /\ Names(old) \subseteq Waiters(rows)
      /\ Waiters(after) = (Waiters(rows) \ Names(old)) \cup Names(row.wait)
  <2>1. Names(row.wait) \cap (Waiters(rows) \ Names(old)) = {}
    BY <1>2
  <2> QED
    BY <1>1, <1>2, <2>1, SetRow
<1> HIDE DEF old
<1>4. Waiters(after) = Waiters(rows) \ {f} /\ f \in Waiters(rows)
  BY <1>2, <1>3
<1>5. f \notin Names(r) /\ f \notin Names(w) /\ (k # Idle => f # k)
  BY <1>4 DEF Apart
<1>6. Line(t) /\ Names(t) = Names(r) \cup {f}
  BY <1>5, JoinLine DEF Apart
<1> HIDE DEF t, f
<1>7. Apart(t, w, after, k) /\ Crowd(t, w, after, k) = Crowd(r, w, rows, k)
  BY <1>3, <1>4, <1>5, <1>6 DEF Apart, Crowd
<1> QED
  BY <1>7 DEF t

\* comp.ts, chan_send and chan_recv.  The computation in the loop joins a row.
LEMMA Queues ==
  ASSUME NEW r, NEW w, NEW rows, NEW k, Apart(r, w, rows, k), k # Idle,
         NEW c \in 1..Len(rows), NEW y, y.fiber = k,
         NEW row, row.wait = Append(rows[c].wait, y),
         NEW after, after = Replaced(rows, c, row)
  PROVE  /\ Apart(r, w, after, Idle)
         /\ Crowd(r, w, after, Idle) = Crowd(r, w, rows, k)
<1> DEFINE old == rows[c].wait
<1>1. Line(old) /\ Separate(rows) /\ Names(old) \subseteq Waiters(rows)
  BY DEF Apart, Separate, Waiters
<1>2. Line(row.wait) /\ Names(row.wait) = Names(old) \cup {k}
  BY <1>1, JoinLine DEF Apart
<1>3. /\ Separate(after)
      /\ Waiters(after) = (Waiters(rows) \ Names(old)) \cup Names(row.wait)
  <2>1. Names(row.wait) \cap (Waiters(rows) \ Names(old)) = {}
    BY <1>2 DEF Apart
  <2> QED
    BY <1>1, <1>2, <2>1, SetRow
<1> HIDE DEF old
<1>4. Waiters(after) = Waiters(rows) \cup {k}
  BY <1>1, <1>2, <1>3
<1> QED
  BY <1>3, <1>4 DEF Apart, Crowd

\* comp.ts, chan_shut.  All who wait in a row become runnable.
LEMMA Shuts ==
  ASSUME NEW r, NEW w, NEW rows, NEW k, Apart(r, w, rows, k),
         NEW c \in 1..Len(rows), NEW row, row.wait = <<>>,
         NEW after, after = Replaced(rows, c, row),
         NEW told, IsSeq(told), Len(told) = Len(rows[c].wait),
         \A i \in 1..Len(rows[c].wait) : told[i].fiber = rows[c].wait[i].fiber
  PROVE  /\ Apart(r \o told, w, after, k)
         /\ Crowd(r \o told, w, after, k) = Crowd(r, w, rows, k)
<1> DEFINE old == rows[c].wait
           t == r \o told
<1>1. Line(old) /\ Separate(rows) /\ Names(old) \subseteq Waiters(rows)
  BY DEF Apart, Separate, Waiters
<1>2. Line(row.wait) /\ Names(row.wait) = {}
  BY EmptyLine
<1>3. Separate(after) /\ Waiters(after) = Waiters(rows) \ Names(old)
  <2>1. Names(row.wait) \cap (Waiters(rows) \ Names(old)) = {}
    BY <1>2
  <2>2. /\ Separate(after)
        /\ Waiters(after) = (Waiters(rows) \ Names(old)) \cup Names(row.wait)
    BY <1>1, <1>2, <2>1, SetRow
  <2> QED
    BY <1>2, <2>2
<1>4. Line(told) /\ Names(told) = Names(old)
  BY <1>1, SameLine
<1> HIDE DEF old
<1>5. Line(t) /\ Names(t) = Names(r) \cup Names(old)
  <2>1. Names(r) \cap Names(told) = {}
    BY <1>1, <1>4 DEF Apart
  <2> QED
    BY <1>4, <2>1, JoinLines DEF Apart
<1> HIDE DEF t
<1>6. Apart(t, w, after, k) /\ Crowd(t, w, after, k) = Crowd(r, w, rows, k)
  BY <1>1, <1>3, <1>5 DEF Apart, Crowd
<1> QED
  BY <1>6 DEF t

\* A row changes and who waits in it stays.
LEMMA Keeps ==
  ASSUME NEW r, NEW w, NEW rows, NEW k, Apart(r, w, rows, k),
         NEW c \in 1..Len(rows), NEW row, row.wait = rows[c].wait,
         NEW after, after = Replaced(rows, c, row)
  PROVE  /\ Apart(r, w, after, k)
         /\ Crowd(r, w, after, k) = Crowd(r, w, rows, k)
<1>1. Line(row.wait) /\ Separate(rows)
  BY DEF Apart, Separate
<1>2. Separate(after) /\ Waiters(after) = Waiters(rows)
  <2>1. Names(row.wait) \cap (Waiters(rows) \ Names(rows[c].wait)) = {}
    OBVIOUS
  <2>2. /\ Separate(after)
        /\ Waiters(after) = (Waiters(rows) \ Names(rows[c].wait)) \cup Names(row.wait)
        /\ Names(rows[c].wait) \subseteq Waiters(rows)
    BY <1>1, <2>1, SetRow
  <2> QED
    BY <2>2
<1> QED
  BY <1>2 DEF Apart, Crowd

\* comp.ts, io_wait.  Who is due becomes runnable, the others wait on.
LEMMA Polls ==
  ASSUME NEW r, r = <<>>, NEW w, NEW rows, NEW k, Apart(r, w, rows, k),
         NEW I, I \subseteq 1..Len(w),
         NEW t, IsSeq(t), Len(t) = Len(Picked(w, I)),
         \A i \in 1..Len(Picked(w, I)) : t[i].fiber = Picked(w, I)[i].fiber
  PROVE  /\ Apart(t, Picked(w, (1..Len(w)) \ I), rows, k)
         /\ Crowd(t, Picked(w, (1..Len(w)) \ I), rows, k) = Crowd(r, w, rows, k)
<1> DEFINE J == (1..Len(w)) \ I
           fired == Picked(w, I)
           rests == Picked(w, J)
<1>0. \A s : Names(s) = {x.fiber : x \in Entries(s)}
  BY DEF Names, Entries
<1>1. Line(fired) /\ Entries(fired) = {w[i] : i \in I}
  BY PickedLine DEF Apart
<1>2. Line(rests) /\ Entries(rests) = {w[i] : i \in J}
  <2>1. J \subseteq 1..Len(w)
    OBVIOUS
  <2> QED
    BY <2>1, PickedLine DEF Apart
<1> HIDE DEF fired, rests
<1>3. Names(fired) = {w[i].fiber : i \in I} /\ Names(rests) = {w[i].fiber : i \in J}
  <2>1. \A K : {x.fiber : x \in {w[i] : i \in K}} = {w[i].fiber : i \in K}
    OBVIOUS
  <2>2. Names(fired) = {x.fiber : x \in {w[i] : i \in I}}
    BY <1>0, <1>1
  <2> HIDE DEF J
  <2>3. Names(rests) = {x.fiber : x \in {w[i] : i \in J}}
    BY <1>0, <1>2
  <2> QED
    BY <2>1, <2>2, <2>3
<1>4. Names(fired) \cap Names(rests) = {} /\ Names(fired) \cup Names(rests) = Names(w)
  <2>1. \A i \in I : \A j \in J : w[i].fiber # w[j].fiber
    BY DEF Apart, Line
  <2>2. \A i \in 1..Len(w) : i \in I \/ i \in J
    OBVIOUS
  <2>3. Names(fired) \cap Names(rests) = {}
    BY <1>3, <2>1
  <2>4. Names(w) = {w[i].fiber : i \in 1..Len(w)}
    BY DEF Names
  <2>5. Names(w) \subseteq Names(fired) \cup Names(rests)
    BY <1>3, <2>2, <2>4
  <2>6. \A i \in J : i \in 1..Len(w)
    OBVIOUS
  <2>7. Names(fired) \subseteq Names(w) /\ Names(rests) \subseteq Names(w)
    BY <1>3, <2>4, <2>6
  <2> QED
    BY <2>3, <2>5, <2>7
<1>5. Line(t) /\ Names(t) = Names(fired)
  BY <1>1, SameLine DEF fired
<1>6. Names(r) = {}
  BY EmptyLine
<1>7. Apart(t, rests, rows, k) /\ Crowd(t, rests, rows, k) = Crowd(r, w, rows, k)
  BY <1>2, <1>4, <1>5, <1>6 DEF Apart, Crowd
<1> QED
  BY <1>7 DEF rests

----------------------------------------------------------------------------
(* Where everybody is, step by step.                                       *)

Held == Apart(runs, waits, chans, cur)
Here == Crowd(runs, waits, chans, cur)

\* Every computation that has not emitted is in one place, and live counts them.
PInv ==
  /\ FInv /\ Held
  /\ IsSeq(left) /\ Here \subseteq Born
  /\ live = Cardinality(Here)

\* A step after which the same computations are somewhere.
Stays == Held' /\ Here' = Here

\* Rows as FInv knows them.
LEMMA RowAt ==
  ASSUME FInv, NEW c \in DOMAIN chans
  PROVE  RowOk(chans[c]) /\ c \in 1..Len(chans)
  BY SeqFacts DEF FInv

\* Who waits in a row after an operation on it.
LEMMA RowWaits ==
  ASSUME NEW row, RowOk(row)
  PROVE  /\ Wake(row).wait = Tail(row.wait)
         /\ row.wait = <<>> => TakeRow(row).wait = row.wait
         /\ row.wait # <<>> => TakeRow(row).wait = Tail(row.wait)
         /\ ShutRow(row).wait = <<>>
         /\ \A v : [row EXCEPT !.ring = Append(@, v)].wait = row.wait
         /\ \A y : [row EXCEPT !.wait = Append(@, y)].wait = Append(row.wait, y)
<1>1. RowLike(row)
  BY DEF RowOk
<1>2. \A x : /\ [row EXCEPT !.ring = x].wait = row.wait
             /\ [row EXCEPT !.wait = x].wait = x
  BY <1>1, RowEdits DEF RowOf
<1>3. \A v : [row EXCEPT !.ring = Append(@, v)].wait = row.wait
  BY <1>2
<1>4. \A y : [row EXCEPT !.wait = Append(@, y)].wait = Append(row.wait, y)
  BY <1>2
<1>5. Wake(row).wait = Tail(row.wait)
  BY <1>2 DEF Wake
<1>6. ShutRow(row).wait = <<>>
  <2>1. ShutRow(row) = RowOf(row.room, row.ring, <<>>, TRUE)
    BY <1>1, RowEdits DEF ShutRow
  <2> QED
    BY <2>1 DEF RowOf
<1>7. row.wait = <<>> => TakeRow(row).wait = row.wait
  BY <1>2 DEF TakeRow
<1>8. ASSUME row.wait # <<>> PROVE TakeRow(row).wait = Tail(row.wait)
  <2> DEFINE woken == Wake(row)
             x == Append(Tail(woken.ring), First(row).item)
  <2>1. RowLike(woken)
    BY <1>8, WakeOk DEF RowOk
  <2>2. TakeRow(row) = [woken EXCEPT !.ring = x]
    BY <1>8 DEF TakeRow
  <2> HIDE DEF woken, x
  <2>3. [woken EXCEPT !.ring = x] = RowOf(woken.room, x, woken.wait, woken.shut)
    BY <2>1, RowEdits
  <2>4. TakeRow(row).wait = woken.wait
    BY <2>2, <2>3 DEF RowOf
  <2> QED
    BY <1>5, <2>4 DEF woken
<1> QED
  BY <1>3, <1>4, <1>5, <1>6, <1>7, <1>8

\* The invariant after a step, in terms of the new state.
LEMMA Primed ==
  /\ Held' <=> Apart(runs', waits', chans', cur')
  /\ Here' = Crowd(runs', waits', chans', cur')
  BY DEF Held, Here, Apart, Crowd, Line, Names, Waiters, Separate, IsSeq

\* comp.ts, chan_send.
LEMMA SendStays ==
  ASSUME PInv, cur # Idle, NEW c \in DOMAIN chans, ChanSend(cur, c), waits' = waits
  PROVE  Stays
<1> DEFINE row == chans[c]
           v == <<cur, left[cur]>>
<1>1. RowOk(row) /\ c \in 1..Len(chans)
  BY RowAt DEF PInv
<1>2. Apart(runs, waits, chans, cur)
  BY DEF PInv, Held
<1>3. CASE chans' = chans /\ runs' = runs /\ cur' = cur
  BY <1>2, <1>3, Primed DEF Stays, Here
<1>4. CASE /\ ReceiverWaits(row) /\ Row(c, Wake(row))
           /\ runs' = Woken(row, Some(v)) /\ cur' = cur
  <2> DEFINE x == Ready(First(row).fiber, Some(v))
             next == Wake(row)
  <2>1. runs' = Append(runs, x) /\ x.fiber = row.wait[1].fiber /\ row.wait # <<>>
    BY <1>4 DEF Woken, Ready, First, ReceiverWaits
  <2>2. chans' = Replaced(chans, c, next) /\ next.wait = Tail(row.wait)
    BY <1>1, <1>4, RowWaits DEF Row, Replaced
  <2> HIDE DEF x, next
  <2>3. /\ Apart(runs', waits, chans', cur)
        /\ Crowd(runs', waits, chans', cur) = Crowd(runs, waits, chans, cur)
    BY <1>1, <1>2, <2>1, <2>2, Wakes
  <2> QED
    BY <1>4, <2>3, Primed DEF Stays, Here
<1>5. CASE /\ Row(c, [row EXCEPT !.ring = Append(@, v)])
           /\ runs' = runs /\ cur' = cur
  <2> DEFINE next == [row EXCEPT !.ring = Append(@, v)]
  <2>1. chans' = Replaced(chans, c, next) /\ next.wait = row.wait
    BY <1>1, <1>5, RowWaits DEF Row, Replaced
  <2> HIDE DEF next
  <2>2. /\ Apart(runs, waits, chans', cur)
        /\ Crowd(runs, waits, chans', cur) = Crowd(runs, waits, chans, cur)
    BY <1>1, <1>2, <2>1, Keeps
  <2> QED
    BY <1>5, <2>2, Primed DEF Stays, Here
<1>6. CASE /\ Row(c, [row EXCEPT !.wait = Append(@, Waiter(cur, v))])
           /\ runs' = runs /\ cur' = Idle
  <2> DEFINE y == Waiter(cur, v)
             next == [row EXCEPT !.wait = Append(@, y)]
  <2>1. y.fiber = cur
    BY DEF Waiter
  <2>2. chans' = Replaced(chans, c, next) /\ next.wait = Append(row.wait, y)
    BY <1>1, <1>6, RowWaits DEF Row, Replaced
  <2> HIDE DEF next, y
  <2>3. /\ Apart(runs, waits, chans', Idle)
        /\ Crowd(runs, waits, chans', Idle) = Crowd(runs, waits, chans, cur)
    BY <1>1, <1>2, <2>1, <2>2, Queues
  <2> QED
    BY <1>6, <2>3, Primed DEF Stays, Here
<1> QED
  BY <1>3, <1>4, <1>5, <1>6 DEF ChanSend

\* comp.ts, chan_recv.
LEMMA RecvStays ==
  ASSUME PInv, cur # Idle, NEW c \in DOMAIN chans, ChanRecv(cur, c), waits' = waits
  PROVE  Stays
<1> DEFINE row == chans[c]
<1>1. RowOk(row) /\ c \in 1..Len(chans)
  BY RowAt DEF PInv
<1>2. Apart(runs, waits, chans, cur)
  BY DEF PInv, Held
<1>3. CASE chans' = chans /\ runs' = runs /\ cur' = cur
  BY <1>2, <1>3, Primed DEF Stays, Here
<1>4. ASSUME NEW next, next.wait = Tail(row.wait), Row(c, next), row.wait # <<>>,
             runs' = Woken(row, Told(TRUE)), cur' = cur
      PROVE  Stays
  <2> DEFINE x == Ready(First(row).fiber, Told(TRUE))
  <2>1. runs' = Append(runs, x) /\ x.fiber = row.wait[1].fiber /\ row.wait # <<>>
    BY <1>4 DEF Woken, Ready, First
  <2>2. chans' = Replaced(chans, c, next) /\ next.wait = Tail(row.wait)
    BY <1>4 DEF Row, Replaced
  <2> HIDE DEF x
  <2>3. /\ Apart(runs', waits, chans', cur)
        /\ Crowd(runs', waits, chans', cur) = Crowd(runs, waits, chans, cur)
    BY <1>1, <1>2, <2>1, <2>2, Wakes
  <2> QED
    BY <1>4, <2>3, Primed DEF Stays, Here
<1>5. CASE /\ row.wait = <<>> /\ Row(c, TakeRow(row))
           /\ runs' = runs /\ cur' = cur
  <2> DEFINE next == TakeRow(row)
  <2>1. chans' = Replaced(chans, c, next) /\ next.wait = row.wait
    BY <1>1, <1>5, RowWaits DEF Row, Replaced
  <2> HIDE DEF next
  <2>2. /\ Apart(runs, waits, chans', cur)
        /\ Crowd(runs, waits, chans', cur) = Crowd(runs, waits, chans, cur)
    BY <1>1, <1>2, <2>1, Keeps
  <2> QED
    BY <1>5, <2>2, Primed DEF Stays, Here
<1>6. CASE /\ Row(c, [row EXCEPT !.wait = Append(@, Waiter(cur, NoValue))])
           /\ runs' = runs /\ cur' = Idle
  <2> DEFINE y == Waiter(cur, NoValue)
             next == [row EXCEPT !.wait = Append(@, y)]
  <2>1. y.fiber = cur
    BY DEF Waiter
  <2>2. chans' = Replaced(chans, c, next) /\ next.wait = Append(row.wait, y)
    BY <1>1, <1>6, RowWaits DEF Row, Replaced
  <2> HIDE DEF next, y
  <2>3. /\ Apart(runs, waits, chans', Idle)
        /\ Crowd(runs, waits, chans', Idle) = Crowd(runs, waits, chans, cur)
    BY <1>1, <1>2, <2>1, <2>2, Queues
  <2> QED
    BY <1>6, <2>3, Primed DEF Stays, Here
<1>7. CASE row.ring # <<>> /\ Row(c, TakeRow(row)) /\ runs' = TakeRuns(row) /\ cur' = cur
  <2>1. CASE row.wait = <<>>
    BY <1>5, <1>7, <2>1 DEF TakeRuns
  <2>2. CASE row.wait # <<>>
    BY <1>1, <1>4, <1>7, <2>2, RowWaits DEF TakeRuns
  <2> QED
    BY <2>1, <2>2
<1>8. CASE SenderWaits(row) /\ Row(c, Wake(row)) /\ runs' = Woken(row, Told(TRUE)) /\ cur' = cur
  BY <1>1, <1>4, <1>8, RowWaits DEF SenderWaits
<1> QED
  BY <1>3, <1>6, <1>7, <1>8 DEF ChanRecv, Answer, Leave

\* comp.ts, chan_close.
LEMMA CloseStays ==
  ASSUME PInv, cur # Idle, NEW c \in DOMAIN chans, ChanClose(cur, c), waits' = waits
  PROVE  Stays
<1> DEFINE row == chans[c]
           told == [i \in DOMAIN row.wait |->
                      Ready(row.wait[i].fiber,
                            IF row.wait[i].item = NoValue THEN None ELSE Told(FALSE))]
<1>1. RowOk(row) /\ c \in 1..Len(chans)
  BY RowAt DEF PInv
<1>2. Apart(runs, waits, chans, cur)
  BY DEF PInv, Held
<1>3. CASE chans' = chans /\ runs' = runs /\ cur' = cur
  BY <1>2, <1>3, Primed DEF Stays, Here
<1>4. CASE Row(c, ShutRow(row)) /\ runs' = ShutRuns(row) /\ cur' = cur
  <2> DEFINE next == ShutRow(row)
  <2>1. chans' = Replaced(chans, c, next) /\ next.wait = <<>>
    BY <1>1, <1>4, RowWaits DEF Row, Replaced
  <2>2. runs' = runs \o told
    BY <1>4 DEF ShutRuns
  <2>3. DOMAIN row.wait = 1..Len(row.wait)
    BY <1>1, SeqFacts DEF RowOk, RowLike
  <2>4. /\ told = [i \in 1..Len(row.wait) |-> told[i]]
        /\ \A i \in 1..Len(row.wait) : told[i].fiber = row.wait[i].fiber
    BY <2>3 DEF Ready
  <2> HIDE DEF next, told
  <2>6. Len(row.wait) \in Nat
    BY <1>1, SeqFacts DEF RowOk, RowLike
  <2>7. IsSeq(told) /\ Len(told) = Len(row.wait)
    BY <2>4, <2>6, ListIsSeq
  <2>8. \A i \in 1..Len(row.wait) : told[i].fiber = row.wait[i].fiber
    BY <2>4
  <2>5. /\ Apart(runs \o told, waits, chans', cur)
        /\ Crowd(runs \o told, waits, chans', cur) = Crowd(runs, waits, chans, cur)
    BY <1>1, <1>2, <2>1, <2>7, <2>8, Shuts
  <2> QED
    BY <1>4, <2>2, <2>5, Primed DEF Stays, Here
<1> QED
  BY <1>3, <1>4 DEF ChanClose, Answer

\* comp.ts, chan_new.
LEMMA NewStays ==
  ASSUME PInv, cur # Idle, ChanNew(cur), waits' = waits
  PROVE  Stays
<1>1. PICK room \in Rooms : chans' = Append(chans, NewRow(room))
  BY DEF ChanNew
<1>2. NewRow(room).wait = <<>>
  BY DEF NewRow
<1>3. Separate(chans') /\ Waiters(chans') = Waiters(chans)
  BY <1>1, <1>2, AddRow DEF PInv, Held, Apart
<1>4. runs' = runs /\ cur' = cur
  BY DEF ChanNew, Answer
<1> QED
  BY <1>3, <1>4, Primed DEF PInv, Stays, Held, Here, Apart, Crowd

\* comp.ts, io_run and the effects that park.  An attempt ends in the loop or
\* among those that wait on it.
LEMMA AttemptShape ==
  ASSUME NEW f, NEW op, Attempt(f, op)
  PROVE  \/ cur' = f /\ waits' = waits
         \/ \E x : x.fiber = f /\ waits' = Append(waits, x) /\ cur' = Idle
<1>1. ASSUME NEW fd, NEW o, Park(OnFd(f, fd, o))
      PROVE  \E x : x.fiber = f /\ waits' = Append(waits, x) /\ cur' = Idle
  <2>1. OnFd(f, fd, o).fiber = f
    BY DEF OnFd
  <2> QED
    BY <1>1, <2>1 DEF Park, Leave
<1>2. \A x : Answer(f, x) => cur' = f
  BY DEF Answer
<1>3. AttemptRecv(f, op) \/ AttemptRecvFrom(f, op) \/ AttemptAccept(f, op)
        \/ AttemptSend(f, op) \/ AttemptSendTo(f, op) \/ AttemptSleep(f) \/ EndConnect(f, op)
  BY DEF Attempt
<1>4. CASE AttemptRecv(f, op)
  BY <1>1, <1>2, <1>4 DEF AttemptRecv
<1>5. CASE AttemptRecvFrom(f, op)
  BY <1>1, <1>2, <1>5 DEF AttemptRecvFrom
<1>6. CASE AttemptAccept(f, op)
  BY <1>1, <1>2, <1>6 DEF AttemptAccept
<1>7. CASE AttemptSend(f, op)
  BY <1>1, <1>2, <1>7 DEF AttemptSend
<1>8. CASE AttemptSendTo(f, op)
  BY <1>1, <1>2, <1>8 DEF AttemptSendTo
<1>9. CASE AttemptSleep(f)
  BY <1>2, <1>9 DEF AttemptSleep
<1>10. CASE EndConnect(f, op)
  BY <1>2, <1>10 DEF EndConnect
<1> QED
  BY <1>3, <1>4, <1>5, <1>6, <1>7, <1>8, <1>9, <1>10

\* So whoever attempts it stays somewhere.
LEMMA AttemptStays ==
  ASSUME NEW r, NEW f, f # Idle, Apart(r, waits, chans, f), NEW op, Attempt(f, op),
         runs' = r, chans' = chans
  PROVE  Held' /\ Here' = Crowd(r, waits, chans, f)
<1>1. CASE cur' = f /\ waits' = waits
  BY <1>1, Primed
<1>2. CASE \E x : x.fiber = f /\ waits' = Append(waits, x) /\ cur' = Idle
  <2>1. PICK x : x.fiber = f /\ waits' = Append(waits, x) /\ cur' = Idle
    BY <1>2
  <2>2. /\ Apart(r, Append(waits, x), chans, Idle)
        /\ Crowd(r, Append(waits, x), chans, Idle) = Crowd(r, waits, chans, f)
    BY <2>1, Parks
  <2> QED
    BY <2>1, <2>2, Primed
<1> QED
  BY <1>1, <1>2, AttemptShape

\* A computation that parks at once.
LEMMA ParkStays ==
  ASSUME PInv, cur # Idle, NEW x, x.fiber = cur, Park(x), runs' = runs, chans' = chans
  PROVE  Stays
<1>1. waits' = Append(waits, x) /\ cur' = Idle
  BY DEF Park, Leave
<1>2. /\ Apart(runs, Append(waits, x), chans, Idle)
      /\ Crowd(runs, Append(waits, x), chans, Idle) = Crowd(runs, waits, chans, cur)
  BY Parks DEF PInv, Held
<1> QED
  BY <1>1, <1>2, Primed DEF Stays, Here

\* A computation that is answered at once.
LEMMA AnswerStays ==
  ASSUME PInv, cur' = cur, runs' = runs, waits' = waits, chans' = chans
  PROVE  Stays
  BY Primed DEF PInv, Held, Here, Stays

\* comp.ts, io_run.  An effect moves the computation that asks it, or one that
\* it wakes, and nobody is lost; only a spawn adds one.
LEMMA EffectStays ==
  ASSUME PInv, Effect, ~Spawn(cur)
  PROVE  Stays /\ live' = live /\ left' = [left EXCEPT ![cur] = @ - 1]
<1>1. cur # Idle
  BY DEF Effect
<1>2. CASE ChanEffect(cur)
  <2>1. /\ waits' = waits /\ live' = live /\ left' = [left EXCEPT ![cur] = @ - 1]
        /\ \/ ChanNew(cur)
           \/ \E c \in DOMAIN chans : \/ ChanSend(cur, c) \/ ChanRecv(cur, c)
                                      \/ ChanClose(cur, c)
    BY <1>2 DEF ChanEffect
  <2> QED
    BY <1>1, <2>1, NewStays, SendStays, RecvStays, CloseStays
<1>3. CASE Sleep(cur)
  <2>1. PICK ms \in Delays : Park(Timer(cur, clock + ms, [eff |-> "sleep"]))
    BY <1>3 DEF Sleep
  <2>2. Timer(cur, clock + ms, [eff |-> "sleep"]).fiber = cur
    BY DEF Timer
  <2> QED
    BY <1>1, <1>3, <2>1, <2>2, ParkStays DEF Sleep
<1>4. CASE ReadEffect(cur)
  <2>1. PICK fd \in owns[cur], eff \in {"accept", "recv", "recvfrom"} :
          Park(OnFd(cur, fd, [eff |-> eff, fd |-> fd]))
    BY <1>4 DEF ReadEffect
  <2>2. OnFd(cur, fd, [eff |-> eff, fd |-> fd]).fiber = cur
    BY DEF OnFd
  <2> QED
    BY <1>1, <1>4, <2>1, <2>2, ParkStays DEF ReadEffect
<1>5. CASE WriteEffect(cur)
  <2>1. PICK op : Attempt(cur, op)
    BY <1>5 DEF WriteEffect
  <2>2. runs' = runs /\ chans' = chans
    BY <1>5 DEF WriteEffect
  <2>3. Apart(runs, waits, chans, cur)
    BY DEF PInv, Held
  <2>4. Held' /\ Here' = Crowd(runs, waits, chans, cur)
    BY <1>1, <2>1, <2>2, <2>3, AttemptStays
  <2> QED
    BY <1>5, <2>4 DEF WriteEffect, Stays, Here
<1>6. CASE Connect(cur)
  <2>1. /\ runs' = runs /\ chans' = chans /\ live' = live
        /\ left' = [left EXCEPT ![cur] = @ - 1]
        /\ \/ cur' = cur /\ waits' = waits
           \/ \E fd : Park(OnFd(cur, fd, [eff |-> "connect", fd |-> fd]))
    BY <1>6 DEF Connect, Answer
  <2>2. \A fd : OnFd(cur, fd, [eff |-> "connect", fd |-> fd]).fiber = cur
    BY DEF OnFd
  <2> QED
    BY <1>1, <2>1, <2>2, ParkStays, AnswerStays
<1>7. CASE Open(cur) \/ Close(cur) \/ Immediate(cur)
  <2>1. /\ runs' = runs /\ chans' = chans /\ live' = live /\ cur' = cur /\ waits' = waits
        /\ left' = [left EXCEPT ![cur] = @ - 1]
    BY <1>7 DEF Open, Close, Immediate, Answer
  <2> QED
    BY <2>1, AnswerStays
<1> QED
  BY <1>2, <1>3, <1>4, <1>5, <1>6, <1>7 DEF Effect

\* comp.ts, io_run.  The loop moves who is next.
LEMMA RunStays ==
  ASSUME PInv, Run
  PROVE  Stays /\ live' = live /\ left' = left
<1> DEFINE s == runs[1]
<1>1. /\ cur = Idle /\ runs # <<>> /\ runs' = Tail(runs) /\ chans' = chans
      /\ live' = live /\ left' = left
  BY DEF Run
<1>2. Head(runs) = s
  <2>1. PICK S : runs \in Seq(S)
    BY DEF PInv, Held, Apart, Line, IsSeq
  <2> QED
    BY <1>1, <2>1
<1>3. s.fiber # Idle
  <2>1. s.fiber \in Names(runs)
    BY <1>1, LeaveLine DEF PInv, Held, Apart
  <2>2. s.fiber \in Born
    BY <2>1 DEF PInv, Here, Crowd
  <2>3. Len(left) \in Nat
    BY SeqFacts DEF PInv
  <2> QED
    BY <2>2, <2>3 DEF Born, Idle
<1>4. /\ Apart(Tail(runs), waits, chans, s.fiber)
      /\ Crowd(Tail(runs), waits, chans, s.fiber) = Here
  BY <1>1, <1>3, Enters DEF PInv, Held, Here
<1>5. CASE Answer(s.fiber, s.x) /\ waits' = waits
  <2>1. cur' = s.fiber
    BY <1>5 DEF Answer
  <2> QED
    BY <1>1, <1>4, <1>5, <2>1, Primed DEF Stays
<1>6. CASE Attempt(s.fiber, s.op)
  <2>1. Held' /\ Here' = Crowd(Tail(runs), waits, chans, s.fiber)
    BY <1>1, <1>3, <1>4, <1>6, AttemptStays
  <2> QED
    BY <1>1, <1>4, <2>1 DEF Stays
<1> QED
  BY <1>2, <1>5, <1>6 DEF Run

\* comp.ts, io_wait.  Polling takes some of the waiters and leaves the others.
LEMMA PollPicks ==
  ASSUME Poll
  PROVE  \E I \in SUBSET (DOMAIN waits) :
           /\ runs' = [i \in DOMAIN Picked(waits, I) |-> Retry(Picked(waits, I)[i])]
           /\ waits' = Picked(waits, (DOMAIN waits) \ I)
<1>1. PICK ready \in SUBSET {waits[i].fd : i \in DOMAIN waits} :
        LET fires == {i \in DOMAIN waits : \/ waits[i].fd # Idle /\ waits[i].fd \in ready
                                           \/ waits[i].at <= clock}
        IN  /\ runs' = [i \in DOMAIN Picked(waits, fires) |-> Retry(Picked(waits, fires)[i])]
            /\ waits' = Picked(waits, (DOMAIN waits) \ fires)
  BY DEF Poll
<1> DEFINE fires == {i \in DOMAIN waits : \/ waits[i].fd # Idle /\ waits[i].fd \in ready
                                          \/ waits[i].at <= clock}
<1>2. fires \in SUBSET (DOMAIN waits)
  OBVIOUS
<1> QED
  BY <1>1, <1>2

\* comp.ts, io_wait.  Polling moves waiters to the runnable.
LEMMA PollStays ==
  ASSUME PInv, Poll
  PROVE  Stays /\ live' = live /\ left' = left
<1>1. /\ runs = <<>> /\ chans' = chans /\ live' = live /\ left' = left /\ cur' = cur
  BY DEF Poll
<1>2. IsSeq(waits) /\ DOMAIN waits = 1..Len(waits)
  BY SeqFacts DEF PInv, Held, Apart, Line
<1>3. PICK I \in SUBSET (DOMAIN waits) :
        /\ runs' = [i \in DOMAIN Picked(waits, I) |-> Retry(Picked(waits, I)[i])]
        /\ waits' = Picked(waits, (DOMAIN waits) \ I)
  BY PollPicks
<1> DEFINE fired == Picked(waits, I)
           t == [i \in 1..Len(fired) |-> Retry(fired[i])]
<1>4. Line(fired)
  BY <1>2, PickedLine DEF PInv, Held, Apart
<1>5. DOMAIN fired = 1..Len(fired) /\ Len(fired) \in Nat
  BY <1>4, SeqFacts DEF Line
<1>6. runs' = t
  BY <1>3, <1>5
<1>7. IsSeq(t) /\ Len(t) = Len(fired)
  <2>1. t = [i \in 1..Len(fired) |-> t[i]]
    OBVIOUS
  <2> HIDE DEF t
  <2> QED
    BY <1>5, <2>1, ListIsSeq
<1>8. \A i \in 1..Len(fired) : t[i].fiber = fired[i].fiber
  BY DEF Retry
<1> HIDE DEF t, fired
<1>9. /\ Apart(t, Picked(waits, (1..Len(waits)) \ I), chans, cur)
      /\ Crowd(t, Picked(waits, (1..Len(waits)) \ I), chans, cur) = Here
  BY <1>1, <1>2, <1>7, <1>8, Polls DEF PInv, Held, Here, fired
<1> QED
  BY <1>1, <1>2, <1>3, <1>6, <1>9, Primed DEF Stays

\* The invariant of the next state.
LEMMA PlacesPrimed ==
  PInv' <=> /\ FInv' /\ Held' /\ IsSeq(left') /\ Here' \subseteq 1..Len(left')
            /\ live' = Cardinality(Here')
  BY DEF PInv, Born, IsSeq

\* A finite number of computations is somewhere.
LEMMA HereFinite ==
  ASSUME PInv
  PROVE  IsFiniteSet(Here) /\ Cardinality(Here) \in Nat /\ Len(left) \in Nat
<1>1. Len(left) \in Nat
  BY SeqFacts DEF PInv
<1>2. IsFiniteSet(1..Len(left))
  BY <1>1, FS_Interval
<1>3. Here \subseteq 1..Len(left)
  BY DEF PInv, Born
<1> QED
  BY <1>1, <1>2, <1>3, FS_Subset, FS_CardinalityType

\* No other step than a spawn adds a computation.
LEMMA LeftStays ==
  ASSUME PInv, left' = left \/ (cur # Idle /\ left' = [left EXCEPT ![cur] = @ - 1])
  PROVE  IsSeq(left') /\ Len(left') = Len(left)
<1>1. CASE left' = left
  BY <1>1 DEF PInv
<1>2. CASE cur # Idle /\ left' = [left EXCEPT ![cur] = @ - 1]
  <2>1. cur \in 1..Len(left)
    BY <1>2 DEF PInv, Here, Crowd, Born
  <2>2. left' = Replaced(left, cur, left[cur] - 1)
    BY <1>2 DEF Replaced
  <2> QED
    BY <2>1, <2>2, ReplaceSeq DEF PInv
<1> QED
  BY <1>1, <1>2

\* Who stays somewhere is counted as before.
LEMMA CountStays ==
  ASSUME PInv, FInv', Stays, live' = live,
         left' = left \/ (cur # Idle /\ left' = [left EXCEPT ![cur] = @ - 1])
  PROVE  PInv'
<1>1. IsSeq(left') /\ Len(left') = Len(left)
  BY LeftStays
<1>2. Here' \subseteq 1..Len(left') /\ live' = Cardinality(Here')
  BY <1>1 DEF PInv, Born, Stays
<1> QED
  BY <1>1, <1>2, PlacesPrimed DEF Stays

\* comp.ts, io_spawn.  A computation that nobody knew is counted.
LEMMA SpawnCounts ==
  ASSUME PInv, FInv', cur # Idle, Spawn(cur)
  PROVE  PInv'
<1> DEFINE n == Len(left) + 1
           x == Ready(n, Unit)
           fewer == [left EXCEPT ![cur] = @ - 1]
<1>1. /\ runs' = Append(runs, x) /\ waits' = waits /\ chans' = chans /\ cur' = cur
      /\ live' = live + 1 /\ left' = Append(fewer, Asks)
  BY DEF Spawn
<1>2. x.fiber = n
  BY DEF Ready
<1>3. Len(left) \in Nat /\ IsFiniteSet(Here) /\ Here \subseteq 1..Len(left)
  BY HereFinite DEF PInv, Born
<1>4. n \notin Here
  BY <1>3
<1> HIDE DEF x
<1>5. /\ Apart(Append(runs, x), waits, chans, cur)
      /\ Crowd(Append(runs, x), waits, chans, cur) = Here \cup {n}
  BY <1>2, <1>4, Spawns DEF PInv, Held, Here
<1>6. IsSeq(fewer) /\ Len(fewer) = Len(left)
  <2>1. cur \in 1..Len(left)
    BY DEF PInv, Here, Crowd, Born
  <2>2. fewer = Replaced(left, cur, left[cur] - 1)
    BY DEF Replaced
  <2> HIDE DEF fewer
  <2> QED
    BY <2>1, <2>2, ReplaceSeq DEF PInv
<1> HIDE DEF fewer
<1>7. IsSeq(left') /\ Len(left') = n
  BY <1>1, <1>6, AppendSeq
<1>8. Held' /\ Here' = Here \cup {n}
  BY <1>1, <1>5, Primed
<1>9. Cardinality(Here') = Cardinality(Here) + 1
  BY <1>3, <1>4, <1>8, FS_AddElement
<1>10. Here' \subseteq 1..Len(left')
  <2>1. n = Len(left) + 1 /\ Len(left) \in Nat /\ Here \subseteq 1..Len(left)
    BY SeqFacts DEF PInv, Born
  <2>2. \A i \in 1..Len(left) : i \in 1..n
    BY <2>1
  <2>3. n \in 1..n
    BY <2>1
  <2>4. Len(left') = n
    BY <1>7
  <2> HIDE DEF n
  <2>5. Here \cup {n} \subseteq 1..n
    BY <2>1, <2>2, <2>3
  <2> QED
    BY <1>8, <2>4, <2>5
<1>11. live' = Cardinality(Here')
  BY <1>1, <1>9 DEF PInv
<1> QED
  BY <1>7, <1>8, <1>10, <1>11, PlacesPrimed

\* comp.ts, io_run at Emit.  One that is over is counted no more.
LEMMA EmitCounts ==
  ASSUME PInv, FInv', Emit
  PROVE  PInv'
<1>1. /\ cur # Idle /\ runs' = runs /\ waits' = waits /\ chans' = chans /\ cur' = Idle
      /\ live' = live - 1 /\ left' = left
  BY DEF Emit, Leave
<1>2. /\ Apart(runs, waits, chans, Idle)
      /\ Crowd(runs, waits, chans, Idle) = Here \ {cur} /\ cur \in Here
  BY <1>1, Leaves DEF PInv, Held, Here
<1>3. Held' /\ Here' = Here \ {cur}
  BY <1>1, <1>2, Primed
<1>4. Cardinality(Here') = Cardinality(Here) - 1
  BY <1>2, <1>3, HereFinite, FS_RemoveElement
<1>5. Here' \subseteq 1..Len(left') /\ live' = Cardinality(Here')
  BY <1>1, <1>3, <1>4 DEF PInv, Born
<1> QED
  BY <1>1, <1>3, <1>5, PlacesPrimed DEF PInv

\* comp.ts, io_run.  Every step of the loop.
LEMMA PlacesNext ==
  ASSUME PInv, [Next]_fvars
  PROVE  PInv'
<1>1. FInv'
  BY StepKeeps DEF PInv
<1>2. CASE Effect /\ Spawn(cur)
  BY <1>1, <1>2, SpawnCounts DEF Effect
<1>3. CASE Effect /\ ~Spawn(cur)
  <2>1. cur # Idle
    BY <1>3 DEF Effect
  <2> QED
    BY <1>1, <1>3, <2>1, EffectStays, CountStays
<1>4. CASE Run
  BY <1>1, <1>4, RunStays, CountStays
<1>5. CASE Poll
  BY <1>1, <1>5, PollStays, CountStays
<1>6. CASE Emit
  BY <1>1, <1>6, EmitCounts
<1>7. CASE Throw \/ Halt \/ Finish \/ Deadlock \/ Tick \/ UNCHANGED fvars
  <2>1. /\ cur' = cur /\ runs' = runs /\ waits' = waits /\ chans' = chans
        /\ live' = live /\ left' = left
    BY <1>7 DEF Throw, Halt, Finish, Deadlock, Tick, Others, fvars
  <2> QED
    BY <1>1, <2>1, AnswerStays, CountStays
<1> QED
  BY <1>2, <1>3, <1>4, <1>5, <1>6, <1>7 DEF Next, Loop

\* At the start main is the one computation there is, and runnable.
LEMMA PlacesInit ==
  ASSUME Init, FInv
  PROVE  PInv
<1> DEFINE x == Ready(Main, Unit)
<1>1. /\ runs = <<x>> /\ waits = <<>> /\ chans = <<>> /\ cur = Idle
      /\ live = 1 /\ left = <<Asks>> /\ x.fiber = 1
  BY DEF Init, Ready, Main
<1> HIDE DEF x
<1>2. Line(runs) /\ Names(runs) = {1}
  <2>1. <<x>> \in Seq({x}) /\ Len(<<x>>) = 1 /\ <<x>>[1] = x
    OBVIOUS
  <2>2. Len(runs) = 1 /\ runs[1] = x
    BY <1>1, <2>1
  <2>3. IsSeq(runs)
    BY <1>1, <2>1 DEF IsSeq
  <2>4. 1..1 = {1}
    OBVIOUS
  <2> QED
    BY <1>1, <2>2, <2>3, <2>4 DEF Line, Names
<1>3. Line(waits) /\ Names(waits) = {}
  BY <1>1, EmptyLine
<1>4. IsSeq(chans) /\ Len(chans) = 0
  BY <1>1, EmptyIsSeq
<1>5. Separate(chans) /\ Waiters(chans) = {}
  BY <1>4 DEF Separate, Waiters
<1>6. Held /\ Here = {1}
  BY <1>1, <1>2, <1>3, <1>5 DEF Held, Here, Apart, Crowd
<1>7. IsSeq(left) /\ Len(left) = 1
  <2>1. <<Asks>> \in Seq({Asks}) /\ Len(<<Asks>>) = 1
    OBVIOUS
  <2> QED
    BY <1>1, <2>1 DEF IsSeq
<1>8. Here \subseteq Born
  BY <1>6, <1>7 DEF Born
<1>9. Cardinality(Here) = 1
  BY <1>6, FS_Singleton
<1> QED
  BY <1>1, <1>6, <1>7, <1>8, <1>9 DEF PInv

----------------------------------------------------------------------------
(* What the invariant means in numbers.                                    *)

\* A set with nothing or one thing in it.
LEMMA OneOrNone ==
  ASSUME NEW S, \A x, y \in S : x = y
  PROVE  Cardinality(S) = IF S = {} THEN 0 ELSE 1
<1>1. CASE S = {}
  BY <1>1, FS_EmptySet
<1>2. CASE S # {}
  <2>1. PICK x \in S : TRUE
    BY <1>2
  <2>2. S = {x}
    BY <2>1
  <2> QED
    BY <1>2, <2>2, FS_Singleton
<1> QED
  BY <1>1, <1>2

\* A computation is in a line once or not at all.
LEMMA LineCount ==
  ASSUME NEW s, Line(s), NEW f
  PROVE  Cardinality({i \in DOMAIN s : s[i].fiber = f}) = IF f \in Names(s) THEN 1 ELSE 0
<1> DEFINE S == {i \in DOMAIN s : s[i].fiber = f}
<1>1. DOMAIN s = 1..Len(s)
  BY SeqFacts DEF Line
<1>2. \A x, y \in S : x = y
  BY <1>1 DEF Line
<1>3. S = {} <=> f \notin Names(s)
  BY <1>1 DEF Names
<1> HIDE DEF S
<1>4. Cardinality(S) = IF f \in Names(s) THEN 1 ELSE 0
  BY <1>2, <1>3, OneOrNone
<1> QED
  BY <1>4 DEF S

\* And so in the rows.
LEMMA RowsCount ==
  ASSUME NEW rows, Separate(rows), NEW f
  PROVE  Cardinality(UNION {{c} \X {i \in DOMAIN rows[c].wait : rows[c].wait[i].fiber = f} :
                            c \in DOMAIN rows})
           = IF f \in Waiters(rows) THEN 1 ELSE 0
<1> DEFINE At(c) == {i \in DOMAIN rows[c].wait : rows[c].wait[i].fiber = f}
           S == UNION {{c} \X At(c) : c \in DOMAIN rows}
<1>1. DOMAIN rows = 1..Len(rows)
  BY SeqFacts DEF Separate
<1>2. \A c \in 1..Len(rows) : DOMAIN rows[c].wait = 1..Len(rows[c].wait)
  BY SeqFacts DEF Separate, Line
<1>3. \A c \in 1..Len(rows) : \A i, j \in At(c) : i = j
  BY <1>2 DEF Separate, Line
<1>4. \A c \in 1..Len(rows) : At(c) # {} <=> f \in Names(rows[c].wait)
  BY <1>2 DEF Names
<1>5. \A c, d \in 1..Len(rows) : At(c) # {} /\ At(d) # {} => c = d
  BY <1>4 DEF Separate
<1> HIDE DEF At
<1>6. \A x \in S : \E c \in 1..Len(rows) : \E i \in At(c) : x = <<c, i>>
  BY <1>1
<1>7. \A x, y \in S : x = y
  BY <1>3, <1>5, <1>6
<1>8. S = {} <=> \A c \in 1..Len(rows) : At(c) = {}
  <2>1. ASSUME NEW c \in 1..Len(rows), NEW i \in At(c)
        PROVE  <<c, i>> \in S
    BY <1>1
  <2> QED
    BY <1>6, <2>1
<1>9. S = {} <=> f \notin Waiters(rows)
  BY <1>4, <1>8 DEF Waiters
<1> HIDE DEF S
<1>10. Cardinality(S) = IF f \in Waiters(rows) THEN 1 ELSE 0
  BY <1>7, <1>9, OneOrNone
<1> QED
  BY <1>10 DEF S, At

\* comp.ts, io_push, chan_wake, io_wait and io_run.  Every computation that has
\* not emitted is in exactly one place, and live counts them, for any number of
\* computations and channels and whatever they ask: no wakeup is lost or
\* doubled, and a loop that ends on live = 0 has forgotten nobody.
THEOREM NobodyIsLost == Spec => []EachInOnePlace
<1>1. Init => PInv
  BY RowsInit, PlacesInit
<1>2. PInv /\ [Next]_fvars => PInv'
  BY PlacesNext
<1>3. PInv => EachInOnePlace
  <2> SUFFICES ASSUME PInv PROVE EachInOnePlace
    OBVIOUS
  <2>1. \A f \in Born : f # Idle
    BY HereFinite DEF Born, Idle
  <2>2. ASSUME NEW f \in Born
        PROVE  Places(f) = IF f \in Here THEN 1 ELSE 0
    <3> DEFINE A == {i \in DOMAIN runs : runs[i].fiber = f}
               B == {i \in DOMAIN waits : waits[i].fiber = f}
               C == UNION {{c} \X {i \in DOMAIN chans[c].wait : chans[c].wait[i].fiber = f} :
                           c \in DOMAIN chans}
    <3>1. Apart(runs, waits, chans, cur)
      BY DEF PInv, Held
    <3>2. Cardinality(A) = IF f \in Names(runs) THEN 1 ELSE 0
      BY <3>1, LineCount DEF Apart
    <3>3. Cardinality(B) = IF f \in Names(waits) THEN 1 ELSE 0
      BY <3>1, LineCount DEF Apart
    <3>4. Cardinality(C) = IF f \in Waiters(chans) THEN 1 ELSE 0
      BY <3>1, RowsCount DEF Apart
    <3>5. Places(f) = Cardinality(A) + Cardinality(B) + Cardinality(C)
                      + (IF cur = f THEN 1 ELSE 0)
      BY DEF Places
    <3> HIDE DEF A, B, C
    <3>6. f # Idle
      BY <2>1
    <3>7. \/ f \in Names(runs) /\ f \notin Names(waits) /\ f \notin Waiters(chans) /\ f # cur
          \/ f \notin Names(runs) /\ f \in Names(waits) /\ f \notin Waiters(chans) /\ f # cur
          \/ f \notin Names(runs) /\ f \notin Names(waits) /\ f \in Waiters(chans) /\ f # cur
          \/ f \notin Names(runs) /\ f \notin Names(waits) /\ f \notin Waiters(chans) /\ f = cur
          \/ f \notin Names(runs) /\ f \notin Names(waits) /\ f \notin Waiters(chans) /\ f # cur
      BY <3>1, <3>6 DEF Apart
    <3>8. f \in Here <=> \/ f \in Names(runs) \/ f \in Names(waits) \/ f \in Waiters(chans)
                         \/ f = cur
      BY <3>6 DEF Here, Crowd
    <3> QED
      BY <3>2, <3>3, <3>4, <3>5, <3>7, <3>8
  <2>3. {f \in Born : Places(f) = 1} = Here
    <3>1. Here \subseteq Born
      BY DEF PInv
    <3> QED
      BY <2>2, <3>1
  <2>4. \A f \in Born : Places(f) <= 1
    BY <2>2
  <2> QED
    BY <2>3, <2>4 DEF PInv, EachInOnePlace
<1> QED
  BY <1>1, <1>2, <1>3, PTL DEF Spec

----------------------------------------------------------------------------
(* Descriptors.                                                            *)

\* What the loop has still to look at, and who of it connects to what.
Pending(r, w) == Entries(r) \cup Entries(w)

Dials(P) == {<<x.fiber, x.op.fd>> : x \in {y \in P : y.op.eff = "connect"}}

SendOp(op) == op = [eff |-> "send", fd |-> op.fd, rest |-> op.rest]

\* A send in parts is written back as a send.
WellSent(P) == \A x \in P : x.op.eff = "send" => SendOp(x.op)

\* The books of the descriptors: connects D, hands o, open ones F.
Books(D, o, F) ==
  /\ \A p, q \in D : p[2] = q[2] => p[1] = q[1]
  /\ \A f, g \in 1..Len(o) : f # g => o[f] \cap o[g] = {}
  /\ \A f \in 1..Len(o) : \A p \in D : p[2] \notin o[f]
  /\ \A fd : fd \in F <=> (\E p \in D : p[2] = fd) \/ (\E f \in 1..Len(o) : fd \in o[f])

\* What the loop looks at is the same as far as connects go.
LEMMA SameDials ==
  ASSUME NEW P, NEW Q,
         \A x \in P : x.op.eff = "connect" => x \in Q,
         \A x \in Q : x.op.eff = "connect" => x \in P
  PROVE  Dials(P) = Dials(Q)
<1>1. {y \in P : y.op.eff = "connect"} = {y \in Q : y.op.eff = "connect"}
  OBVIOUS
<1> QED
  BY <1>1 DEF Dials

\* The hands after one of them is filled or emptied.
LEMMA Hands ==
  ASSUME NEW o, IsSeq(o), NEW f \in 1..Len(o), NEW x, NEW p, p = Replaced(o, f, x)
  PROVE  /\ IsSeq(p) /\ Len(p) = Len(o)
         /\ \A g \in 1..Len(o) : p[g] = IF g = f THEN x ELSE o[g]
  BY ReplaceSeq

\* A descriptor is opened into a hand.
LEMMA OpenBooks ==
  ASSUME NEW D, NEW o, NEW F, IsSeq(o), Books(D, o, F), NEW f \in 1..Len(o),
         NEW fd, fd \notin F, NEW p, p = Replaced(o, f, o[f] \cup {fd})
  PROVE  Books(D, p, F \cup {fd})
<1>1. /\ Len(p) = Len(o)
      /\ \A g \in 1..Len(o) : p[g] = IF g = f THEN o[f] \cup {fd} ELSE o[g]
  BY Hands
<1>2. (\A q \in D : q[2] # fd) /\ \A g \in 1..Len(o) : fd \notin o[g]
  BY DEF Books
<1>3. \A g, h \in 1..Len(p) : g # h => p[g] \cap p[h] = {}
  <2>1. \A g \in 1..Len(o) : \A e : e \in p[g] <=> e \in o[g] \/ (g = f /\ e = fd)
    BY <1>1
  <2>2. \A g, h \in 1..Len(o) : g # h => \A e : ~(e \in o[g] /\ e \in o[h])
    BY DEF Books
  <2>3. \A g \in 1..Len(o) : fd \notin o[g]
    BY <1>2
  <2>4. ASSUME NEW g \in 1..Len(o), NEW h \in 1..Len(o), g # h,
               NEW e, e \in p[g], e \in p[h]
        PROVE  FALSE
    <3>1. e \in o[g] \/ (g = f /\ e = fd)
      BY <2>1, <2>4
    <3>2. e \in o[h] \/ (h = f /\ e = fd)
      BY <2>1, <2>4
    <3> QED
      BY <2>2, <2>3, <2>4, <3>1, <3>2
  <2> QED
    BY <1>1, <2>4
<1>4. \A g \in 1..Len(p) : \A q \in D : q[2] \notin p[g]
  <2>1. \A g \in 1..Len(o) : \A e : e \in p[g] <=> e \in o[g] \/ (g = f /\ e = fd)
    BY <1>1
  <2>2. \A g \in 1..Len(o) : \A q \in D : q[2] \notin o[g]
    BY DEF Books
  <2> QED
    BY <1>1, <1>2, <2>1, <2>2
<1>5. ASSUME NEW e
      PROVE  e \in F \cup {fd} <=> (\E q \in D : q[2] = e) \/ (\E g \in 1..Len(p) : e \in p[g])
  BY <1>1 DEF Books
<1> QED
  BY <1>3, <1>4, <1>5 DEF Books

\* A descriptor is opened and its connect goes on.
LEMMA DialBooks ==
  ASSUME NEW D, NEW o, NEW F, Books(D, o, F), NEW f, NEW fd, fd \notin F,
         NEW E, E = D \cup {<<f, fd>>}
  PROVE  Books(E, o, F \cup {fd})
<1>1. (\A q \in D : q[2] # fd) /\ \A g \in 1..Len(o) : fd \notin o[g]
  BY DEF Books
<1>2. \A q \in E : q \in D \/ (q[1] = f /\ q[2] = fd)
  OBVIOUS
<1>3. \A p, q \in E : p[2] = q[2] => p[1] = q[1]
  BY <1>1, <1>2 DEF Books
<1>4. \A g \in 1..Len(o) : \A q \in E : q[2] \notin o[g]
  BY <1>1, <1>2 DEF Books
<1>5. (\E q \in E : q[2] = fd) /\ D \subseteq E
  <2>1. <<f, fd>> \in E /\ <<f, fd>>[2] = fd
    OBVIOUS
  <2> QED
    BY <2>1
<1>6. ASSUME NEW e
      PROVE  e \in F \cup {fd} <=> (\E q \in E : q[2] = e) \/ (\E g \in 1..Len(o) : e \in o[g])
  BY <1>2, <1>5 DEF Books
<1> QED
  BY <1>3, <1>4, <1>6 DEF Books

\* A connect ends in a hand.
LEMMA DialedBooks ==
  ASSUME NEW D, NEW o, NEW F, IsSeq(o), Books(D, o, F), NEW f \in 1..Len(o),
         NEW E, NEW fd, D = E \cup {<<f, fd>>}, \A q \in E : q[1] # f,
         NEW p, p = Replaced(o, f, o[f] \cup {fd})
  PROVE  Books(E, p, F)
<1>1. /\ Len(p) = Len(o)
      /\ \A g \in 1..Len(o) : p[g] = IF g = f THEN o[f] \cup {fd} ELSE o[g]
  BY Hands
<1>2. <<f, fd>> \in D /\ <<f, fd>>[1] = f /\ <<f, fd>>[2] = fd /\ E \subseteq D
  OBVIOUS
<1>3. (\A q \in E : q[2] # fd) /\ \A g \in 1..Len(o) : fd \notin o[g]
  <2>1. \A q \in E : q \in D /\ (q[2] = fd => q[1] = f)
    BY <1>2 DEF Books
  <2>2. \A g \in 1..Len(o) : \A q \in D : q[2] \notin o[g]
    BY DEF Books
  <2> QED
    BY <1>2, <2>1, <2>2
<1>4. \A g, h \in 1..Len(p) : g # h => p[g] \cap p[h] = {}
  <2>1. \A g \in 1..Len(o) : \A e : e \in p[g] <=> e \in o[g] \/ (g = f /\ e = fd)
    BY <1>1
  <2>2. \A g, h \in 1..Len(o) : g # h => \A e : ~(e \in o[g] /\ e \in o[h])
    BY DEF Books
  <2>3. \A g, h \in 1..Len(o) : g # h => \A e : ~(e \in p[g] /\ e \in p[h])
    BY ZenonT(60), <1>3, <2>1, <2>2
  <2> QED
    BY <1>1, <2>3
<1>5. \A g \in 1..Len(p) : \A q \in E : q[2] \notin p[g]
  <2>1. \A g \in 1..Len(o) : \A e : e \in p[g] <=> e \in o[g] \/ (g = f /\ e = fd)
    BY <1>1
  <2>2. \A g \in 1..Len(o) : \A q \in E : q[2] \notin o[g]
    BY <1>2 DEF Books
  <2> QED
    BY <1>1, <1>3, <2>1, <2>2
<1>6. \A q \in D : q \in E \/ q[2] = fd
  BY <1>2
<1>7. ASSUME NEW e
      PROVE  e \in F <=> (\E q \in E : q[2] = e) \/ (\E g \in 1..Len(p) : e \in p[g])
  <2>1. e \in F <=> (\E q \in D : q[2] = e) \/ (\E g \in 1..Len(o) : e \in o[g])
    BY DEF Books
  <2>2. (\E q \in D : q[2] = e) <=> (\E q \in E : q[2] = e) \/ e = fd
    BY <1>2, <1>6
  <2>3. (\E g \in 1..Len(p) : e \in p[g]) <=> (\E g \in 1..Len(o) : e \in o[g]) \/ e = fd
    BY <1>1
  <2> QED
    BY <2>1, <2>2, <2>3
<1> QED
  BY <1>2, <1>4, <1>5, <1>7 DEF Books

\* A connect fails and its socket is closed.
LEMMA FailedBooks ==
  ASSUME NEW D, NEW o, NEW F, Books(D, o, F), NEW f,
         NEW E, NEW fd, D = E \cup {<<f, fd>>}, \A q \in E : q[1] # f
  PROVE  Books(E, o, F \ {fd})
<1>2. <<f, fd>> \in D /\ <<f, fd>>[1] = f /\ <<f, fd>>[2] = fd /\ E \subseteq D
  OBVIOUS
<1>3. (\A q \in E : q[2] # fd) /\ \A g \in 1..Len(o) : fd \notin o[g]
  <2>1. \A q \in E : q \in D /\ (q[2] = fd => q[1] = f)
    BY <1>2 DEF Books
  <2>2. \A g \in 1..Len(o) : \A q \in D : q[2] \notin o[g]
    BY DEF Books
  <2> QED
    BY <1>2, <2>1, <2>2
<1>6. \A q \in D : q \in E \/ q[2] = fd
  BY <1>2
<1>7. ASSUME NEW e
      PROVE  e \in F \ {fd} <=> (\E q \in E : q[2] = e) \/ (\E g \in 1..Len(o) : e \in o[g])
  <2>1. e \in F <=> (\E q \in D : q[2] = e) \/ (\E g \in 1..Len(o) : e \in o[g])
    BY DEF Books
  <2>2. (\E q \in D : q[2] = e) <=> (\E q \in E : q[2] = e) \/ e = fd
    BY <1>2, <1>6
  <2> QED
    BY <1>3, <2>1, <2>2
<1> QED
  BY <1>2, <1>7 DEF Books

\* A descriptor is closed out of a hand.
LEMMA CloseBooks ==
  ASSUME NEW D, NEW o, NEW F, IsSeq(o), Books(D, o, F), NEW f \in 1..Len(o),
         NEW fd \in o[f], NEW p, p = Replaced(o, f, o[f] \ {fd})
  PROVE  Books(D, p, F \ {fd})
<1>1. /\ Len(p) = Len(o)
      /\ \A g \in 1..Len(o) : p[g] = IF g = f THEN o[f] \ {fd} ELSE o[g]
  BY Hands
<1>2. (\A q \in D : q[2] # fd) /\ \A g \in 1..Len(o) : g # f => fd \notin o[g]
  BY DEF Books
<1>3. \A g, h \in 1..Len(p) : g # h => p[g] \cap p[h] = {}
  <2>1. \A g \in 1..Len(o) : \A e : e \in p[g] <=> e \in o[g] /\ (g = f => e # fd)
    BY <1>1
  <2>2. \A g, h \in 1..Len(o) : g # h => \A e : ~(e \in o[g] /\ e \in o[h])
    BY DEF Books
  <2>3. \A g, h \in 1..Len(o) : g # h => \A e : ~(e \in p[g] /\ e \in p[h])
    BY <2>1, <2>2
  <2> QED
    BY <1>1, <2>3
<1>4. \A g \in 1..Len(p) : \A q \in D : q[2] \notin p[g]
  <2>1. \A g \in 1..Len(o) : \A e : e \in p[g] <=> e \in o[g] /\ (g = f => e # fd)
    BY <1>1
  <2>2. \A g \in 1..Len(o) : \A q \in D : q[2] \notin o[g]
    BY DEF Books
  <2> QED
    BY <1>1, <2>1, <2>2
<1>5. ASSUME NEW e
      PROVE  e \in F \ {fd} <=> (\E q \in D : q[2] = e) \/ (\E g \in 1..Len(p) : e \in p[g])
  <2>1. e \in F <=> (\E q \in D : q[2] = e) \/ (\E g \in 1..Len(o) : e \in o[g])
    BY DEF Books
  <2>2. (\E g \in 1..Len(p) : e \in p[g]) <=> (\E g \in 1..Len(o) : e \in o[g]) /\ e # fd
    BY <1>1, <1>2
  <2> QED
    BY <1>2, <2>1, <2>2
<1> QED
  BY <1>3, <1>4, <1>5 DEF Books

\* A computation is born with empty hands.
LEMMA BornBooks ==
  ASSUME NEW D, NEW o, NEW F, IsSeq(o), Books(D, o, F)
  PROVE  Books(D, Append(o, {}), F)
<1> DEFINE p == Append(o, {})
           n == Len(o) + 1
<1>1. /\ Len(p) = n /\ Len(o) \in Nat /\ p[n] = {}
      /\ \A g \in 1..Len(o) : p[g] = o[g]
  BY AppendSeq, SeqFacts
<1> HIDE DEF p
<1>2. 1..n = (1..Len(o)) \cup {n}
  BY <1>1
<1> HIDE DEF n
<1>3. \A g, h \in 1..Len(p) : g # h => p[g] \cap p[h] = {}
  BY <1>1, <1>2 DEF Books
<1>4. \A g \in 1..Len(p) : \A q \in D : q[2] \notin p[g]
  BY <1>1, <1>2 DEF Books
<1>5. ASSUME NEW e
      PROVE  e \in F <=> (\E q \in D : q[2] = e) \/ (\E g \in 1..Len(p) : e \in p[g])
  <2>1. e \in F <=> (\E q \in D : q[2] = e) \/ (\E g \in 1..Len(o) : e \in o[g])
    BY DEF Books
  <2>2. (\E g \in 1..Len(p) : e \in p[g]) <=> (\E g \in 1..Len(o) : e \in o[g])
    BY <1>1, <1>2
  <2> QED
    BY <2>1, <2>2
<1>6. Books(D, p, F)
  BY <1>3, <1>4, <1>5 DEF Books
<1> QED
  BY <1>6 DEF p

\* Who is listed of two lines, and of one that its first leaves.
LEMMA EntriesConcat ==
  ASSUME NEW s, IsSeq(s), NEW t, IsSeq(t)
  PROVE  Entries(s \o t) = Entries(s) \cup Entries(t)
<1> DEFINE u == s \o t
<1>1. /\ Len(u) = Len(s) + Len(t) /\ Len(s) \in Nat /\ Len(t) \in Nat
      /\ \A i \in 1..Len(u) : u[i] = IF i <= Len(s) THEN s[i] ELSE t[i - Len(s)]
  BY ConcatSeq
<1> HIDE DEF u
<1>2. \A i \in 1..Len(u) : \/ i \in 1..Len(s) /\ u[i] = s[i]
                           \/ i - Len(s) \in 1..Len(t) /\ u[i] = t[i - Len(s)]
  BY <1>1
<1>3. \A i \in 1..Len(s) : i \in 1..Len(u) /\ u[i] = s[i]
  BY <1>1
<1>4. \A i \in 1..Len(t) : Len(s) + i \in 1..Len(u) /\ u[Len(s) + i] = t[i]
  BY <1>1
<1>5. Entries(u) \subseteq Entries(s) \cup Entries(t)
  BY <1>2 DEF Entries
<1>6. Entries(s) \subseteq Entries(u)
  BY <1>3 DEF Entries
<1>7. Entries(t) \subseteq Entries(u)
  BY <1>4 DEF Entries
<1> QED
  BY <1>5, <1>6, <1>7 DEF u

\* The first of a line is one of it.
LEMMA EntriesTail ==
  ASSUME NEW s, IsSeq(s), s # <<>>
  PROVE  Entries(s) = Entries(Tail(s)) \cup {s[1]}
<1> DEFINE t == Tail(s)
<1>1. /\ Len(t) = Len(s) - 1 /\ Len(s) \in Nat \ {0}
      /\ \A i \in 1..Len(s) - 1 : t[i] = s[i + 1]
  BY TailSeq
<1> HIDE DEF t
<1>2. \A i \in 1..Len(t) : i + 1 \in 1..Len(s) /\ t[i] = s[i + 1]
  BY <1>1
<1>3. \A i \in 1..Len(s) : i = 1 \/ (i - 1 \in 1..Len(t) /\ t[i - 1] = s[i])
  <2> SUFFICES ASSUME NEW i \in 1..Len(s), i # 1
               PROVE  i - 1 \in 1..Len(t) /\ t[i - 1] = s[i]
    OBVIOUS
  <2>1. i - 1 \in 1..Len(s) - 1 /\ (i - 1) + 1 = i
    BY <1>1
  <2> QED
    BY <1>1, <2>1
<1>4. 1 \in 1..Len(s)
  BY <1>1
<1>5. Entries(t) \cup {s[1]} \subseteq Entries(s)
  BY <1>2, <1>4 DEF Entries
<1>6. Entries(s) \subseteq Entries(t) \cup {s[1]}
  <2> SUFFICES ASSUME NEW i \in 1..Len(s) PROVE s[i] \in Entries(t) \cup {s[1]}
    BY DEF Entries
  <2> QED
    BY <1>3 DEF Entries
<1> QED
  BY <1>5, <1>6 DEF t

\* Nobody is in two lines that have no name in common, or twice in one.
LEMMA NotListed ==
  ASSUME NEW s, NEW f, f \notin Names(s)
  PROVE  \A x \in Entries(s) : x.fiber # f
  BY DEF Names, Entries

\* An entry that connects to nothing and, if it sends, is written as a send.
Tame(x) == x.op.eff # "connect" /\ (x.op.eff = "send" => SendOp(x.op))

\* The books of the process are right.
OInv ==
  /\ PInv
  /\ IsSeq(owns) /\ Len(owns) = Len(left)
  /\ WellSent(Pending(runs, waits))
  /\ Books(Dials(Pending(runs, waits)), owns, fds)

\* The invariant after a step, in terms of the new state.
LEMMA OwnsPrimed ==
  OInv' <=> /\ PInv' /\ IsSeq(owns') /\ Len(owns') = Len(left')
            /\ WellSent(Pending(runs', waits'))
            /\ Books(Dials(Pending(runs', waits')), owns', fds')
  BY DEF OInv, IsSeq, WellSent, SendOp, Pending, Entries, Books, Dials

\* Tame entries change no connect.
LEMMA TameGrows ==
  ASSUME NEW P, NEW Q, WellSent(P), P \subseteq Q, \A x \in Q : x \in P \/ Tame(x)
  PROVE  Dials(Q) = Dials(P) /\ WellSent(Q)
<1>1. Dials(Q) = Dials(P)
  BY SameDials DEF Tame
<1>2. WellSent(Q)
  BY DEF WellSent, Tame
<1> QED
  BY <1>1, <1>2

\* One entry more in one of the two lines.
LEMMA PendingAdds ==
  ASSUME NEW r, IsSeq(r), NEW w, IsSeq(w), NEW x
  PROVE  /\ Pending(Append(r, x), w) = Pending(r, w) \cup {x}
         /\ Pending(r, Append(w, x)) = Pending(r, w) \cup {x}
<1>1. Entries(Append(r, x)) = Entries(r) \cup {x}
  BY EntriesAppend
<1>2. Entries(Append(w, x)) = Entries(w) \cup {x}
  BY EntriesAppend
<1> QED
  BY <1>1, <1>2 DEF Pending

\* Who waits on and who is tried again do so with the same effect.
LEMMA SameAsked ==
  ASSUME NEW P, NEW Q, WellSent(P),
         \A x \in P : \E y \in Q : y.fiber = x.fiber /\ y.op = x.op,
         \A y \in Q : \E x \in P : y.fiber = x.fiber /\ y.op = x.op
  PROVE  Dials(Q) = Dials(P) /\ WellSent(Q)
<1>1. WellSent(Q)
  BY DEF WellSent
<1>2. \A R, d : d \in Dials(R)
                  <=> \E x \in R : x.op.eff = "connect" /\ d = <<x.fiber, x.op.fd>>
  BY DEF Dials
<1>3. ASSUME NEW d \in Dials(P) PROVE d \in Dials(Q)
  <2>1. PICK x \in P : x.op.eff = "connect" /\ d = <<x.fiber, x.op.fd>>
    BY <1>2, <1>3
  <2>2. PICK y \in Q : y.fiber = x.fiber /\ y.op = x.op
    OBVIOUS
  <2> QED
    BY <1>2, <2>1, <2>2
<1>4. ASSUME NEW d \in Dials(Q) PROVE d \in Dials(P)
  <2>1. PICK y \in Q : y.op.eff = "connect" /\ d = <<y.fiber, y.op.fd>>
    BY <1>2, <1>4
  <2>2. PICK x \in P : y.fiber = x.fiber /\ y.op = x.op
    OBVIOUS
  <2> QED
    BY <1>2, <2>1, <2>2
<1> QED
  BY <1>1, <1>3, <1>4

\* Who is runnable with a result asks for nothing.
LEMMA ReadyTame ==
  ASSUME NEW f, NEW x
  PROVE  Tame(Ready(f, x))
<1>1. Ready(f, x).op = NoOp /\ NoOp.eff = "none"
  BY DEF Ready, NoOp
<1> QED
  BY <1>1 DEF Tame

\* A descriptor is opened into the hands of f.
OpenedFor(f) == \E fd \in Fds \ fds : fds' = fds \cup {fd} /\ Handed(f, fd)

\* Which leaves the books right.
LEMMA HandsMove ==
  ASSUME IsSeq(owns), NEW f \in 1..Len(owns), NEW D, Books(D, owns, fds),
         (fds' = fds /\ owns' = owns) \/ OpenedFor(f)
  PROVE  Books(D, owns', fds') /\ IsSeq(owns') /\ Len(owns') = Len(owns)
<1>1. CASE fds' = fds /\ owns' = owns
  BY <1>1
<1>2. CASE OpenedFor(f)
  <2>1. PICK fd \in Fds \ fds : fds' = fds \cup {fd} /\ Handed(f, fd)
    BY <1>2 DEF OpenedFor
  <2>2. owns' = Replaced(owns, f, owns[f] \cup {fd})
    BY <2>1 DEF Handed, Replaced
  <2> QED
    BY <2>1, <2>2, OpenBooks, Hands
<1> QED
  BY <1>1, <1>2

\* comp.ts, the effects on a descriptor.  Only tcp_accept opens one, and what
\* waits on is written as what was asked.
LEMMA AttemptMoves ==
  ASSUME NEW f, NEW op, Attempt(f, op), op.eff # "connect",
         op.eff = "send" => SendOp(op)
  PROVE  /\ (fds' = fds /\ owns' = owns) \/ OpenedFor(f)
         /\ waits' = waits \/ \E x : Tame(x) /\ waits' = Append(waits, x)
<1>1. ASSUME NEW fd, NEW o, Park(OnFd(f, fd, o)), o.eff # "connect",
             o.eff = "send" => SendOp(o)
      PROVE  \E x : Tame(x) /\ waits' = Append(waits, x)
  <2>1. OnFd(f, fd, o).op = o
    BY DEF OnFd
  <2>2. Tame(OnFd(f, fd, o))
    BY <1>1, <2>1 DEF Tame
  <2> QED
    BY <1>1, <2>2 DEF Park
<1>2. \/ op.eff = "recv" /\ AttemptRecv(f, op)
      \/ op.eff = "recvfrom" /\ AttemptRecvFrom(f, op)
      \/ op.eff = "accept" /\ AttemptAccept(f, op)
      \/ op.eff = "send" /\ AttemptSend(f, op)
      \/ op.eff = "sendto" /\ AttemptSendTo(f, op)
      \/ op.eff = "sleep" /\ AttemptSleep(f)
  BY DEF Attempt
<1>3. CASE op.eff = "recv" /\ AttemptRecv(f, op)
  BY <1>1, <1>3 DEF AttemptRecv
<1>4. CASE op.eff = "recvfrom" /\ AttemptRecvFrom(f, op)
  BY <1>1, <1>4 DEF AttemptRecvFrom
<1>5. CASE op.eff = "accept" /\ AttemptAccept(f, op)
  BY <1>1, <1>5 DEF AttemptAccept, OpenedFor
<1>6. CASE op.eff = "send" /\ AttemptSend(f, op)
  <2>1. ASSUME NEW rest, Park(OnFd(f, op.fd, [op EXCEPT !.rest = rest]))
        PROVE  \E x : Tame(x) /\ waits' = Append(waits, x)
    <3> DEFINE o == [op EXCEPT !.rest = rest]
               fd == op.fd
    <3>1. o = [eff |-> "send", fd |-> fd, rest |-> rest]
      BY <1>6 DEF SendOp
    <3>2. o.eff = "send" /\ SendOp(o)
      BY <3>1 DEF SendOp
    <3>3. Park(OnFd(f, fd, o))
      BY <2>1
    <3> HIDE DEF o, fd
    <3> QED
      BY <1>1, <3>2, <3>3
  <2> QED
    BY <1>6, <2>1 DEF AttemptSend
<1>7. CASE op.eff = "sendto" /\ AttemptSendTo(f, op)
  BY <1>1, <1>7 DEF AttemptSendTo
<1>8. CASE op.eff = "sleep" /\ AttemptSleep(f)
  BY <1>8 DEF AttemptSleep
<1> QED
  BY <1>2, <1>3, <1>4, <1>5, <1>6, <1>7, <1>8

\* A step of the computation f that only adds tame entries and opens at most
\* one descriptor for it.
LEMMA TameStep ==
  ASSUME OInv, PInv', Len(left') = Len(left), NEW f \in 1..Len(left),
         (fds' = fds /\ owns' = owns) \/ OpenedFor(f),
         Pending(runs, waits) \subseteq Pending(runs', waits'),
         \A x \in Pending(runs', waits') : x \in Pending(runs, waits) \/ Tame(x)
  PROVE  OInv'
<1> DEFINE P == Pending(runs, waits)
           Q == Pending(runs', waits')
<1>1. /\ IsSeq(owns) /\ f \in 1..Len(owns) /\ Len(owns) = Len(left)
      /\ WellSent(P) /\ Books(Dials(P), owns, fds)
  BY DEF OInv
<1>2. P \subseteq Q /\ \A x \in Q : x \in P \/ Tame(x)
  OBVIOUS
<1> HIDE DEF P, Q
<1>3. Dials(Q) = Dials(P) /\ WellSent(Q)
  BY <1>1, <1>2, TameGrows
<1>4. Books(Dials(Q), owns', fds') /\ IsSeq(owns') /\ Len(owns') = Len(owns)
  BY <1>1, <1>3, HandsMove
<1> QED
  BY <1>1, <1>3, <1>4, OwnsPrimed DEF Q

\* comp.ts, the channels.  Who they make runnable asks for nothing.
LEMMA ChanTame ==
  ASSUME PInv, ChanEffect(cur)
  PROVE  /\ Entries(runs) \subseteq Entries(runs')
         /\ \A x \in Entries(runs') : x \in Entries(runs) \/ Tame(x)
<1>1. IsSeq(runs)
  BY DEF PInv, Held, Apart, Line
<1>2. ASSUME NEW f, NEW x, runs' = Append(runs, Ready(f, x))
      PROVE  Entries(runs') = Entries(runs) \cup {Ready(f, x)} /\ Tame(Ready(f, x))
  BY <1>1, <1>2, EntriesAppend, ReadyTame
<1>3. ASSUME NEW c \in DOMAIN chans, runs' = ShutRuns(chans[c])
      PROVE  /\ Entries(runs) \subseteq Entries(runs')
             /\ \A x \in Entries(runs') : x \in Entries(runs) \/ Tame(x)
  <2> DEFINE row == chans[c]
             told == [i \in DOMAIN row.wait |->
                        Ready(row.wait[i].fiber,
                              IF row.wait[i].item = NoValue THEN None ELSE Told(FALSE))]
  <2>1. runs' = runs \o told
    BY <1>3 DEF ShutRuns
  <2>2. DOMAIN row.wait = 1..Len(row.wait) /\ Len(row.wait) \in Nat
    BY RowAt, SeqFacts DEF PInv, RowOk, RowLike
  <2>3. \A i \in 1..Len(row.wait) : Tame(told[i])
    BY <2>2, ReadyTame
  <2>4. told = [i \in 1..Len(row.wait) |-> told[i]]
    BY <2>2
  <2> HIDE DEF told
  <2>5. IsSeq(told) /\ Len(told) = Len(row.wait)
    BY <2>2, <2>4, ListIsSeq
  <2>6. Entries(runs') = Entries(runs) \cup Entries(told)
    BY <1>1, <2>1, <2>5, EntriesConcat
  <2>7. \A x \in Entries(told) : Tame(x)
    BY <2>3, <2>5 DEF Entries
  <2> QED
    BY <2>6, <2>7
<1>4. \/ runs' = runs
      \/ \E f, x : runs' = Append(runs, Ready(f, x))
      \/ \E c \in DOMAIN chans : runs' = ShutRuns(chans[c])
  <2>1. ASSUME NEW row, NEW x, runs' = Woken(row, x)
        PROVE  \E f, y : runs' = Append(runs, Ready(f, y))
    BY <2>1 DEF Woken
  <2>2. CASE ChanNew(cur)
    BY <2>2 DEF ChanNew
  <2>3. CASE \E c \in DOMAIN chans : ChanSend(cur, c)
    BY <2>1, <2>3 DEF ChanSend
  <2>4. CASE \E c \in DOMAIN chans : ChanRecv(cur, c)
    BY <2>1, <2>4 DEF ChanRecv, TakeRuns
  <2>5. CASE \E c \in DOMAIN chans : ChanClose(cur, c)
    BY <2>5 DEF ChanClose
  <2> QED
    BY <2>2, <2>3, <2>4, <2>5 DEF ChanEffect
<1>5. CASE runs' = runs
  BY <1>5
<1>6. CASE \E f, x : runs' = Append(runs, Ready(f, x))
  BY <1>2, <1>6
<1>7. CASE \E c \in DOMAIN chans : runs' = ShutRuns(chans[c])
  BY <1>3, <1>7
<1> QED
  BY <1>4, <1>5, <1>6, <1>7

\* What waits, with one more or as it was.
LEMMA WaitsTame ==
  ASSUME PInv, runs' = runs,
         waits' = waits \/ \E x : Tame(x) /\ waits' = Append(waits, x)
  PROVE  /\ Pending(runs, waits) \subseteq Pending(runs', waits')
         /\ \A x \in Pending(runs', waits') : x \in Pending(runs, waits) \/ Tame(x)
<1>1. IsSeq(runs) /\ IsSeq(waits)
  BY DEF PInv, Held, Apart, Line
<1>2. CASE waits' = waits
  BY <1>2
<1>3. CASE \E x : Tame(x) /\ waits' = Append(waits, x)
  <2>1. PICK x : Tame(x) /\ waits' = Append(waits, x)
    BY <1>3
  <2>2. Pending(runs', waits') = Pending(runs, waits) \cup {x}
    BY <1>1, <2>1, PendingAdds
  <2> QED
    BY <2>1, <2>2
<1> QED
  BY <1>2, <1>3

\* comp.ts, io_run.  Effects and the descriptors.
LEMMA EffectOwns ==
  ASSUME OInv, PInv', Effect
  PROVE  OInv'
<1>1. PInv /\ cur # Idle /\ cur \in 1..Len(left)
  BY DEF OInv, Effect, PInv, Here, Crowd, Born
<1>2. left' = [left EXCEPT ![cur] = @ - 1] => Len(left') = Len(left)
  BY <1>1, LeftStays
<1>3. IsSeq(runs) /\ IsSeq(waits) /\ IsSeq(owns) /\ IsSeq(left) /\ Len(owns) = Len(left)
  BY DEF OInv, PInv, Held, Apart, Line
<1>4. CASE ChanEffect(cur)
  <2>1. waits' = waits /\ fds' = fds /\ owns' = owns /\ Len(left') = Len(left)
    BY <1>2, <1>4 DEF ChanEffect
  <2>2. /\ Pending(runs, waits) \subseteq Pending(runs', waits')
        /\ \A x \in Pending(runs', waits') : x \in Pending(runs, waits) \/ Tame(x)
    BY <1>1, <1>4, <2>1, ChanTame DEF Pending
  <2> QED
    BY <1>1, <2>1, <2>2, TameStep
<1>5. ASSUME runs' = runs, left' = [left EXCEPT ![cur] = @ - 1],
             waits' = waits \/ \E x : Tame(x) /\ waits' = Append(waits, x),
             (fds' = fds /\ owns' = owns) \/ OpenedFor(cur)
      PROVE  OInv'
  <2>1. /\ Pending(runs, waits) \subseteq Pending(runs', waits')
        /\ \A x \in Pending(runs', waits') : x \in Pending(runs, waits) \/ Tame(x)
    BY <1>1, <1>5, WaitsTame
  <2> QED
    BY <1>1, <1>2, <1>5, <2>1, TameStep
<1>6. CASE Sleep(cur)
  <2>1. PICK ms \in Delays : Park(Timer(cur, clock + ms, [eff |-> "sleep"]))
    BY <1>6 DEF Sleep
  <2>2. Timer(cur, clock + ms, [eff |-> "sleep"]).op.eff = "sleep"
    BY DEF Timer
  <2>3. Tame(Timer(cur, clock + ms, [eff |-> "sleep"]))
    BY <2>2 DEF Tame
  <2> QED
    BY <1>5, <1>6, <2>1, <2>3 DEF Sleep, Park
<1>7. CASE ReadEffect(cur)
  <2>1. PICK fd \in owns[cur], eff \in {"accept", "recv", "recvfrom"} :
          Park(OnFd(cur, fd, [eff |-> eff, fd |-> fd]))
    BY <1>7 DEF ReadEffect
  <2>2. OnFd(cur, fd, [eff |-> eff, fd |-> fd]).op.eff = eff
    BY DEF OnFd
  <2>3. Tame(OnFd(cur, fd, [eff |-> eff, fd |-> fd]))
    BY <2>2 DEF Tame
  <2> QED
    BY <1>5, <1>7, <2>1, <2>3 DEF ReadEffect, Park
<1>8. CASE WriteEffect(cur)
  <2>1. PICK fd \in owns[cur], eff \in {"send", "sendto"} :
          Attempt(cur, [eff |-> eff, fd |-> fd, rest |-> Bytes])
    BY <1>8 DEF WriteEffect
  <2> DEFINE op == [eff |-> eff, fd |-> fd, rest |-> Bytes]
  <2>2. op.eff # "connect" /\ (op.eff = "send" => SendOp(op))
    BY DEF SendOp
  <2>3. Attempt(cur, op)
    BY <2>1
  <2> HIDE DEF op
  <2>4. /\ (fds' = fds /\ owns' = owns) \/ OpenedFor(cur)
        /\ waits' = waits \/ \E x : Tame(x) /\ waits' = Append(waits, x)
    BY <2>2, <2>3, AttemptMoves
  <2> QED
    BY <1>5, <1>8, <2>4 DEF WriteEffect
<1>9. CASE Open(cur) \/ Immediate(cur)
  <2>1. /\ runs' = runs /\ waits' = waits /\ left' = [left EXCEPT ![cur] = @ - 1]
        /\ (fds' = fds /\ owns' = owns) \/ OpenedFor(cur)
    BY <1>9 DEF Open, Immediate, Listen, Bind, OpenFile, Opened, NotOpened, OpenedFor
  <2> QED
    BY <1>5, <2>1
<1>10. CASE Spawn(cur)
  <2> DEFINE x == Ready(Len(left) + 1, Unit)
             fewer == [left EXCEPT ![cur] = @ - 1]
  <2>1. /\ runs' = Append(runs, x) /\ waits' = waits /\ fds' = fds
        /\ owns' = Append(owns, {}) /\ left' = Append(fewer, Asks)
    BY <1>10 DEF Spawn
  <2>2. IsSeq(fewer) /\ Len(fewer) = Len(left)
    <3>1. fewer = Replaced(left, cur, left[cur] - 1)
      BY DEF Replaced
    <3> HIDE DEF fewer
    <3> QED
      BY <1>1, <1>3, <3>1, ReplaceSeq
  <2> HIDE DEF fewer
  <2>3. Tame(x)
    BY ReadyTame
  <2> HIDE DEF x
  <2>4. Pending(runs', waits') = Pending(runs, waits) \cup {x}
    BY <1>3, <2>1, PendingAdds
  <2>5. /\ Dials(Pending(runs', waits')) = Dials(Pending(runs, waits))
        /\ WellSent(Pending(runs', waits'))
    BY <2>3, <2>4, TameGrows DEF OInv
  <2>6. Len(owns') = Len(left') /\ IsSeq(owns')
    BY <1>3, <2>1, <2>2, AppendSeq
  <2>7. Books(Dials(Pending(runs', waits')), owns', fds')
    BY <1>3, <2>1, <2>5, BornBooks DEF OInv
  <2> QED
    BY <2>5, <2>6, <2>7, OwnsPrimed
<1>11. CASE Close(cur)
  <2>1. PICK fd \in owns[cur] : fds' = fds \ {fd} /\ owns' = [owns EXCEPT ![cur] = @ \ {fd}]
    BY <1>11 DEF Close
  <2>2. owns' = Replaced(owns, cur, owns[cur] \ {fd})
    BY <2>1 DEF Replaced
  <2>3. runs' = runs /\ waits' = waits /\ Len(left') = Len(left)
    BY <1>2, <1>11 DEF Close
  <2> DEFINE D == Dials(Pending(runs, waits))
  <2>4. IsSeq(owns') /\ Len(owns') = Len(owns)
    BY <1>1, <1>3, <2>2, Hands
  <2>5. Books(D, owns, fds) /\ cur \in 1..Len(owns)
    BY <1>1, <1>3 DEF OInv
  <2> HIDE DEF D
  <2>6. Books(D, owns', fds')
    BY <1>3, <2>1, <2>2, <2>5, CloseBooks
  <2> QED
    BY <1>3, <2>3, <2>4, <2>6, OwnsPrimed DEF OInv, D
<1>12. CASE Connect(cur)
  <2>1. runs' = runs /\ left' = [left EXCEPT ![cur] = @ - 1]
    BY <1>12 DEF Connect
  <2>2. CASE waits' = waits /\ ((fds' = fds /\ owns' = owns) \/ OpenedFor(cur))
    BY <1>5, <2>1, <2>2
  <2>3. ASSUME NEW fd \in Fds \ fds, fds' = fds \cup {fd}, owns' = owns,
               Park(OnFd(cur, fd, [eff |-> "connect", fd |-> fd]))
        PROVE  OInv'
    <3> DEFINE x == OnFd(cur, fd, [eff |-> "connect", fd |-> fd])
               P == Pending(runs, waits)
               Q == Pending(runs', waits')
    <3>1. x.fiber = cur /\ x.op.eff = "connect" /\ x.op.fd = fd
      BY DEF OnFd
    <3>2. waits' = Append(waits, x)
      BY <2>3 DEF Park
    <3> HIDE DEF x
    <3>3. Q = P \cup {x}
      BY <1>3, <2>1, <3>2, PendingAdds
    <3>4. WellSent(P) /\ Books(Dials(P), owns, fds)
      BY DEF OInv
    <3> HIDE DEF P, Q
    <3>5. WellSent(Q)
      BY <3>1, <3>3, <3>4 DEF WellSent
    <3>6. Dials(Q) = Dials(P) \cup {<<cur, fd>>}
      <4>1. {y \in Q : y.op.eff = "connect"} = {y \in P : y.op.eff = "connect"} \cup {x}
        BY <3>1, <3>3
      <4> QED
        BY <3>1, <4>1 DEF Dials
    <3>7. Books(Dials(Q), owns', fds')
      BY <2>3, <3>4, <3>6, DialBooks
    <3> QED
      BY <1>2, <1>3, <2>1, <2>3, <3>5, <3>7, OwnsPrimed DEF Q
  <2>4. \/ waits' = waits /\ ((fds' = fds /\ owns' = owns) \/ OpenedFor(cur))
        \/ \E fd \in Fds \ fds : /\ fds' = fds \cup {fd} /\ owns' = owns
                                 /\ Park(OnFd(cur, fd, [eff |-> "connect", fd |-> fd]))
    BY <1>12 DEF Connect, OpenedFor
  <2> QED
    BY <2>2, <2>3, <2>4
<1> QED
  BY <1>4, <1>6, <1>7, <1>8, <1>9, <1>10, <1>11, <1>12 DEF Effect

\* comp.ts, io_run.  Who is next answers, tries again, or ends its connect: in
\* its hands or closed.
LEMMA RunOwns ==
  ASSUME OInv, PInv', Run
  PROVE  OInv'
<1> DEFINE s == runs[1]
           f == s.fiber
           t == Tail(runs)
           A == Pending(runs, waits)
           B == Pending(t, waits)
           Q == Pending(runs', waits')
<1>1. /\ cur = Idle /\ runs # <<>> /\ runs' = t /\ left' = left
      /\ IsSeq(runs) /\ IsSeq(waits) /\ IsSeq(owns) /\ Len(owns) = Len(left)
  BY DEF Run, OInv, PInv, Held, Apart, Line
<1>2. Head(runs) = s
  <2>1. PICK S : runs \in Seq(S)
    BY <1>1 DEF IsSeq
  <2> QED
    BY <1>1, <2>1
<1>3. f \in 1..Len(owns) /\ f # Idle
  <2>1. f \in Names(runs)
    BY <1>1, LeaveLine DEF OInv, PInv, Held, Apart
  <2>2. f \in 1..Len(left) /\ Len(left) \in Nat
    BY <2>1, SeqFacts DEF OInv, PInv, Here, Crowd, Born
  <2> QED
    BY <1>1, <2>2 DEF Idle
<1>4. A = B \cup {s}
  <2>1. Entries(runs) = Entries(t) \cup {s}
    BY <1>1, EntriesTail
  <2> QED
    BY <2>1 DEF Pending
<1>5. \A x \in B : x.fiber # f
  <2>1. Apart(runs, waits, chans, Idle)
    BY <1>1 DEF OInv, PInv, Held
  <2>2. Apart(t, waits, chans, f)
    BY <1>1, <1>3, <2>1, Enters
  <2>3. f \notin Names(t) /\ f \notin Names(waits)
    BY <1>3, <2>2 DEF Apart
  <2> QED
    BY <2>3, NotListed DEF Pending
<1>6. WellSent(A) /\ Books(Dials(A), owns, fds)
  BY DEF OInv
<1>7. IsSeq(t)
  BY <1>1, TailSeq
<1>8. \/ s.op = NoOp /\ waits' = waits /\ owns' = owns /\ fds' = fds
      \/ Attempt(f, s.op)
  BY <1>2 DEF Run
<1>9. Q = Pending(t, waits')
  BY <1>1
<1> HIDE DEF s, f, t, A, Q
<1>10. WellSent(B)
  BY <1>4, <1>6 DEF WellSent
<1>11. CASE s.op.eff # "connect"
  <2>1. Dials(B) = Dials(A)
    BY <1>4, <1>11, SameDials
  <2>2. /\ (fds' = fds /\ owns' = owns) \/ OpenedFor(f)
        /\ waits' = waits \/ \E x : Tame(x) /\ waits' = Append(waits, x)
    <3>1. s.op.eff = "send" => SendOp(s.op)
      BY <1>4, <1>6 DEF WellSent
    <3> QED
      BY <1>8, <1>11, <3>1, AttemptMoves
  <2>3. B \subseteq Q /\ \A x \in Q : x \in B \/ Tame(x)
    <3>1. CASE waits' = waits
      BY <1>9, <3>1
    <3>2. CASE \E x : Tame(x) /\ waits' = Append(waits, x)
      <4>1. PICK x : Tame(x) /\ waits' = Append(waits, x)
        BY <3>2
      <4>2. Q = B \cup {x}
        BY <1>1, <1>7, <1>9, <4>1, PendingAdds
      <4> QED
        BY <4>1, <4>2
    <3> QED
      BY <2>2, <3>1, <3>2
  <2> HIDE DEF B
  <2>4. Dials(Q) = Dials(A) /\ WellSent(Q)
    BY <1>10, <2>1, <2>3, TameGrows
  <2>5. Books(Dials(Q), owns', fds') /\ IsSeq(owns') /\ Len(owns') = Len(owns)
    BY <1>1, <1>3, <1>6, <2>2, <2>4, HandsMove
  <2> QED
    BY <1>1, <2>4, <2>5, OwnsPrimed DEF Q
<1>12. CASE s.op.eff = "connect"
  <2> DEFINE fd == s.op.fd
             D == Dials(A)
             E == Dials(B)
  <2>1. EndConnect(f, s.op)
    <3>1. NoOp.eff = "none"
      BY DEF NoOp
    <3> QED
      BY <1>8, <1>12, <3>1 DEF Attempt
  <2>2. /\ waits' = waits
        /\ \/ owns' = Replaced(owns, f, owns[f] \cup {fd}) /\ fds' = fds
           \/ owns' = owns /\ fds' = fds \ {fd}
    BY <2>1 DEF EndConnect, Handed, Replaced
  <2>3. D = E \cup {<<f, fd>>}
    <3>1. {y \in A : y.op.eff = "connect"} = {y \in B : y.op.eff = "connect"} \cup {s}
      BY <1>4, <1>12
    <3>2. f = s.fiber
      BY DEF f
    <3> QED
      BY <3>1, <3>2 DEF Dials
  <2>4. \A q \in E : q[1] # f
    BY <1>5 DEF Dials
  <2>5. Q = B
    BY <1>9, <2>2
  <2>6. IsSeq(owns') /\ Len(owns') = Len(owns)
    BY <1>1, <1>3, <2>2, Hands
  <2>7. Books(D, owns, fds)
    BY <1>6
  <2> HIDE DEF B, D, E, fd
  <2>8. ASSUME owns' = Replaced(owns, f, owns[f] \cup {fd}), fds' = fds
        PROVE  Books(E, owns', fds')
    BY <1>1, <1>3, <2>3, <2>4, <2>7, <2>8, DialedBooks
  <2>9. ASSUME owns' = owns, fds' = fds \ {fd}
        PROVE  Books(E, owns', fds')
    BY <2>3, <2>4, <2>7, <2>9, FailedBooks
  <2>10. Books(E, owns', fds')
    BY <2>2, <2>8, <2>9
  <2> QED
    BY <1>1, <1>10, <2>5, <2>6, <2>10, OwnsPrimed DEF Q, E
<1> QED
  BY <1>11, <1>12

\* comp.ts, io_wait.  Polling changes no effect that is interrupted.
LEMMA PollOwns ==
  ASSUME OInv, PInv', Poll
  PROVE  OInv'
<1>1. /\ runs = <<>> /\ left' = left /\ owns' = owns /\ fds' = fds
  BY DEF Poll
<1>2. IsSeq(waits) /\ Line(waits) /\ DOMAIN waits = 1..Len(waits)
  BY SeqFacts DEF OInv, PInv, Held, Apart, Line
<1>3. PICK I \in SUBSET (DOMAIN waits) :
        /\ runs' = [i \in DOMAIN Picked(waits, I) |-> Retry(Picked(waits, I)[i])]
        /\ waits' = Picked(waits, (DOMAIN waits) \ I)
  BY PollPicks
<1> DEFINE fired == Picked(waits, I)
           t == [i \in 1..Len(fired) |-> Retry(fired[i])]
           P == Pending(runs, waits)
           Q == Pending(runs', waits')
           R == Entries(t)
           F == {waits[i] : i \in I}
           W == {waits[i] : i \in (1..Len(waits)) \ I}
<1>4. Line(fired) /\ Entries(fired) = F
  BY <1>2, <1>3, PickedLine
<1>5. Entries(waits') = W
  <2>1. (1..Len(waits)) \ I \subseteq 1..Len(waits)
    OBVIOUS
  <2> QED
    BY <1>2, <1>3, <2>1, PickedLine
<1>6. DOMAIN fired = 1..Len(fired) /\ Len(fired) \in Nat
  BY <1>4, SeqFacts DEF Line
<1>7. runs' = t
  BY <1>3, <1>6
<1>8. Len(t) = Len(fired) /\ \A i \in 1..Len(fired) : t[i] = Retry(fired[i])
  <2>1. t = [i \in 1..Len(fired) |-> t[i]] /\ \A i \in 1..Len(fired) : t[i] = Retry(fired[i])
    OBVIOUS
  <2> HIDE DEF t
  <2> QED
    BY <1>6, <2>1, ListIsSeq
<1>9. P = F \cup W
  <2>1. Entries(runs) = {}
    BY <1>1, EmptyIsSeq, SeqFacts DEF Entries
  <2>2. Entries(waits) = F \cup W
    BY <1>2 DEF Entries
  <2> QED
    BY <2>1, <2>2 DEF Pending
<1>10. Q = R \cup W
  BY <1>5, <1>7 DEF Pending
<1> HIDE DEF t, fired, F, W
<1>11. /\ \A x \in F : \E y \in R : y.fiber = x.fiber /\ y.op = x.op
       /\ \A y \in R : \E x \in F : y.fiber = x.fiber /\ y.op = x.op
  <2>1. \A x : Retry(x).fiber = x.fiber /\ Retry(x).op = x.op
    BY DEF Retry
  <2>2. \A i \in 1..Len(fired) : t[i] \in R /\ fired[i] \in F
    BY <1>4, <1>8 DEF Entries
  <2>3. \A x \in F : \E i \in 1..Len(fired) : x = fired[i]
    BY <1>4 DEF Entries
  <2>4. \A y \in R : \E i \in 1..Len(fired) : y = t[i]
    BY <1>8 DEF Entries
  <2> HIDE DEF R
  <2> QED
    BY <1>8, <2>1, <2>2, <2>3, <2>4
<1>12. WellSent(P) /\ Books(Dials(P), owns, fds) /\ IsSeq(owns) /\ Len(owns) = Len(left)
  BY DEF OInv
<1> HIDE DEF R, P, Q
<1>13. /\ \A x \in P : \E y \in Q : y.fiber = x.fiber /\ y.op = x.op
       /\ \A y \in Q : \E x \in P : y.fiber = x.fiber /\ y.op = x.op
  BY <1>9, <1>10, <1>11
<1>14. Dials(Q) = Dials(P) /\ WellSent(Q)
  BY <1>12, <1>13, SameAsked
<1> QED
  BY <1>1, <1>12, <1>14, OwnsPrimed DEF Q

\* comp.ts, io_run.  Every step of the loop.
LEMMA OwnsNext ==
  ASSUME OInv, [Next]_fvars
  PROVE  OInv'
<1>1. PInv'
  BY PlacesNext DEF OInv
<1>2. CASE Effect
  BY <1>1, <1>2, EffectOwns
<1>3. CASE Run
  BY <1>1, <1>3, RunOwns
<1>4. CASE Poll
  BY <1>1, <1>4, PollOwns
<1>5. CASE Emit \/ Throw \/ Halt \/ Finish \/ Deadlock \/ Tick \/ UNCHANGED fvars
  <2>1. /\ runs' = runs /\ waits' = waits /\ left' = left /\ owns' = owns /\ fds' = fds
    BY <1>5 DEF Emit, Throw, Halt, Finish, Deadlock, Tick, Others, fvars
  <2> QED
    BY <1>1, <2>1, OwnsPrimed DEF OInv
<1> QED
  BY <1>2, <1>3, <1>4, <1>5 DEF Next, Loop

\* At the start nothing is open.
LEMMA OwnsInit ==
  ASSUME Init, PInv
  PROVE  OInv
<1> DEFINE x == Ready(Main, Unit)
           P == Pending(runs, waits)
<1>1. runs = Append(<<>>, x) /\ waits = <<>> /\ fds = {} /\ owns = <<{}>> /\ left = <<Asks>>
  BY DEF Init
<1>2. Tame(x)
  BY ReadyTame
<1> HIDE DEF x
<1>3. Entries(<<>>) = {} /\ IsSeq(<<>>)
  BY EmptyIsSeq, SeqFacts DEF Entries
<1>4. P = {x}
  <2>1. Entries(Append(<<>>, x)) = Entries(<<>>) \cup {x}
    BY <1>3, EntriesAppend
  <2>2. Entries(runs) = {x} /\ Entries(waits) = {}
    BY <1>1, <1>3, <2>1
  <2> QED
    BY <2>2 DEF Pending
<1>5. IsSeq(owns) /\ Len(owns) = 1 /\ owns[1] = {} /\ Len(left) = 1
  <2>1. <<{}>> \in Seq({{}}) /\ Len(<<{}>>) = 1 /\ <<{}>>[1] = {} /\ Len(<<Asks>>) = 1
    OBVIOUS
  <2>2. IsSeq(owns)
    BY <1>1, <2>1 DEF IsSeq
  <2> QED
    BY <1>1, <2>1, <2>2
<1>6. WellSent(P) /\ Dials(P) = {}
  BY <1>2, <1>4 DEF WellSent, Dials, Tame
<1>7. \A f \in 1..Len(owns) : owns[f] = {}
  <2>1. 1..1 = {1}
    OBVIOUS
  <2> QED
    BY <1>5, <2>1
<1>8. Books({}, owns, fds)
  BY <1>1, <1>7 DEF Books
<1> QED
  BY <1>5, <1>6, <1>8 DEF OInv

\* The descriptors open in the process are those that computations have in
\* their hands and the sockets that still connect, and no two have one
\* (tcp_connect, tcp_accept, tcp_listen, the files and their closing).
THEOREM NothingLeaks == Spec => []DescriptorsOwned
<1>1. Init => OInv
  BY RowsInit, PlacesInit, OwnsInit
<1>2. OInv /\ [Next]_fvars => OInv'
  BY OwnsNext
<1>3. OInv => DescriptorsOwned
  <2> SUFFICES ASSUME OInv PROVE DescriptorsOwned
    OBVIOUS
  <2> DEFINE P == Pending(runs, waits)
             D == Dials(P)
  <2>1. ToSet(waits) \cup ToSet(runs) = P
    <3>1. DOMAIN waits = 1..Len(waits) /\ DOMAIN runs = 1..Len(runs)
      BY SeqFacts DEF OInv, PInv, Held, Apart, Line
    <3> QED
      BY <3>1 DEF ToSet, Pending, Entries
  <2>2. Connecting = {w.op.fd : w \in {x \in P : x.op.eff = "connect"}}
    BY <2>1 DEF Connecting
  <2>3. Books(D, owns, fds) /\ Born = 1..Len(owns)
    BY DEF OInv, Born
  <2> HIDE DEF P
  <2>4. \A fd : fd \in Connecting <=> \E p \in D : p[2] = fd
    <3>1. \A fd : fd \in Connecting <=> \E w \in {x \in P : x.op.eff = "connect"} : w.op.fd = fd
      BY <2>2
    <3>2. \A w \in {x \in P : x.op.eff = "connect"} :
            <<w.fiber, w.op.fd>> \in D /\ <<w.fiber, w.op.fd>>[2] = w.op.fd
      BY DEF Dials
    <3>3. \A p \in D : \E w \in {x \in P : x.op.eff = "connect"} : p[2] = w.op.fd
      BY DEF Dials
    <3> HIDE DEF D
    <3> QED
      BY <3>1, <3>2, <3>3
  <2> HIDE DEF D
  <2>5. fds = Connecting \cup UNION {owns[f] : f \in Born}
    BY <2>3, <2>4 DEF Books
  <2>6. \A f, g \in Born : f # g => owns[f] \cap owns[g] = {}
    BY <2>3 DEF Books
  <2>7. \A f \in Born : owns[f] \cap Connecting = {}
    BY <2>3, <2>4 DEF Books
  <2> QED
    BY <2>5, <2>6, <2>7 DEF DescriptorsOwned
<1> QED
  BY <1>1, <1>2, <1>3, PTL DEF Spec
==============================================================================
