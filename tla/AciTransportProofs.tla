-------------------------- MODULE AciTransportProofs --------------------------
(***************************************************************************)
(* That the transport loses, repeats and reorders nothing, and that no     *)
(* transfer meets a full queue, proved for any number of commands and      *)
(* events, with the interrupt routine between any two steps, as long as    *)
(* the byte indices of the queues have not wrapped. (Once they have, the   *)
(* test for full fails: MCAciWrap.)                                        *)
(*                                                                         *)
(* The invariant has a part for each queue, which says what is in each of  *)
(* its slots while the program is halfway through an operation on it, and  *)
(* a part on the interrupt: while it is attached there is room, which is   *)
(* why the one step that attaches it must know that the event it has taken *)
(* out has made room, and that nothing has come in since.                  *)
(***************************************************************************)
EXTENDS AciTransport, SequenceTheorems, TLAPS

NoWrap ==
    \A age \in Ages : age + MaxCommands <= 255 /\ age + MaxEvents <= 255

(* The queue's window, of at most four packets; base is its age.           *)
Window(q, base, in, out) ==
    /\ base \in Ages
    /\ q.head = base + out /\ q.tail = base + in
    /\ q.head <= q.tail /\ q.tail <= q.head + 4

(* Packets are numbered from base on, and each is in its slot.             *)
Slots(q, base) == \A k \in Index : q.head <= k /\ k < q.tail => q.data[k % 4] = k - base + 1

CommandsInv ==
    /\ Window(tx, tx.tail - sent, sent, Len(heard))
    /\ Slots(tx, tx.tail - sent)
    /\ heard = [i \in 1..Len(heard) |-> i]
    /\ pc \in {"store", "push"} => tx.tail < tx.head + 4 /\ sent < MaxCommands
    /\ pc = "push" => tx.data[tx.tail % 4] = sent + 1

EventsInv ==
    /\ Window(rx, rx.tail - fetched, fetched, Len(delivered))
    /\ Slots(rx, rx.tail - fetched)
    /\ delivered = [i \in 1..Len(delivered) |-> i]
    /\ fetched <= made
    /\ pc \in {"copy", "advance"} => rx.head < rx.tail
    /\ pc = "advance" => packet = Len(delivered) + 1

(* Between was_full and attaching nothing comes in, if it was full.        *)
AttachInv ==
    /\ ~ spinning
    /\ attached => interrupt /\ rx.tail < rx.head + 4
    /\ interrupt /\ wasFull /\ pc \in {"dequeue", "copy", "advance", "attach"} => ~ attached
    /\ interrupt /\ wasFull /\ pc = "attach" => rx.tail < rx.head + 4

Inv == TypeOK /\ CommandsInv /\ EventsInv /\ AttachInv

-----------------------------------------------------------------------------
(* The queue                                                               *)

LEMMA SlotOf == ASSUME NEW k \in Index PROVE k % 4 \in 0..3
BY DEF Index

LEMMA SlotIsFree ==
    ASSUME NEW head \in Index, NEW tail \in Index, NEW k \in Index,
           head <= k, k < tail, tail < head + 4
    PROVE  k % 4 # tail % 4
BY DEF Index

LEMMA NotEmpty ==
    ASSUME NEW head \in Index, NEW tail \in Index, head <= tail
    PROVE  head # tail => head < tail /\ head < 255
BY DEF Index

LEMMA NumberOfOldest ==
    ASSUME NEW head \in Index, NEW tail \in Index, head < tail,
           NEW max \in Nat, NEW in \in 0..max, NEW out \in Nat, head = tail - in + out
    PROVE  out + 1 \in 1..max
<1>1. head \in Nat /\ tail \in Nat
  BY DEF Index
<1> QED
  BY <1>1

LEMMA NotFull ==
    ASSUME NEW head \in Index, NEW tail \in Index, tail <= head + 4, tail # head + 4
    PROVE  tail < head + 4
BY DEF Index

LEMMA SameAge ==
    ASSUME NEW tail \in Index, NEW in \in Nat, NEW newTail, NEW newIn,
           newTail = tail + 1, newIn = in + 1
    PROVE  newTail - newIn = tail - in
BY DEF Index

(* A packet goes in, or one goes out, and the age is what it was.          *)
LEMMA OneIn ==
    ASSUME NEW head \in Index, NEW tail \in Index, NEW in \in Nat, tail - in \in Nat,
           head <= tail, tail < head + 4
    PROVE  /\ tail + 1 - (in + 1) = tail - in
           /\ tail + 1 = tail - in + (in + 1)
           /\ head <= tail + 1 /\ head < tail + 1 /\ tail + 1 <= head + 4
           /\ in + 1 = tail - (tail - in) + 1
BY DEF Index

LEMMA OneOut ==
    ASSUME NEW head \in Index, NEW tail \in Index, NEW base \in Nat, NEW out \in Nat,
           head = base + out, head < tail, tail <= head + 4
    PROVE  /\ head + 1 = base + (out + 1)
           /\ head + 1 <= tail /\ tail < head + 1 + 4 /\ tail <= head + 1 + 4
BY DEF Index

(* What the indices count: all that came in has gone out, or is between,   *)
(* each packet in its place.                                               *)
LEMMA CountBetween ==
    ASSUME NEW head \in Index, NEW tail \in Index, NEW in \in Nat, NEW out \in Nat,
           tail - in \in Nat, head = tail - in + out, head <= tail,
           NEW count, count = (tail - head) % 256
    PROVE  /\ in = out + count
           /\ \A i \in 0..count - 1 : \A k, base : k = head + i /\ base = tail - in =>
                 k \in Index /\ head <= k /\ k < tail /\ k - base + 1 = out + i + 1
<1>1. head \in 0..255 /\ tail \in 0..255
  BY DEF Index
<1>2. count = tail - head /\ count \in 0..255
  <2> DEFINE n == tail - head
  <2>1. n \in 0..255
    BY <1>1
  <2> HIDE DEF n
  <2>2. n % 256 = n
    BY <2>1
  <2> QED
    BY <2>1, <2>2 DEF n
<1>3. in = out + count
  BY <1>1, <1>2
<1>4. ASSUME NEW i \in 0..count - 1, NEW k, NEW base, k = head + i, base = tail - in
      PROVE  k \in Index /\ head <= k /\ k < tail /\ k - base + 1 = out + i + 1
  BY <1>1, <1>2, <1>3, <1>4 DEF Index
<1> QED
  BY <1>3, <1>4

LEMMA Stored ==
    ASSUME NEW P, NEW q, IsQueueOf(q, P), NEW p \in P
    PROVE  /\ IsQueueOf(Store(q, p), P)
           /\ Store(q, p).head = q.head /\ Store(q, p).tail = q.tail
           /\ Store(q, p).data[q.tail % 4] = p
           /\ \A s \in 0..3 : s # q.tail % 4 => Store(q, p).data[s] = q.data[s]
<1>1. q.tail % 4 \in 0..3
  BY SlotOf DEF IsQueueOf
<1> QED
  BY <1>1 DEF IsQueueOf, Store, ACI_QUEUE_SIZE

LEMMA Pushed ==
    ASSUME NEW P, NEW q, IsQueueOf(q, P), q.tail < 255
    PROVE  /\ IsQueueOf(Push(q), P)
           /\ Push(q).head = q.head /\ Push(q).tail = q.tail + 1 /\ Push(q).data = q.data
<1>1. (q.tail + 1) % 256 = q.tail + 1 /\ q.tail + 1 \in Index
  <2>1. q.tail \in 0..254
    BY DEF IsQueueOf, Index
  <2> QED
    BY <2>1 DEF Index
<1>2. Push(q) = [data |-> q.data, head |-> q.head, tail |-> q.tail + 1]
  BY <1>1 DEF IsQueueOf, Push
<1> QED
  BY <1>1, <1>2 DEF IsQueueOf

LEMMA Popped ==
    ASSUME NEW P, NEW q, IsQueueOf(q, P), q.head < 255
    PROVE  /\ IsQueueOf(Pop(q), P)
           /\ Pop(q).head = q.head + 1 /\ Pop(q).tail = q.tail /\ Pop(q).data = q.data
<1>1. (q.head + 1) % 256 = q.head + 1 /\ q.head + 1 \in Index
  <2>1. q.head \in 0..254
    BY DEF IsQueueOf, Index
  <2> QED
    BY <2>1 DEF Index
<1>2. Pop(q) = [data |-> q.data, head |-> q.head + 1, tail |-> q.tail]
  BY <1>1 DEF IsQueueOf, Pop
<1> QED
  BY <1>1, <1>2 DEF IsQueueOf

(* A packet is put into a slot that holds none of the others.              *)
LEMMA SlotsStored ==
    ASSUME NEW P, NEW q, IsQueueOf(q, P), NEW p \in P, NEW base,
           Slots(q, base), q.tail < q.head + 4
    PROVE  Slots(Store(q, p), base)
<1>1. q.head \in Index /\ q.tail \in Index /\ q.tail < q.head + 4
  BY DEF IsQueueOf
<1> DEFINE stored == Store(q, p)
<1>2. /\ stored.head = q.head /\ stored.tail = q.tail
      /\ \A s \in 0..3 : s # q.tail % 4 => stored.data[s] = q.data[s]
  BY Stored
<1> HIDE DEF stored
<1>3. ASSUME NEW k \in Index, stored.head <= k, k < stored.tail
      PROVE  stored.data[k % 4] = k - base + 1
  <2>1. q.head <= k /\ k < q.tail
    BY <1>2, <1>3
  <2>2. k % 4 \in 0..3
    BY SlotOf
  <2>3. k % 4 # q.tail % 4
    BY <1>1, <2>1, SlotIsFree
  <2>4. q.data[k % 4] = k - base + 1
    BY <2>1, Zenon DEF Slots
  <2> QED
    BY <1>2, <2>2, <2>3, <2>4, Zenon
<1>4. Slots(stored, base)
  BY <1>3, Zenon DEF Slots
<1> QED
  BY <1>4 DEF stored

(* A packet counts, or the oldest one no longer does.                      *)
LEMMA SlotsMoved ==
    ASSUME NEW P, NEW q, IsQueueOf(q, P), NEW base \in Nat, Slots(q, base)
    PROVE  /\ q.tail < 255 /\ q.data[q.tail % 4] = q.tail - base + 1 => Slots(Push(q), base)
           /\ q.head < 255 => Slots(Pop(q), base)
<1>1. q.head \in Index /\ q.tail \in Index
  BY DEF IsQueueOf
<1>2. ASSUME q.tail < 255, q.data[q.tail % 4] = q.tail - base + 1
      PROVE  Slots(Push(q), base)
  <2>1. SUFFICES ASSUME NEW k \in Index, q.head <= k, k < q.tail + 1
                 PROVE  q.data[k % 4] = k - base + 1
    BY <1>2, Pushed DEF Slots
  <2>2. k = q.tail \/ k < q.tail
    BY <1>1, <2>1 DEF Index
  <2> QED
    BY <1>2, <2>1, <2>2 DEF Slots
<1>3. ASSUME q.head < 255 PROVE Slots(Pop(q), base)
  <2>1. SUFFICES ASSUME NEW k \in Index, q.head + 1 <= k, k < q.tail
                 PROVE  q.data[k % 4] = k - base + 1
    BY <1>3, Popped DEF Slots
  <2>2. q.head <= k
    BY <1>1, <2>1 DEF Index
  <2> QED
    BY <2>1, <2>2 DEF Slots
<1> QED
  BY <1>2, <1>3

-----------------------------------------------------------------------------
(* What the invariant says of the indices                                  *)

LEMMA TxIndices ==
    ASSUME NoWrap, TypeOK, CommandsInv
    PROVE  /\ tx.tail - sent \in Nat /\ tx.head \in Index /\ tx.tail \in Index
           /\ sent \in 0..MaxCommands /\ Len(heard) \in Nat /\ heard \in Seq(Command)
           /\ tx.head = tx.tail - sent + Len(heard)
           /\ tx.head <= tx.tail /\ tx.tail <= tx.head + 4
           /\ sent < MaxCommands => tx.tail < 255
           /\ tx.head # tx.tail => tx.head < tx.tail /\ tx.head < 255
<1> DEFINE base == tx.tail - sent
<1>1. /\ base \in Ages /\ tx.head = base + Len(heard) /\ tx.tail = base + sent
      /\ tx.head <= tx.tail /\ tx.tail <= tx.head + 4
  BY DEF CommandsInv, Window
<1>2. /\ tx.head \in Index /\ tx.tail \in Index
      /\ sent \in 0..MaxCommands /\ heard \in Seq(Command)
  BY DEF TypeOK, IsQueueOf
<1>3. base \in Index /\ base + MaxCommands <= 255
  BY <1>1, BoundsAssumption DEF NoWrap
<1>4. Len(heard) \in Nat
  BY <1>2
<1> HIDE DEF base
<1>5. base \in Nat
  BY <1>3 DEF Index
<1>6. sent < MaxCommands => tx.tail < 255
  BY <1>1, <1>2, <1>3, <1>5, BoundsAssumption
<1>7. tx.head # tx.tail => tx.head < tx.tail /\ tx.head < 255
  BY <1>1, <1>2, NotEmpty
<1> QED
  BY <1>1, <1>2, <1>4, <1>5, <1>6, <1>7 DEF base

LEMMA RxIndices ==
    ASSUME NoWrap, TypeOK, EventsInv
    PROVE  /\ rx.tail - fetched \in Nat /\ rx.head \in Index /\ rx.tail \in Index
           /\ fetched \in 0..MaxEvents /\ made \in 0..MaxEvents
           /\ Len(delivered) \in Nat /\ delivered \in Seq(Event)
           /\ rx.head = rx.tail - fetched + Len(delivered)
           /\ rx.head <= rx.tail /\ rx.tail <= rx.head + 4
           /\ fetched < made => fetched + 1 \in Event /\ rx.tail < 255
           /\ rx.head # rx.tail => rx.head < rx.tail /\ rx.head < 255
<1> DEFINE base == rx.tail - fetched
<1>1. /\ base \in Ages /\ rx.head = base + Len(delivered) /\ rx.tail = base + fetched
      /\ rx.head <= rx.tail /\ rx.tail <= rx.head + 4 /\ fetched <= made
  BY DEF EventsInv, Window
<1>2. /\ rx.head \in Index /\ rx.tail \in Index /\ fetched \in 0..MaxEvents
      /\ made \in 0..MaxEvents /\ delivered \in Seq(Event)
  BY DEF TypeOK, IsQueueOf
<1>3. base \in Index /\ base + MaxEvents <= 255
  BY <1>1, BoundsAssumption DEF NoWrap
<1>4. Len(delivered) \in Nat
  BY <1>2
<1> HIDE DEF base
<1>5. base \in Nat
  BY <1>3 DEF Index
<1>6. fetched < made => fetched + 1 \in Event /\ rx.tail < 255
  BY <1>1, <1>2, <1>3, <1>5, BoundsAssumption DEF Event
<1>7. rx.head # rx.tail => rx.head < rx.tail /\ rx.head < 255
  BY <1>1, <1>2, NotEmpty
<1> QED
  BY <1>1, <1>2, <1>4, <1>5, <1>6, <1>7 DEF base

LEMMA OldestCommand ==
    ASSUME NoWrap, TypeOK, CommandsInv, ~ IsEmpty(tx)
    PROVE  First(tx) = Len(heard) + 1 /\ First(tx) \in Command
<1>1. tx.head < tx.tail /\ tx.tail - sent \in Nat
  BY TxIndices DEF IsEmpty
<1>2. tx.data[tx.head % 4] = tx.head - (tx.tail - sent) + 1
  <2>1. tx.head \in Index /\ tx.head <= tx.head
    BY TxIndices DEF Index
  <2> QED
    BY <1>1, <2>1, Zenon DEF CommandsInv, Slots
<1>3. First(tx) = Len(heard) + 1
  BY <1>2, TxIndices DEF First, ACI_QUEUE_SIZE, Index
<1>4. Len(heard) + 1 \in Command
  <2>1. /\ tx.head \in Index /\ tx.tail \in Index /\ tx.head < tx.tail
        /\ tx.head = tx.tail - sent + Len(heard) /\ Len(heard) \in Nat /\ sent \in 0..MaxCommands
    BY <1>1, TxIndices
  <2>2. MaxCommands \in Nat
    BY BoundsAssumption
  <2> QED
    BY <2>1, <2>2, NumberOfOldest DEF Command
<1> QED
  BY <1>3, <1>4

LEMMA OldestEvent ==
    ASSUME NoWrap, TypeOK, EventsInv, rx.head < rx.tail
    PROVE  First(rx) = Len(delivered) + 1 /\ First(rx) \in Event
<1>1. rx.data[rx.head % 4] = rx.head - (rx.tail - fetched) + 1
  <2>1. rx.head \in Index /\ rx.head <= rx.head
    BY RxIndices DEF Index
  <2> QED
    BY <2>1, Zenon DEF EventsInv, Slots
<1>2. First(rx) = Len(delivered) + 1
  BY <1>1, RxIndices DEF First, ACI_QUEUE_SIZE, Index
<1>3. Len(delivered) + 1 \in Event
  <2>1. /\ rx.head \in Index /\ rx.tail \in Index /\ rx.head < rx.tail
        /\ rx.head = rx.tail - fetched + Len(delivered) /\ Len(delivered) \in Nat /\ fetched \in 0..MaxEvents
    BY RxIndices
  <2>2. MaxEvents \in Nat
    BY BoundsAssumption
  <2> QED
    BY <2>1, <2>2, NumberOfOldest DEF Event
<1> QED
  BY <1>2, <1>3

LEMMA Numbered ==
    ASSUME NEW S, NEW s \in Seq(S), s = [i \in 1..Len(s) |-> i], Len(s) + 1 \in S,
           NEW t, t = Append(s, Len(s) + 1)
    PROVE  t \in Seq(S) /\ Len(t) = Len(s) + 1 /\ t = [i \in 1..Len(t) |-> i]
<1>1. t \in Seq(S) /\ Len(t) = Len(s) + 1
  OBVIOUS
<1>2. /\ t[Len(s) + 1] = Len(s) + 1
      /\ \A i \in 1..Len(s) : t[i] = s[i] /\ s[i] = i
  OBVIOUS
<1>3. \A i \in 1..Len(t) : t[i] = i
  BY <1>1, <1>2
<1>4. t = [i \in 1..Len(t) |-> t[i]]
  BY <1>1
<1> QED
  BY <1>1, <1>3, <1>4

-----------------------------------------------------------------------------
(* The operations on the queues                                            *)

LEMMA StoreCommand ==
    ASSUME NoWrap, Inv, SendStore
    PROVE  IsQueueOf(tx', Command) /\ CommandsInv'
<1>1. /\ pc = "store" /\ pc' = "push" /\ tx' = Store(tx, sent + 1)
      /\ UNCHANGED <<sent, heard>>
  BY DEF SendStore, Step, chip
<1>2. /\ TypeOK /\ CommandsInv /\ IsQueueOf(tx, Command)
      /\ tx.tail < tx.head + 4 /\ sent < MaxCommands
  BY <1>1 DEF Inv, TypeOK, CommandsInv
<1>3. sent + 1 \in Command
  BY <1>2, TxIndices, BoundsAssumption DEF Command
<1>4. /\ IsQueueOf(tx', Command) /\ tx'.head = tx.head /\ tx'.tail = tx.tail
      /\ tx'.data[tx.tail % 4] = sent + 1
  BY <1>1, <1>2, <1>3, Stored
<1>5. Slots(tx', tx.tail - sent)
  BY <1>1, <1>2, <1>3, SlotsStored DEF CommandsInv
<1> QED
  BY <1>1, <1>2, <1>4, <1>5 DEF CommandsInv, Window

LEMMA PushCommand ==
    ASSUME NoWrap, Inv, SendPush
    PROVE  IsQueueOf(tx', Command) /\ sent' \in 0..MaxCommands /\ CommandsInv'
<1>1. /\ pc = "push" /\ pc' = "request" /\ tx' = Push(tx)
      /\ sent' = sent + 1 /\ heard' = heard
  BY DEF SendPush, Step, chip
<1>2. /\ TypeOK /\ CommandsInv /\ IsQueueOf(tx, Command)
      /\ tx.tail < tx.head + 4 /\ sent < MaxCommands /\ tx.data[tx.tail % 4] = sent + 1
  BY <1>1 DEF Inv, TypeOK, CommandsInv
<1>3. sent + 1 \in 0..MaxCommands /\ sent \in Nat
  BY <1>2, TxIndices, BoundsAssumption
<1>4. /\ tx.tail < 255 /\ tx.head \in Index /\ tx.tail \in Index
      /\ tx.tail - sent \in Nat /\ tx.head <= tx.tail
  BY <1>2, TxIndices
<1>5. /\ tx.tail + 1 - (sent + 1) = tx.tail - sent
      /\ tx.tail + 1 = tx.tail - sent + (sent + 1)
      /\ tx.head <= tx.tail + 1 /\ tx.tail + 1 <= tx.head + 4
      /\ sent + 1 = tx.tail - (tx.tail - sent) + 1
  BY <1>2, <1>3, <1>4, OneIn
<1>6. IsQueueOf(tx', Command) /\ tx'.head = tx.head /\ tx'.tail = tx.tail + 1
  BY <1>1, <1>2, <1>4, Pushed
<1>7. Slots(tx', tx.tail - sent)
  BY <1>1, <1>2, <1>4, <1>5, SlotsMoved DEF CommandsInv
<1>8. Window(tx', tx.tail - sent, sent + 1, Len(heard))
  BY <1>2, <1>5, <1>6 DEF CommandsInv, Window
<1>9. tx'.tail - sent' = tx.tail - sent
  BY <1>1, <1>3, <1>4, <1>6, SameAge
<1>10. CommandsInv'
  BY <1>1, <1>2, <1>7, <1>8, <1>9 DEF CommandsInv
<1> QED
  BY <1>1, <1>3, <1>6, <1>10

(* A transfer makes room in tx, also while the program is about to fill it. *)
LEMMA CommandTransferred ==
    ASSUME NoWrap, Inv, TransferCommand, sent' = sent, pc' = pc \/ pc' \in {"idle", "get"}
    PROVE  IsQueueOf(tx', Command) /\ heard' \in Seq(Command) /\ CommandsInv'
<1>1. TypeOK /\ CommandsInv /\ IsQueueOf(tx, Command) /\ heard \in Seq(Command)
  BY DEF Inv, TypeOK
<1>2. CASE IsEmpty(tx)
  BY <1>1, <1>2 DEF TransferCommand, CommandsInv
<1>3. CASE ~ IsEmpty(tx)
  <2>1. tx' = Pop(tx) /\ heard' = Append(heard, First(tx))
    BY <1>3 DEF TransferCommand
  <2>2. First(tx) = Len(heard) + 1 /\ First(tx) \in Command
    BY <1>1, <1>3, OldestCommand
  <2>3. /\ heard' \in Seq(Command) /\ Len(heard') = Len(heard) + 1
        /\ heard' = [i \in 1..Len(heard') |-> i]
    BY <1>1, <2>1, <2>2, Numbered DEF CommandsInv
  <2>4. /\ tx.head \in Index /\ tx.tail \in Index /\ tx.tail - sent \in Nat
        /\ Len(heard) \in Nat /\ tx.head = tx.tail - sent + Len(heard)
        /\ tx.head < tx.tail /\ tx.head < 255 /\ tx.tail <= tx.head + 4
    BY <1>1, <1>3, TxIndices DEF IsEmpty
  <2>5. /\ IsQueueOf(tx', Command) /\ tx'.head = tx.head + 1 /\ tx'.tail = tx.tail
        /\ tx'.data = tx.data
    BY <1>1, <2>1, <2>4, Popped
  <2>6. /\ tx.head + 1 = tx.tail - sent + (Len(heard) + 1)
        /\ tx.head + 1 <= tx.tail /\ tx.tail < tx.head + 1 + 4 /\ tx.tail <= tx.head + 1 + 4
    BY <2>4, OneOut
  <2>7. Slots(tx', tx.tail - sent)
    BY <1>1, <2>1, <2>4, SlotsMoved DEF CommandsInv
  <2> QED
    BY <1>1, <2>3, <2>5, <2>6, <2>7 DEF CommandsInv, Window
<1> QED
  BY <1>2, <1>3

(* What an event that comes in changes: nothing at all, or the newest slot. *)
LEMMA EventTransferred ==
    ASSUME NoWrap, Inv, ~ IsFull(rx), TransferEvent,
           UNCHANGED <<made, delivered, packet>>, pc' = pc \/ pc' \in {"idle", "get"}
    PROVE  /\ IsQueueOf(rx', Event) /\ fetched' \in 0..MaxEvents /\ EventsInv'
           /\ spinning' = FALSE /\ rx'.head = rx.head
           /\ rx' = rx \/ rx'.tail = rx.tail + 1
<1>1. /\ TypeOK /\ EventsInv /\ IsQueueOf(rx, Event) /\ fetched \in 0..MaxEvents
      /\ fetched <= made
  BY DEF Inv, TypeOK, EventsInv
<1>2. spinning' = FALSE
  BY DEF TransferEvent
<1>3. CASE ~ (fetched < made)
  <2>1. rx' = rx /\ fetched' = fetched
    BY <1>3 DEF TransferEvent
  <2> QED
    BY <1>1, <1>2, <2>1 DEF EventsInv
<1>4. CASE fetched < made
  <2> DEFINE stored == Store(rx, fetched + 1)
  <2>1. rx' = Push(stored) /\ fetched' = fetched + 1
    BY <1>4 DEF TransferEvent
  <2>2. /\ fetched + 1 \in Event /\ rx.tail < 255 /\ rx.tail - fetched \in Nat
        /\ rx.head \in Index /\ rx.tail \in Index /\ rx.head <= rx.tail
        /\ rx.tail <= rx.head + 4 /\ fetched \in Nat /\ made \in Nat
    BY <1>1, <1>4, RxIndices
  <2>3. rx.tail < rx.head + 4
    <3>1. rx.tail # rx.head + 4
      BY DEF IsFull, ACI_QUEUE_SIZE
    <3> QED
      BY <2>2, <3>1, NotFull
  <2>4. /\ IsQueueOf(stored, Event) /\ stored.head = rx.head /\ stored.tail = rx.tail
        /\ stored.data[rx.tail % 4] = fetched + 1
    BY <1>1, <2>2, Stored
  <2>5. Slots(stored, rx.tail - fetched)
    BY <1>1, <2>2, <2>3, SlotsStored DEF EventsInv
  <2> HIDE DEF stored
  <2>6. IsQueueOf(rx', Event) /\ rx'.head = rx.head /\ rx'.tail = rx.tail + 1
    BY <2>1, <2>2, <2>4, Pushed
  <2>7. /\ rx.tail + 1 - (fetched + 1) = rx.tail - fetched
        /\ rx.tail + 1 = rx.tail - fetched + (fetched + 1)
        /\ rx.head <= rx.tail + 1 /\ rx.head < rx.tail + 1 /\ rx.tail + 1 <= rx.head + 4
        /\ fetched + 1 = rx.tail - (rx.tail - fetched) + 1
    BY <2>2, <2>3, OneIn
  <2>8. Slots(rx', rx.tail - fetched)
    BY <2>1, <2>2, <2>4, <2>5, <2>7, SlotsMoved
  <2>9. Window(rx', rx.tail - fetched, fetched + 1, Len(delivered))
    BY <1>1, <2>6, <2>7 DEF EventsInv, Window
  <2>10. fetched' <= made /\ fetched' \in 0..MaxEvents
    BY <1>4, <2>1, <2>2, BoundsAssumption DEF Event
  <2>11. rx'.tail - fetched' = rx.tail - fetched
    BY <2>1, <2>2, <2>6, SameAge
  <2>12. rx'.head < rx'.tail
    BY <2>6, <2>7
  <2>13. EventsInv'
    BY <1>1, <2>1, <2>8, <2>9, <2>10, <2>11, <2>12 DEF EventsInv
  <2> QED
    BY <1>2, <2>6, <2>10, <2>13
<1> QED
  BY <1>3, <1>4

(* The event that was copied is the oldest still, and is delivered.        *)
LEMMA EventDelivered ==
    ASSUME NoWrap, Inv, GetAdvance
    PROVE  /\ IsQueueOf(rx', Event) /\ delivered' \in Seq(Event) /\ EventsInv'
           /\ rx'.tail < rx'.head + 4
<1>1. /\ pc = "advance" /\ pc' = "attach" /\ rx' = Pop(rx)
      /\ delivered' = Append(delivered, packet) /\ UNCHANGED <<made, fetched>>
  BY DEF GetAdvance, Step, chip
<1>2. /\ TypeOK /\ EventsInv /\ IsQueueOf(rx, Event) /\ delivered \in Seq(Event)
      /\ packet = Len(delivered) + 1 /\ rx.head < rx.tail
  BY <1>1 DEF Inv, TypeOK, EventsInv
<1>3. packet \in Event
  BY <1>2, OldestEvent
<1>4. /\ Len(delivered') = Len(delivered) + 1 /\ delivered' \in Seq(Event)
      /\ delivered' = [i \in 1..Len(delivered') |-> i]
  BY <1>1, <1>2, <1>3, Numbered DEF EventsInv
<1>5. /\ rx.head \in Index /\ rx.tail \in Index /\ rx.tail - fetched \in Nat
      /\ Len(delivered) \in Nat /\ rx.head = rx.tail - fetched + Len(delivered)
      /\ rx.head < 255 /\ rx.tail <= rx.head + 4
  <2>1. rx.head # rx.tail
    BY <1>2, RxIndices DEF Index
  <2> QED
    BY <1>2, <2>1, RxIndices
<1>6. IsQueueOf(rx', Event) /\ rx'.head = rx.head + 1 /\ rx'.tail = rx.tail
  BY <1>1, <1>2, <1>5, Popped
<1>7. /\ rx.head + 1 = rx.tail - fetched + (Len(delivered) + 1)
      /\ rx.head + 1 <= rx.tail /\ rx.tail < rx.head + 1 + 4 /\ rx.tail <= rx.head + 1 + 4
  BY <1>2, <1>5, OneOut
<1>8. Slots(rx', rx.tail - fetched)
  BY <1>1, <1>2, <1>5, SlotsMoved DEF EventsInv
<1> QED
  BY <1>1, <1>2, <1>4, <1>6, <1>7, <1>8 DEF EventsInv, Window

-----------------------------------------------------------------------------
(* The steps                                                               *)

LEMMA InitInv == NoWrap /\ Init => Inv
<1> SUFFICES ASSUME NoWrap, Init PROVE Inv
  OBVIOUS
<1>1. PICK age \in Ages : tx = EmptyAt(age) /\ rx = EmptyAt(age)
  BY DEF Init
<1>2. age \in 0..255
  BY BoundsAssumption DEF Index
<1>3. /\ tx = rx /\ IsQueueOf(tx, Command) /\ IsQueueOf(rx, Event)
      /\ tx.head = age /\ tx.tail = age /\ rx.head = age /\ rx.tail = age
  BY <1>1, <1>2 DEF EmptyAt, IsQueueOf, Index, NoPacket
<1>4. age - 0 = age /\ age + 0 = age /\ age <= age /\ age <= age + 4 /\ age < age + 4
  BY <1>2
<1>5. heard = <<>> /\ delivered = <<>> /\ Len(heard) = 0 /\ Len(delivered) = 0
  BY DEF Init
<1>6. heard = [i \in 1..0 |-> i] /\ heard \in Seq(Command) /\ delivered \in Seq(Event)
  BY <1>5
<1>7. 0 \in 0..MaxCommands /\ 0 \in 0..MaxEvents /\ 0 <= 0
  BY BoundsAssumption
<1>8. TypeOK
  <2>1. interrupt \in BOOLEAN /\ interrupt \in Interfaces
    BY BoundsAssumption DEF Init
  <2> QED
    BY <1>3, <1>6, <1>7, <2>1, Zenon DEF Init, TypeOK
<1>9. \A k \in Index : ~ (age <= k /\ k < age)
  BY <1>2 DEF Index
<1>10. Slots(tx, age) /\ Slots(rx, age)
  BY <1>3, <1>9 DEF Slots
<1>11. Window(tx, age, 0, 0) /\ Window(rx, age, 0, 0)
  BY <1>1, <1>3, <1>4 DEF Window
<1>12. CommandsInv
  BY <1>3, <1>4, <1>5, <1>6, <1>10, <1>11 DEF Init, CommandsInv
<1>13. EventsInv
  BY <1>3, <1>4, <1>5, <1>6, <1>7, <1>10, <1>11 DEF Init, EventsInv
<1>14. AttachInv
  BY <1>3, <1>4 DEF Init, AttachInv
<1> QED
  BY <1>8, <1>12, <1>13, <1>14 DEF Inv

(* Steps that change no queue and lead to no operation on one.             *)
Elsewhere ==
    /\ UNCHANGED <<interrupt, tx, rx, attached, packet, spinning, made, fetched, sent,
                   heard, delivered>>
    /\ reqn' \in BOOLEAN /\ rdyn' \in BOOLEAN
    /\ \/ pc' = pc /\ wasFull' = wasFull
       \/ pc' \in {"request", "lower", "get", "idle", "room", "pending"} /\ wasFull' = wasFull
       \/ pc' = "dequeue" /\ wasFull' = IsFull(rx)

LEMMA ElsewhereInv == Inv /\ Elsewhere => Inv'
<1> SUFFICES ASSUME Inv, Elsewhere PROVE Inv'
  OBVIOUS
<1>1. /\ UNCHANGED <<interrupt, tx, rx, attached, packet, spinning, made, fetched, sent,
                     heard, delivered>>
      /\ reqn' \in BOOLEAN /\ rdyn' \in BOOLEAN
  BY DEF Elsewhere
<1>2. pc' = pc \/ pc' \in {"request", "lower", "get", "idle", "room", "pending", "dequeue"}
  BY DEF Elsewhere
<1>3. TypeOK'
  <2>1. wasFull' \in BOOLEAN
    BY Zenon DEF Inv, TypeOK, Elsewhere, IsFull
  <2>2. pc' \in {"idle", "store", "push", "request", "lower", "get", "dequeue",
                 "copy", "advance", "attach", "room", "pending"}
    BY <1>2 DEF Inv, TypeOK
  <2> QED
    BY <1>1, <2>1, <2>2, Zenon DEF Inv, TypeOK
<1>4. CommandsInv'
  BY <1>1, <1>2 DEF Inv, CommandsInv
<1>5. EventsInv'
  BY <1>1, <1>2 DEF Inv, EventsInv
<1>6. AttachInv'
  <2>1. CASE pc' = pc /\ wasFull' = wasFull
    BY <1>1, <2>1 DEF Inv, AttachInv
  <2>2. CASE pc' \in {"request", "lower", "get", "idle", "room", "pending"}
    BY <1>1, <2>2 DEF Inv, AttachInv
  <2>3. CASE pc' = "dequeue" /\ wasFull' = IsFull(rx)
    <3>1. attached => ~ IsFull(rx)
      <4>1. rx.head \in 0..255
        BY DEF Inv, TypeOK, IsQueueOf, Index
      <4> QED
        BY <4>1 DEF Inv, AttachInv, IsFull, ACI_QUEUE_SIZE
    <3> QED
      BY <1>1, <2>3, <3>1 DEF Inv, AttachInv
  <2> QED
    BY <2>1, <2>2, <2>3 DEF Elsewhere
<1> QED
  BY <1>3, <1>4, <1>5, <1>6 DEF Inv

LEMMA QuietIsElsewhere ==
    ASSUME Inv,
           \/ RaiseReady \/ SendRequest \/ LowerReqn \/ GetWasFull
           \/ GetCheckRoom \/ GetCheckPending
           \/ GetCheckEmpty /\ IsEmpty(rx)
           \/ \E next \in {"idle", "get"} : EventCheck(next) /\ (CheckSkips \/ CheckRequests)
           \/ UNCHANGED vars
    PROVE  Elsewhere
<1> USE DEF program, chip
<1>1. reqn \in BOOLEAN /\ rdyn \in BOOLEAN
  BY DEF Inv, TypeOK
<1>2. CASE RaiseReady
  BY <1>1, <1>2 DEF RaiseReady, Elsewhere
<1>3. CASE SendRequest
  BY <1>1, <1>3 DEF SendRequest, Step, Looks, Elsewhere
<1>4. CASE LowerReqn
  BY <1>1, <1>4 DEF LowerReqn, Step, Elsewhere
<1>5. CASE GetWasFull
  BY <1>1, <1>5 DEF GetWasFull, Step, Looks, Elsewhere
<1>6. CASE GetCheckRoom
  BY <1>1, <1>6 DEF GetCheckRoom, Step, Looks, Elsewhere
<1>7. CASE GetCheckPending
  BY <1>1, <1>7 DEF GetCheckPending, Step, Looks, Elsewhere
<1>8. CASE GetCheckEmpty /\ IsEmpty(rx)
  BY <1>1, <1>8 DEF GetCheckEmpty, Step, Looks, Elsewhere
<1>9. ASSUME NEW next \in {"idle", "get"}, EventCheck(next), CheckSkips \/ CheckRequests
      PROVE  Elsewhere
  <2>1. reqn' \in BOOLEAN
    BY <1>1, <1>9, Zenon DEF CheckSkips, CheckRequests, Looks
  <2> QED
    BY <1>1, <1>9, <2>1 DEF EventCheck, CheckSkips, CheckRequests, Step, Looks, Elsewhere
<1>10. CASE UNCHANGED vars
  BY <1>1, <1>10 DEF vars, Elsewhere
<1> QED
  BY <1>2, <1>3, <1>4, <1>5, <1>6, <1>7, <1>8, <1>9, <1>10

LEMMA MakeEventInv == Inv /\ MakeEvent => Inv'
<1> SUFFICES ASSUME Inv, MakeEvent PROVE Inv'
  OBVIOUS
<1>1. /\ made' = made + 1 /\ made < MaxEvents
      /\ UNCHANGED <<interrupt, tx, rx, attached, reqn, rdyn, pc, wasFull, packet, spinning,
                     fetched, sent, heard, delivered>>
  BY DEF MakeEvent, program
<1>2. made \in Nat /\ fetched \in Nat /\ fetched <= made
  BY BoundsAssumption DEF Inv, TypeOK, EventsInv
<1>3. made' \in 0..MaxEvents /\ fetched <= made'
  BY <1>1, <1>2, BoundsAssumption
<1>4. TypeOK'
  BY <1>1, <1>3, Zenon DEF Inv, TypeOK
<1> QED
  BY <1>1, <1>3, <1>4 DEF Inv, CommandsInv, EventsInv, AttachInv

LEMMA SendCheckInv == NoWrap /\ Inv /\ SendCheck => Inv'
<1> SUFFICES ASSUME NoWrap, Inv, SendCheck PROVE Inv'
  OBVIOUS
<1>1. /\ pc = "idle" /\ pc' = "store" /\ sent < MaxCommands /\ ~ IsFull(tx)
      /\ UNCHANGED <<interrupt, tx, rx, attached, reqn, rdyn, wasFull, packet, spinning,
                     made, fetched, sent, heard, delivered>>
  BY DEF SendCheck, Step, Looks, chip
<1>2. tx.tail < tx.head + 4
  <2>1. tx.head \in Index /\ tx.tail \in Index /\ tx.tail <= tx.head + 4
    BY TxIndices DEF Inv
  <2>2. tx.tail # tx.head + 4
    BY <1>1 DEF IsFull, ACI_QUEUE_SIZE
  <2> QED
    BY <2>1, <2>2, NotFull
<1>3. TypeOK'
  BY <1>1, Zenon DEF Inv, TypeOK
<1> QED
  BY <1>1, <1>2, <1>3 DEF Inv, CommandsInv, EventsInv, AttachInv

LEMMA SendInv == NoWrap /\ Inv /\ (SendStore \/ SendPush) => Inv'
<1> SUFFICES ASSUME NoWrap, Inv, SendStore \/ SendPush PROVE Inv'
  OBVIOUS
<1>1. /\ pc' \in {"push", "request"}
      /\ UNCHANGED <<interrupt, rx, attached, reqn, rdyn, wasFull, packet, spinning,
                     made, fetched, heard, delivered>>
  BY DEF SendStore, SendPush, Step, chip
<1>2. sent' \in 0..MaxCommands
  BY PushCommand DEF SendStore, Inv, TypeOK
<1>3. IsQueueOf(tx', Command) /\ CommandsInv'
  BY StoreCommand, PushCommand
<1>4. TypeOK'
  BY <1>1, <1>2, <1>3, Zenon DEF Inv, TypeOK
<1> QED
  BY <1>1, <1>3, <1>4 DEF Inv, EventsInv, AttachInv

(* An event comes in only while there is room: the interrupt is detached   *)
(* as soon as there is none.                                               *)
LEMMA TransferInv ==
    ASSUME NoWrap, Inv, ~ IsFull(rx), TransferCommand, TransferEvent,
           UNCHANGED <<interrupt, wasFull, packet, made, sent, delivered>>,
           \/ pc' = pc /\ attached /\ Detach
           \/ pc = "idle" /\ pc' \in {"idle", "get"} /\ UNCHANGED attached /\ ~ interrupt
    PROVE  Inv'
<1>1. pc' = pc \/ pc' \in {"idle", "get"}
  OBVIOUS
<1>2. IsQueueOf(tx', Command) /\ heard' \in Seq(Command) /\ CommandsInv'
  BY <1>1, CommandTransferred
<1>3. /\ IsQueueOf(rx', Event) /\ fetched' \in 0..MaxEvents /\ EventsInv'
      /\ spinning' = FALSE /\ rx'.head = rx.head
      /\ rx' = rx \/ rx'.tail = rx.tail + 1
  BY <1>1, EventTransferred
<1>4. attached' \in BOOLEAN /\ reqn' \in BOOLEAN /\ rdyn' = FALSE
  BY Zenon DEF Inv, TypeOK, Detach, TransferCommand
<1>5. TypeOK'
  <2>1. pc' \in {"idle", "store", "push", "request", "lower", "get", "dequeue",
                 "copy", "advance", "attach", "room", "pending"}
    BY <1>1 DEF Inv, TypeOK
  <2> QED
    BY <1>2, <1>3, <1>4, <2>1, Zenon DEF Inv, TypeOK
<1>6. AttachInv'
  <2>1. CASE pc' = pc /\ attached /\ Detach
    <3>1. /\ interrupt' = interrupt /\ interrupt /\ rx.tail < rx.head + 4
          /\ ~ (wasFull /\ pc \in {"dequeue", "copy", "advance", "attach"})
      BY <2>1 DEF Inv, AttachInv
    <3>2. attached' => rx'.tail < rx'.head + 4
      <4>1. CASE rx' = rx
        BY <3>1, <4>1
      <4>2. CASE rx' # rx /\ attached'
        <5>1. rx'.tail # rx'.head + 4
          BY <2>1, <4>2 DEF Detach, IsFull, ACI_QUEUE_SIZE
        <5>2. rx'.tail <= rx'.head + 4
          BY <1>3 DEF EventsInv, Window
        <5>3. rx'.head \in Index /\ rx'.tail \in Index
          BY <1>3 DEF IsQueueOf
        <5> QED
          BY <5>1, <5>2, <5>3, NotFull
      <4> QED
        BY <4>1, <4>2
    <3> QED
      BY <1>3, <2>1, <3>1, <3>2 DEF AttachInv
  <2>2. CASE UNCHANGED attached /\ ~ interrupt
    BY <1>3, <2>2 DEF Inv, AttachInv
  <2> QED
    BY <2>1, <2>2
<1> QED
  BY <1>2, <1>3, <1>5, <1>6 DEF Inv

LEMMA IsrInv == NoWrap /\ Inv /\ Isr => Inv'
<1> SUFFICES ASSUME NoWrap, Inv, Isr PROVE Inv'
  OBVIOUS
<1>1. ~ IsFull(rx)
  <2>1. attached /\ rx.tail < rx.head + 4 /\ rx.head \in 0..255
    BY DEF Isr, Inv, AttachInv, TypeOK, IsQueueOf, Index
  <2> QED
    BY <2>1 DEF IsFull, ACI_QUEUE_SIZE
<1> QED
  BY <1>1, TransferInv DEF Isr, program

LEMMA EventCheckInv ==
    ASSUME NoWrap, Inv, NEW next \in {"idle", "get"}, EventCheck(next)
    PROVE  Inv'
<1>1. CASE CheckSkips \/ CheckRequests
  BY <1>1, QuietIsElsewhere, ElsewhereInv
<1>2. CASE CheckTransfers
  BY <1>2, TransferInv DEF EventCheck, CheckTransfers, Step
<1> QED
  BY <1>1, <1>2 DEF EventCheck

-----------------------------------------------------------------------------
(* hal_aci_tl_event_get                                                    *)

LEMMA GetNotEmptyInv == NoWrap /\ Inv /\ GetCheckEmpty /\ ~ IsEmpty(rx) => Inv'
<1> SUFFICES ASSUME NoWrap, Inv, GetCheckEmpty, ~ IsEmpty(rx) PROVE Inv'
  OBVIOUS
<1>1. /\ pc = "dequeue" /\ pc' = "copy"
      /\ UNCHANGED <<interrupt, tx, rx, attached, reqn, rdyn, wasFull, packet, spinning,
                     made, fetched, sent, heard, delivered>>
  BY DEF GetCheckEmpty, Step, Looks, chip
<1>2. rx.head < rx.tail
  BY RxIndices DEF Inv, IsEmpty
<1>3. TypeOK'
  BY <1>1, Zenon DEF Inv, TypeOK
<1> QED
  BY <1>1, <1>2, <1>3 DEF Inv, CommandsInv, EventsInv, AttachInv

LEMMA GetCopyInv == NoWrap /\ Inv /\ GetCopy => Inv'
<1> SUFFICES ASSUME NoWrap, Inv, GetCopy PROVE Inv'
  OBVIOUS
<1>1. /\ pc = "copy" /\ pc' = "advance" /\ packet' = First(rx)
      /\ UNCHANGED <<interrupt, tx, rx, attached, reqn, rdyn, wasFull, spinning,
                     made, fetched, sent, heard, delivered>>
  BY DEF GetCopy, Step, Looks, chip
<1>2. packet' = Len(delivered) + 1 /\ packet' \in Event
  BY <1>1, OldestEvent DEF Inv, EventsInv
<1>3. TypeOK'
  BY <1>1, <1>2, Zenon DEF Inv, TypeOK
<1> QED
  BY <1>1, <1>2, <1>3 DEF Inv, CommandsInv, EventsInv, AttachInv

LEMMA GetAdvanceInv == NoWrap /\ Inv /\ GetAdvance => Inv'
<1> SUFFICES ASSUME NoWrap, Inv, GetAdvance PROVE Inv'
  OBVIOUS
<1>1. /\ pc = "advance" /\ pc' = "attach"
      /\ UNCHANGED <<interrupt, tx, attached, reqn, rdyn, wasFull, packet, spinning,
                     made, fetched, sent, heard>>
  BY DEF GetAdvance, Step, chip
<1>2. /\ IsQueueOf(rx', Event) /\ delivered' \in Seq(Event) /\ EventsInv'
      /\ rx'.tail < rx'.head + 4
  BY EventDelivered
<1>3. TypeOK'
  BY <1>1, <1>2, Zenon DEF Inv, TypeOK
<1> QED
  BY <1>1, <1>2, <1>3 DEF Inv, CommandsInv, AttachInv

(* The interrupt is attached with the room that the event has left.        *)
LEMMA GetAttachInv == Inv /\ GetAttach => Inv'
<1> SUFFICES ASSUME Inv, GetAttach PROVE Inv'
  OBVIOUS
<1>1. /\ pc = "attach" /\ pc' = "room"
      /\ attached' = (attached \/ (wasFull /\ interrupt))
      /\ UNCHANGED <<interrupt, tx, rx, reqn, rdyn, wasFull, packet, spinning,
                     made, fetched, sent, heard, delivered>>
  BY DEF GetAttach, Step, chip
<1>2. attached' \in BOOLEAN
  BY <1>1, Zenon DEF Inv, TypeOK
<1>3. TypeOK'
  BY <1>1, <1>2, Zenon DEF Inv, TypeOK
<1> QED
  BY <1>1, <1>3 DEF Inv, CommandsInv, EventsInv, AttachInv

LEMMA NextInv == NoWrap /\ Inv /\ [Next]_vars => Inv'
<1> SUFFICES ASSUME NoWrap, Inv, [Next]_vars PROVE Inv'
  OBVIOUS
<1>1. CASE RaiseReady \/ SendRequest \/ LowerReqn \/ GetWasFull \/ GetCheckRoom
           \/ GetCheckPending \/ UNCHANGED vars
  BY <1>1, QuietIsElsewhere, ElsewhereInv
<1>2. CASE GetCheckEmpty
  BY <1>2, QuietIsElsewhere, ElsewhereInv, GetNotEmptyInv
<1>3. CASE EventCheck("idle") \/ EventCheck("get")
  BY <1>3, EventCheckInv
<1>4. CASE MakeEvent
  BY <1>4, MakeEventInv
<1>5. CASE SendCheck
  BY <1>5, SendCheckInv
<1>6. CASE SendStore \/ SendPush
  BY <1>6, SendInv
<1>7. CASE Isr
  BY <1>7, IsrInv
<1>8. CASE GetCopy \/ GetAdvance \/ GetAttach
  BY <1>8, GetCopyInv, GetAdvanceInv, GetAttachInv
<1> QED
  BY <1>1, <1>2, <1>3, <1>4, <1>5, <1>6, <1>7, <1>8 DEF Next, SendStep, GetStep

LEMMA Invariance == NoWrap => (Spec => []Inv)
<1> SUFFICES ASSUME NoWrap PROVE Spec => []Inv
  OBVIOUS
<1>1. Init => Inv
  BY InitInv
<1>2. Inv /\ [Next]_vars => Inv'
  BY NextInv
<1> QED
  BY <1>1, <1>2, PTL DEF Spec

-----------------------------------------------------------------------------
(* What follows                                                            *)

(* hal_aci_tl.cpp:109, "Should never happen": no transfer, by interrupt or *)
(* polled, brings in an event that there is no room for.                   *)
THEOREM TransportNeverSpins == ASSUME NoWrap PROVE Spec => []NeverSpins
<1>1. Inv => NeverSpins
  BY DEF Inv, AttachInv, NeverSpins
<1> QED
  BY <1>1, Invariance, PTL

(* The types of the queues, of what they hold and of what the program and  *)
(* the chip have received.                                                 *)
THEOREM TransportTypeCorrect == ASSUME NoWrap PROVE Spec => []TypeOK
<1>1. Inv => TypeOK
  BY DEF Inv
<1> QED
  BY <1>1, Invariance, PTL

(* The chip hears every command that the program was told is queued, once  *)
(* and in order, or tx still holds it.                                     *)
THEOREM CommandsArriveInOrder == ASSUME NoWrap PROVE Spec => []CommandsInOrder
<1>1. Inv => CommandsInOrder
  <2> SUFFICES ASSUME Inv PROVE CommandsInOrder
    OBVIOUS
  <2>1. /\ sent = Len(heard) + Count(tx)
        /\ \A i \in 0..Count(tx) - 1 : \A k, base : k = tx.head + i /\ base = tx.tail - sent =>
              k \in Index /\ tx.head <= k /\ k < tx.tail /\ k - base + 1 = Len(heard) + i + 1
    <3>1. /\ tx.head \in Index /\ tx.tail \in Index /\ sent \in Nat /\ Len(heard) \in Nat
          /\ tx.tail - sent \in Nat /\ tx.head = tx.tail - sent + Len(heard)
          /\ tx.head <= tx.tail
      BY TxIndices, BoundsAssumption DEF Inv
    <3>2. Count(tx) = (tx.tail - tx.head) % 256
      BY DEF Count
    <3> QED
      BY <3>1, <3>2, CountBetween
  <2>2. ASSUME NEW i \in 0..Count(tx) - 1 PROVE Ahead(tx, i) = Len(heard) + i + 1
    <3> DEFINE k == tx.head + i
               base == tx.tail - sent
    <3>1. k = tx.head + i /\ base = tx.tail - sent
      OBVIOUS
    <3>2. Slots(tx, base)
      BY DEF Inv, CommandsInv
    <3>3. Ahead(tx, i) = tx.data[k % 4]
      BY DEF Ahead, ACI_QUEUE_SIZE
    <3> HIDE DEF k, base
    <3>4. /\ k \in Index /\ tx.head <= k /\ k < tx.tail
          /\ k - base + 1 = Len(heard) + i + 1
      BY <2>1, <3>1
    <3> QED
      BY <3>2, <3>3, <3>4 DEF Slots
  <2> QED
    BY <2>1, <2>2 DEF Inv, CommandsInv, CommandsInOrder
<1> QED
  BY <1>1, Invariance, PTL

(* Every event that the chip has handed over reaches the program, once and *)
(* in order, or rx still holds it, also while one is being dequeued.       *)
THEOREM EventsArriveInOrder == ASSUME NoWrap PROVE Spec => []EventsInOrder
<1>1. Inv => EventsInOrder
  <2> SUFFICES ASSUME Inv PROVE EventsInOrder
    OBVIOUS
  <2>1. /\ fetched = Len(delivered) + Count(rx)
        /\ \A i \in 0..Count(rx) - 1 : \A k, base : k = rx.head + i /\ base = rx.tail - fetched =>
              k \in Index /\ rx.head <= k /\ k < rx.tail /\ k - base + 1 = Len(delivered) + i + 1
    <3>1. /\ rx.head \in Index /\ rx.tail \in Index /\ fetched \in Nat
          /\ Len(delivered) \in Nat /\ rx.tail - fetched \in Nat
          /\ rx.head = rx.tail - fetched + Len(delivered) /\ rx.head <= rx.tail
      BY RxIndices, BoundsAssumption DEF Inv
    <3>2. Count(rx) = (rx.tail - rx.head) % 256
      BY DEF Count
    <3> QED
      BY <3>1, <3>2, CountBetween
  <2>2. ASSUME NEW i \in 0..Count(rx) - 1 PROVE Ahead(rx, i) = Len(delivered) + i + 1
    <3> DEFINE k == rx.head + i
               base == rx.tail - fetched
    <3>1. k = rx.head + i /\ base = rx.tail - fetched
      OBVIOUS
    <3>2. Slots(rx, base)
      BY DEF Inv, EventsInv
    <3>3. Ahead(rx, i) = rx.data[k % 4]
      BY DEF Ahead, ACI_QUEUE_SIZE
    <3> HIDE DEF k, base
    <3>4. /\ k \in Index /\ rx.head <= k /\ k < rx.tail
          /\ k - base + 1 = Len(delivered) + i + 1
      BY <2>1, <3>1
    <3> QED
      BY <3>2, <3>3, <3>4 DEF Slots
  <2> QED
    BY <2>1, <2>2 DEF Inv, EventsInv, EventsInOrder
<1> QED
  BY <1>1, Invariance, PTL

-----------------------------------------------------------------------------
(* The transport as a link. Packets are numbered in the order they are     *)
(* made, so that what is in a queue is an interval of numbers, and an      *)
(* operation on it moves one end of the interval.                          *)

Numbers(out, in) == [i \in 1..in - out |-> out + i]

LEMMA NumbersType ==
    ASSUME NEW out \in Nat, NEW in \in Nat, out <= in, NEW max \in Nat, in <= max
    PROVE  /\ Numbers(out, in) \in Seq(1..max)
           /\ Len(Numbers(out, in)) = in - out
           /\ \A i \in 1..in - out : Numbers(out, in)[i] = out + i
<1>1. in - out \in Nat /\ \A i \in 1..in - out : out + i \in 1..max
  OBVIOUS
<1>2. \A i \in 1..in - out : Numbers(out, in)[i] = out + i
  BY DEF Numbers
<1>3. Numbers(out, in) \in [1..in - out -> 1..max]
  BY <1>1 DEF Numbers
<1>4. Numbers(out, in) \in Seq(1..max)
  BY <1>1, <1>3, SeqDef, Zenon
<1>5. DOMAIN Numbers(out, in) = 1..in - out
  BY DEF Numbers
<1>6. Len(Numbers(out, in)) = in - out
  <2> DEFINE n == in - out
             len == Len(Numbers(out, in))
  <2>1. len \in Nat /\ 1..len = 1..n /\ n \in Nat
    BY <1>1, <1>4, <1>5, LenProperties
  <2> HIDE DEF n, len
  <2>2. len = n
    BY <2>1
  <2> QED
    BY <2>2 DEF n, len
<1> QED
  BY <1>2, <1>4, <1>6

(* More packets come in.                                                   *)
LEMMA NumbersExtend ==
    ASSUME NEW out \in Nat, NEW in \in Nat, out <= in, NEW more \in Nat, in <= more
    PROVE  Link!Extends(Numbers(out, more), Numbers(out, in))
<1> DEFINE longer == Numbers(out, more)
           shorter == Numbers(out, in)
<1>1. /\ Len(longer) = more - out /\ \A i \in 1..more - out : longer[i] = out + i
      /\ Len(shorter) = in - out /\ \A i \in 1..in - out : shorter[i] = out + i
  <2>1. out <= more /\ more <= more
    OBVIOUS
  <2>2. Len(longer) = more - out /\ \A i \in 1..more - out : longer[i] = out + i
    BY <2>1, NumbersType
  <2>3. Len(shorter) = in - out /\ \A i \in 1..in - out : shorter[i] = out + i
    BY NumbersType
  <2> QED
    BY <2>2, <2>3
<1> HIDE DEF longer, shorter
<1>2. Len(shorter) <= Len(longer) /\ \A i \in 1..Len(shorter) : longer[i] = shorter[i]
  BY <1>1
<1>3. Link!Extends(longer, shorter)
  BY <1>2, Zenon DEF Link!Extends
<1> QED
  BY <1>3 DEF longer, shorter

(* The oldest one goes out.                                                *)
LEMMA NumbersRest ==
    ASSUME NEW out \in Nat, NEW in \in Nat, out < in
    PROVE  /\ Numbers(out, in) # <<>>
           /\ Head(Numbers(out, in)) = out + 1
           /\ Tail(Numbers(out, in)) = Numbers(out + 1, in)
<1> DEFINE s == Numbers(out, in)
           r == Numbers(out + 1, in)
<1>1. /\ s \in Seq(1..in) /\ Len(s) = in - out /\ \A i \in 1..in - out : s[i] = out + i
      /\ r \in Seq(1..in) /\ Len(r) = in - (out + 1)
      /\ \A i \in 1..in - (out + 1) : r[i] = out + 1 + i
  <2>1. out <= in /\ in <= in /\ out + 1 \in Nat /\ out + 1 <= in
    OBVIOUS
  <2> QED
    BY <2>1, NumbersType
<1> HIDE DEF s, r
<1>2. s # <<>> /\ Len(s) > 0
  BY <1>1
<1>3. Head(s) = out + 1
  BY <1>1, <1>2
<1>4. Tail(s) \in Seq(1..in) /\ Len(Tail(s)) = Len(s) - 1
      /\ \A i \in 1..Len(Tail(s)) : Tail(s)[i] = s[i + 1]
  BY <1>1, <1>2
<1>5. Len(Tail(s)) = Len(r) /\ \A i \in 1..Len(r) : Tail(s)[i] = r[i]
  BY <1>1, <1>4
<1>6. Tail(s) = r
  BY <1>1, <1>4, <1>5, SeqEqual
<1> QED
  BY <1>2, <1>3, <1>6 DEF s, r

LEMMA NumbersNone == ASSUME NEW n \in Nat PROVE Numbers(n, n) = <<>>
BY DEF Numbers

LEMMA NumbersAppend ==
    ASSUME NEW out \in Nat, NEW in \in Nat, out <= in
    PROVE  Numbers(out, in) \o <<in + 1>> = Numbers(out, in + 1)
<1> DEFINE s == Numbers(out, in)
           t == Numbers(out, in + 1)
           a == s \o <<in + 1>>
<1>1. /\ s \in Seq(1..in + 1) /\ Len(s) = in - out /\ \A i \in 1..in - out : s[i] = out + i
      /\ t \in Seq(1..in + 1) /\ Len(t) = in + 1 - out
      /\ \A i \in 1..in + 1 - out : t[i] = out + i
  <2>1. /\ in + 1 \in Nat /\ in <= in + 1
        /\ out <= in + 1 /\ in + 1 <= in + 1
    OBVIOUS
  <2>2. s \in Seq(1..in + 1) /\ Len(s) = in - out /\ \A i \in 1..in - out : s[i] = out + i
    BY <2>1, NumbersType
  <2>3. /\ t \in Seq(1..in + 1) /\ Len(t) = in + 1 - out
        /\ \A i \in 1..in + 1 - out : t[i] = out + i
    BY <2>1, NumbersType
  <2> QED
    BY <2>2, <2>3
<1> HIDE DEF s, t
<1>2. /\ a \in Seq(1..in + 1) /\ Len(a) = Len(s) + 1
      /\ \A i \in 1..Len(s) : a[i] = s[i]
      /\ a[Len(s) + 1] = in + 1
  <2>1. <<in + 1>> \in Seq(1..in + 1) /\ Len(<<in + 1>>) = 1 /\ <<in + 1>>[1] = in + 1
    OBVIOUS
  <2> HIDE DEF a
  <2>2. /\ a \in Seq(1..in + 1) /\ Len(a) = Len(s) + 1
        /\ \A i \in 1..Len(a) : a[i] = IF i <= Len(s) THEN s[i] ELSE <<in + 1>>[i - Len(s)]
    BY <1>1, <2>1, ConcatProperties DEF a
  <2>3. Len(s) \in Nat
    BY <1>1
  <2> QED
    BY <2>1, <2>2, <2>3
<1> HIDE DEF a
<1>3. Len(a) = Len(t) /\ \A i \in 1..Len(t) : a[i] = t[i]
  <2>1. Len(s) \in Nat /\ Len(a) = Len(t) /\ Len(t) = Len(s) + 1
    BY <1>1, <1>2
  <2>2. ASSUME NEW i \in 1..Len(t) PROVE a[i] = t[i]
    <3>1. CASE i <= Len(s)
      BY <1>1, <1>2, <2>1, <3>1
    <3>2. CASE i = Len(s) + 1
      BY <1>1, <1>2, <2>1, <3>2
    <3> QED
      BY <2>1, <3>1, <3>2
  <2> QED
    BY <2>1, <2>2
<1>4. a = t
  BY <1>1, <1>2, <1>3, SeqEqual
<1> QED
  BY <1>4 DEF a, s, t

LEMMA Room ==
    ASSUME NEW head \in Index, NEW tail \in Index, head <= tail, tail <= head + 4
    PROVE  /\ tail - head \in 0..4
           /\ tail # head + 4 => tail - head < 4
           /\ tail = head <=> tail - head = 0
BY DEF Index

LEMMA HeldIs ==
    ASSUME NEW q, NEW in \in Nat, NEW out \in Nat, q.head \in Index, q.tail \in Index,
           q.tail - in \in Nat, q.head = q.tail - in + out,
           q.head <= q.tail, q.tail <= q.head + 4, Slots(q, q.tail - in)
    PROVE  Held(q) = Numbers(out, in) /\ out <= in /\ in - out = q.tail - q.head
<1> DEFINE count == Count(q)
<1>1. count = (q.tail - q.head) % 256
  BY DEF Count
<1> HIDE DEF count
<1>2. /\ in = out + count
      /\ \A i \in 0..count - 1 : \A k, base : k = q.head + i /\ base = q.tail - in =>
            k \in Index /\ q.head <= k /\ k < q.tail /\ k - base + 1 = out + i + 1
  BY <1>1, CountBetween
<1>3. in - out = q.tail - q.head /\ q.tail - q.head \in 0..4
  <2>1. q.tail - q.head \in 0..4
    BY Room
  <2>2. q.head \in Nat /\ q.tail \in Nat
    BY DEF Index
  <2> QED
    BY <2>1, <2>2
<1>4. count = in - out /\ count \in Nat /\ out <= in
  <2>1. q.tail - q.head \in 0..255 /\ (q.tail - q.head) % 256 = q.tail - q.head
    BY <1>3
  <2> QED
    BY <1>1, <1>3, <2>1
<1>5. ASSUME NEW i \in 1..count PROVE Ahead(q, i - 1) = out + i
  <2> DEFINE k == q.head + (i - 1)
             base == q.tail - in
  <2>1. k = q.head + (i - 1) /\ base = q.tail - in /\ i - 1 \in 0..count - 1
    BY <1>4
  <2>2. Ahead(q, i - 1) = q.data[k % 4] /\ Slots(q, base)
    BY DEF Ahead, ACI_QUEUE_SIZE
  <2> HIDE DEF k, base
  <2>3. /\ k \in Index /\ q.head <= k /\ k < q.tail
        /\ k - base + 1 = out + (i - 1) + 1
    BY <1>2, <2>1
  <2>4. Ahead(q, i - 1) = k - base + 1
    BY <2>2, <2>3, Zenon DEF Slots
  <2> QED
    BY <2>3, <2>4
<1>6. Held(q) = [i \in 1..count |-> Ahead(q, i - 1)]
  BY DEF Held, count
<1>7. Held(q) = [i \in 1..count |-> out + i]
  BY <1>5, <1>6
<1> QED
  BY <1>3, <1>4, <1>7 DEF Numbers

(* What the driver sees, by the numbers.                                   *)
View ==
    /\ Held(tx) = Numbers(Len(heard), sent)
    /\ Len(heard) \in Nat /\ sent \in Nat /\ sent <= MaxCommands
    /\ Len(heard) <= sent /\ sent - Len(heard) = tx.tail - tx.head
    /\ Held(rx) = Numbers(Len(delivered), fetched)
    /\ Len(delivered) \in Nat /\ fetched \in Nat
    /\ Len(delivered) <= fetched /\ fetched - Len(delivered) = rx.tail - rx.head
    /\ Unfetched = Numbers(fetched, made)
    /\ made \in Nat /\ fetched <= made /\ made <= MaxEvents
    /\ sent - Len(heard) <= 4 /\ fetched - Len(delivered) <= 4

LEMMA InvView == NoWrap /\ Inv => View
<1> SUFFICES ASSUME NoWrap, Inv PROVE View
  OBVIOUS
<1>1. /\ tx.tail - sent \in Nat /\ tx.head \in Index /\ tx.tail \in Index
      /\ sent \in 0..MaxCommands /\ Len(heard) \in Nat
      /\ tx.head = tx.tail - sent + Len(heard)
      /\ tx.head <= tx.tail /\ tx.tail <= tx.head + 4
  BY TxIndices DEF Inv
<1>2. Slots(tx, tx.tail - sent)
  BY DEF Inv, CommandsInv
<1>3. sent \in Nat /\ sent <= MaxCommands
  BY <1>1, BoundsAssumption
<1>4. /\ Held(tx) = Numbers(Len(heard), sent) /\ Len(heard) <= sent
      /\ sent - Len(heard) = tx.tail - tx.head
  BY <1>1, <1>2, <1>3, HeldIs
<1>5. /\ rx.tail - fetched \in Nat /\ rx.head \in Index /\ rx.tail \in Index
      /\ fetched \in 0..MaxEvents /\ made \in 0..MaxEvents /\ Len(delivered) \in Nat
      /\ rx.head = rx.tail - fetched + Len(delivered)
      /\ rx.head <= rx.tail /\ rx.tail <= rx.head + 4
  BY RxIndices DEF Inv
<1>6. Slots(rx, rx.tail - fetched) /\ fetched <= made
  BY DEF Inv, EventsInv
<1>7. fetched \in Nat /\ made \in Nat /\ made <= MaxEvents
  BY <1>5, BoundsAssumption
<1>8. /\ Held(rx) = Numbers(Len(delivered), fetched) /\ Len(delivered) <= fetched
      /\ fetched - Len(delivered) = rx.tail - rx.head
  BY <1>5, <1>6, <1>7, HeldIs
<1>9. Unfetched = Numbers(fetched, made)
  BY DEF Unfetched, Numbers
<1>10. sent - Len(heard) <= 4 /\ fetched - Len(delivered) <= 4
  <2>1. tx.tail - tx.head \in 0..4 /\ rx.tail - rx.head \in 0..4
    BY <1>1, <1>5, Room
  <2> QED
    BY <1>4, <1>8, <2>1
<1> QED
  BY <1>1, <1>3, <1>4, <1>5, <1>6, <1>7, <1>8, <1>9, <1>10 DEF View

LEMMA ViewType ==
    ASSUME View
    PROVE  /\ Held(tx) \in Seq(Command) /\ Len(Held(tx)) = sent - Len(heard)
           /\ Held(rx) \in Seq(Event) /\ Len(Held(rx)) = fetched - Len(delivered)
           /\ Unfetched \in Seq(Event)
<1>1. /\ Len(heard) \in Nat /\ sent \in Nat /\ Len(heard) <= sent /\ sent <= MaxCommands
      /\ Len(delivered) \in Nat /\ fetched \in Nat /\ Len(delivered) <= fetched
      /\ made \in Nat /\ fetched <= made /\ made <= MaxEvents
      /\ MaxCommands \in Nat /\ MaxEvents \in Nat
  BY BoundsAssumption DEF View
<1>2. fetched <= MaxEvents
  BY <1>1
<1>3. Held(tx) \in Seq(Command) /\ Len(Held(tx)) = sent - Len(heard)
  <2> DEFINE out == Len(heard)
  <2>1. /\ Held(tx) = Numbers(out, sent) /\ out \in Nat /\ out <= sent
        /\ sent \in Nat /\ sent <= MaxCommands /\ MaxCommands \in Nat
    BY <1>1 DEF View
  <2> HIDE DEF out
  <2>2. /\ Numbers(out, sent) \in Seq(1..MaxCommands)
        /\ Len(Numbers(out, sent)) = sent - out
    BY <2>1, NumbersType
  <2> QED
    BY <2>1, <2>2, Zenon DEF out, Command
<1>4. Held(rx) \in Seq(Event) /\ Len(Held(rx)) = fetched - Len(delivered)
  <2> DEFINE out == Len(delivered)
  <2>1. /\ Held(rx) = Numbers(out, fetched) /\ out \in Nat /\ out <= fetched
        /\ fetched \in Nat /\ fetched <= MaxEvents /\ MaxEvents \in Nat
    BY <1>1, <1>2 DEF View
  <2> HIDE DEF out
  <2>2. /\ Numbers(out, fetched) \in Seq(1..MaxEvents)
        /\ Len(Numbers(out, fetched)) = fetched - out
    BY <2>1, NumbersType
  <2> QED
    BY <2>1, <2>2, Zenon DEF out, Event
<1>5. Unfetched \in Seq(Event)
  <2>1. Unfetched = Numbers(fetched, made)
    BY DEF View
  <2> QED
    BY <1>1, <2>1, NumbersType DEF Event
<1> QED
  BY <1>3, <1>4, <1>5

(* A step changes at most the numbers: the ends of the three intervals.    *)
LEMMA LinkSend ==
    ASSUME View, View', UNCHANGED <<heard, delivered, fetched, made>>, sent <= sent'
    PROVE  Link!Send
<1>1. Held(rx)' = Held(rx) /\ Unfetched' = Unfetched
  BY DEF View
<1>2. Held(tx)' \in Seq(Command) /\ Len(Held(tx)') <= 4
  <2> DEFINE out == Len(heard')
  <2>1. /\ Held(tx)' = Numbers(out, sent') /\ out \in Nat /\ sent' \in Nat /\ out <= sent'
        /\ sent' <= MaxCommands /\ sent' - out <= 4 /\ MaxCommands \in Nat
    BY BoundsAssumption DEF View
  <2> HIDE DEF out
  <2> QED
    BY <2>1, NumbersType DEF Command
<1>3. Link!Extends(Held(tx)', Held(tx))
  <2>1. /\ Held(tx)' = Numbers(Len(heard), sent') /\ Held(tx) = Numbers(Len(heard), sent)
        /\ Len(heard) \in Nat /\ sent \in Nat /\ sent' \in Nat /\ Len(heard) <= sent
    BY DEF View
  <2> QED
    BY <2>1, NumbersExtend
<1> QED
  BY <1>1, <1>2, <1>3 DEF Link!Send, Link!QueuesCommands, Link!Extends, ACI_QUEUE_SIZE

LEMMA LinkTake ==
    ASSUME View, View', UNCHANGED <<heard, sent, fetched, made>>,
           Len(delivered') = Len(delivered) + 1
    PROVE  Link!Take
<1>1. Held(tx)' = Held(tx) /\ Unfetched' = Unfetched
  BY DEF View
<1>2. Held(rx) # <<>> /\ Held(rx)' = Tail(Held(rx))
  <2> DEFINE out == Len(delivered)
             out2 == Len(delivered')
  <2>1. /\ Held(rx) = Numbers(out, fetched) /\ Held(rx)' = Numbers(out2, fetched)
        /\ out2 = out + 1 /\ out \in Nat /\ fetched \in Nat /\ out2 <= fetched
    BY DEF View
  <2> HIDE DEF out, out2
  <2>2. out < fetched
    BY <2>1
  <2>3. Numbers(out, fetched) # <<>> /\ Tail(Numbers(out, fetched)) = Numbers(out + 1, fetched)
    BY <2>1, <2>2, NumbersRest
  <2> QED
    BY <2>1, <2>3, Zenon
<1>3. Held(tx) \in Seq(Command) /\ Len(Held(tx)) <= 4
  <2>1. Held(tx) \in Seq(Command) /\ Len(Held(tx)) = sent - Len(heard)
    BY ViewType
  <2> QED
    BY <2>1 DEF View
<1>4. Link!Extends(Held(tx)', Held(tx))
  <2>1. Len(Held(tx)) \in Nat
    BY <1>3
  <2> QED
    BY <1>1, <2>1 DEF Link!Extends
<1> QED
  BY <1>1, <1>2, <1>3, <1>4, Zenon DEF Link!Take, Link!QueuesCommands, ACI_QUEUE_SIZE

LEMMA LinkReport ==
    ASSUME View, View', UNCHANGED <<heard, sent, delivered, fetched>>, made <= made'
    PROVE  Link!Report
<1>1. Held(tx)' = Held(tx) /\ Held(rx)' = Held(rx)
  BY DEF View
<1>2. /\ Unfetched' = Numbers(fetched, made') /\ Unfetched = Numbers(fetched, made)
      /\ fetched \in Nat /\ made \in Nat /\ made' \in Nat /\ fetched <= made
      /\ made' <= MaxEvents /\ fetched <= made' /\ MaxEvents \in Nat
  BY BoundsAssumption DEF View
<1>3. Unfetched' \in Seq(Event)
  BY <1>2, NumbersType DEF Event
<1>4. Link!Extends(Unfetched', Unfetched)
  BY <1>2, NumbersExtend
<1> QED
  BY <1>1, <1>3, <1>4, Zenon DEF Link!Report, Link!HasEvents

LEMMA LinkTransfer ==
    ASSUME View, View', UNCHANGED <<sent, delivered, made>>,
           fetched - Len(delivered) < 4,
           IF Len(heard) = sent THEN heard' = heard ELSE Len(heard') = Len(heard) + 1,
           fetched' = IF fetched < made THEN fetched + 1 ELSE fetched
    PROVE  Link!Transfer
<1>1. Len(Held(rx)) < 4
  <2>1. Len(Held(rx)) = fetched - Len(delivered)
    BY ViewType
  <2> QED
    BY <2>1
<1>2. Held(tx)' = Link!Rest(Held(tx))
  <2> DEFINE out == Len(heard)
             out2 == Len(heard')
  <2>1. /\ Held(tx) = Numbers(out, sent) /\ Held(tx)' = Numbers(out2, sent)
        /\ out \in Nat /\ sent \in Nat /\ out <= sent
        /\ IF out = sent THEN out2 = out ELSE out2 = out + 1
    BY DEF View
  <2> HIDE DEF out, out2
  <2>2. CASE out = sent
    BY <2>1, <2>2, NumbersNone DEF Link!Rest
  <2>3. CASE out # sent
    <3>1. out < sent
      BY <2>1, <2>3
    <3>2. Held(tx) # <<>> /\ Tail(Held(tx)) = Numbers(out + 1, sent)
      BY <2>1, <3>1, NumbersRest
    <3> QED
      BY <2>1, <2>3, <3>2 DEF Link!Rest
  <2> QED
    BY <2>2, <2>3
<1>3. /\ Held(rx)' = Held(rx) \o Link!Oldest(Unfetched)
      /\ Unfetched' = Link!Rest(Unfetched)
  <2> DEFINE out == Len(delivered)
             next == fetched'
  <2>1. /\ Held(rx) = Numbers(out, fetched) /\ Held(rx)' = Numbers(out, next)
        /\ Unfetched = Numbers(fetched, made) /\ Unfetched' = Numbers(next, made)
        /\ out \in Nat /\ fetched \in Nat /\ made \in Nat
        /\ out <= fetched /\ fetched <= made
        /\ next = IF fetched < made THEN fetched + 1 ELSE fetched
    BY DEF View
  <2> HIDE DEF out, next
  <2>2. CASE fetched = made
    <3>1. next = fetched
      BY <2>1, <2>2
    <3>2. Unfetched = <<>>
      BY <2>1, <2>2, NumbersNone
    <3>3. Held(rx) \in Seq(Event)
      BY ViewType
    <3>4. Held(rx) \o <<>> = Held(rx)
      BY <3>3, ConcatEmptySeq
    <3> QED
      BY <2>1, <3>1, <3>2, <3>4, Zenon DEF Link!Rest, Link!Oldest
  <2>3. CASE fetched < made
    <3>1. next = fetched + 1
      BY <2>1, <2>3
    <3>2. /\ Unfetched # <<>> /\ Head(Unfetched) = fetched + 1
          /\ Tail(Unfetched) = Numbers(fetched + 1, made)
      BY <2>1, <2>3, NumbersRest
    <3>3. Numbers(out, fetched) \o <<fetched + 1>> = Numbers(out, fetched + 1)
      BY <2>1, NumbersAppend
    <3> QED
      BY <2>1, <3>1, <3>2, <3>3, Zenon DEF Link!Rest, Link!Oldest
  <2> QED
    BY <2>1, <2>2, <2>3
<1>4. Unfetched' \in Seq(Event)
  <2> DEFINE next == fetched'
  <2>1. /\ Unfetched' = Numbers(next, made) /\ next \in Nat /\ made \in Nat /\ next <= made
        /\ made <= MaxEvents /\ MaxEvents \in Nat
    BY BoundsAssumption DEF View
  <2> HIDE DEF next
  <2> QED
    BY <2>1, NumbersType DEF Event
<1>5. Link!Extends(Unfetched', Link!Rest(Unfetched))
  <2>1. Len(Unfetched') \in Nat
    BY <1>4
  <2> QED
    BY <1>3, <2>1 DEF Link!Extends
<1> QED
  BY <1>1, <1>2, <1>3, <1>4, <1>5, Zenon DEF Link!Transfer, Link!HasEvents, ACI_QUEUE_SIZE

(* m_aci_isr and the polled transfer, which take place while there is room. *)
LEMMA TransferIsLinks ==
    ASSUME NoWrap, Inv, View, View', ~ IsFull(rx), TransferCommand, TransferEvent,
           UNCHANGED <<sent, delivered, made>>
    PROVE  Link!Transfer
<1>1. fetched - Len(delivered) < 4
  <2>1. /\ rx.head \in Index /\ rx.tail \in Index
        /\ rx.head <= rx.tail /\ rx.tail <= rx.head + 4
    BY RxIndices DEF Inv
  <2>2. rx.tail # rx.head + 4
    BY DEF IsFull, ACI_QUEUE_SIZE
  <2>3. rx.tail - rx.head < 4
    BY <2>1, <2>2, Room
  <2> QED
    BY <2>3 DEF View
<1>2. IF Len(heard) = sent THEN heard' = heard ELSE Len(heard') = Len(heard) + 1
  <2>1. IsEmpty(tx) <=> Len(heard) = sent
    <3>1. /\ tx.head \in Index /\ tx.tail \in Index
          /\ tx.head <= tx.tail /\ tx.tail <= tx.head + 4
      BY TxIndices DEF Inv
    <3>2. tx.tail = tx.head <=> tx.tail - tx.head = 0
      BY <3>1, Room
    <3>3. sent - Len(heard) = tx.tail - tx.head /\ sent \in Nat /\ Len(heard) \in Nat
      BY DEF View
    <3>4. Len(heard) = sent <=> sent - Len(heard) = 0
      BY <3>3
    <3> QED
      BY <3>2, <3>3, <3>4 DEF IsEmpty
  <2>2. CASE IsEmpty(tx)
    BY <2>1, <2>2 DEF TransferCommand
  <2>3. CASE ~ IsEmpty(tx)
    <3>1. heard' = Append(heard, First(tx)) /\ First(tx) \in Command /\ heard \in Seq(Command)
      BY <2>3, OldestCommand DEF TransferCommand, Inv, TypeOK
    <3>2. Len(heard') = Len(heard) + 1
      BY <3>1
    <3> QED
      BY <2>1, <2>3, <3>2
  <2> QED
    BY <2>2, <2>3
<1>3. fetched' = IF fetched < made THEN fetched + 1 ELSE fetched
  BY DEF TransferEvent
<1> QED
  BY <1>1, <1>2, <1>3, LinkTransfer

LEMMA NextIsLinks ==
    ASSUME NoWrap, Inv, View, View', [Next]_vars
    PROVE  [Link!Next]_(Link!vars)
<1> USE DEF Link!Next
<1>1. CASE Isr
  <2>1. ~ IsFull(rx)
    <3>1. attached /\ rx.tail < rx.head + 4 /\ rx.head \in 0..255
      BY <1>1 DEF Isr, Inv, AttachInv, TypeOK, IsQueueOf, Index
    <3> QED
      BY <3>1 DEF IsFull, ACI_QUEUE_SIZE
  <2>2. Link!Transfer
    BY <1>1, <2>1, TransferIsLinks DEF Isr
  <2> QED
    BY <2>2
<1>2. ASSUME NEW next, EventCheck(next), CheckTransfers PROVE [Link!Next]_(Link!vars)
  <2>1. Link!Transfer
    BY <1>2, TransferIsLinks DEF CheckTransfers
  <2> QED
    BY <2>1
<1>3. CASE SendPush
  <2>1. sent \in Nat /\ sent' = sent + 1 /\ UNCHANGED <<heard, delivered, fetched, made>>
    BY <1>3 DEF SendPush, chip, View
  <2>2. Link!Send
    BY <2>1, LinkSend
  <2> QED
    BY <2>2
<1>4. CASE GetAdvance
  <2>1. /\ delivered' = Append(delivered, packet)
        /\ UNCHANGED <<heard, sent, fetched, made>>
    BY <1>4 DEF GetAdvance, chip
  <2>2. Len(delivered') = Len(delivered) + 1
    <3>1. delivered \in Seq(Event)
      BY DEF Inv, TypeOK
    <3> QED
      BY <2>1, <3>1
  <2>3. Link!Take
    BY <2>1, <2>2, LinkTake
  <2> QED
    BY <2>3
<1>5. CASE MakeEvent
  <2>1. /\ made \in Nat /\ made' = made + 1
        /\ UNCHANGED <<heard, sent, delivered, fetched>>
    BY <1>5 DEF MakeEvent, View
  <2>2. Link!Report
    BY <2>1, LinkReport
  <2> QED
    BY <2>2
<1>6. ASSUME UNCHANGED <<heard, sent, delivered, fetched, made>>
      PROVE  [Link!Next]_(Link!vars)
  <2>1. sent \in Nat
    BY DEF View
  <2>2. Link!Send
    BY <1>6, <2>1, LinkSend
  <2> QED
    BY <2>2
<1>7. CASE RaiseReady \/ SendCheck \/ SendStore \/ SendRequest \/ LowerReqn
           \/ GetWasFull \/ GetCheckEmpty \/ GetCopy \/ GetAttach
           \/ GetCheckRoom \/ GetCheckPending \/ UNCHANGED vars
  <2>1. UNCHANGED <<heard, sent, delivered, fetched, made>>
    BY <1>7 DEF RaiseReady, SendCheck, SendStore, SendRequest, LowerReqn, GetWasFull,
                GetCheckEmpty, GetCopy, GetAttach, GetCheckRoom, GetCheckPending, Looks,
                chip, vars
  <2> QED
    BY <1>6, <2>1
<1>8. ASSUME NEW next, EventCheck(next), CheckSkips \/ CheckRequests
      PROVE  [Link!Next]_(Link!vars)
  <2>1. UNCHANGED <<heard, sent, delivered, fetched, made>>
    BY <1>8 DEF CheckSkips, CheckRequests, Looks, chip
  <2> QED
    BY <1>6, <2>1
<1>9. CASE EventCheck("idle") \/ EventCheck("get")
  <2>1. CheckSkips \/ CheckRequests \/ CheckTransfers
    BY <1>9 DEF EventCheck
  <2> QED
    BY <1>2, <1>8, <1>9, <2>1
<1> QED
  BY <1>1, <1>3, <1>4, <1>5, <1>7, <1>9 DEF Next, SendStep, GetStep

(* What the driver sees of the transport are two bounded FIFO queues: with *)
(* the interrupt routine and the chip between any two steps of the code,   *)
(* every step of it is one step of AciLink, or changes nothing that the    *)
(* driver sees.                                                            *)
THEOREM TransportActsAsLink == ASSUME NoWrap PROVE Spec => ActsAsLink
<1>1. Init => Link!Init
  <2> SUFFICES ASSUME Init PROVE Link!Init
    OBVIOUS
  <2>1. View
    BY InitInv, InvView
  <2>2. Len(delivered) = 0 /\ fetched = 0
    BY DEF Init
  <2>3. Held(rx) = <<>>
    BY <2>1, <2>2, NumbersNone DEF View
  <2>4. /\ Held(tx) \in Seq(Command) /\ Len(Held(tx)) <= 4 /\ Unfetched \in Seq(Event)
    <3>1. /\ Held(tx) \in Seq(Command) /\ Len(Held(tx)) = sent - Len(heard)
          /\ Unfetched \in Seq(Event)
      BY <2>1, ViewType
    <3> QED
      BY <2>1, <3>1 DEF View
  <2> QED
    BY <2>3, <2>4 DEF Link!Init, ACI_QUEUE_SIZE
<1>2. Inv => View
  BY InvView
<1>3. Inv /\ View /\ View' /\ [Next]_vars => [Link!Next]_(Link!vars)
  BY NextIsLinks
<1>4. Spec => []Inv
  BY Invariance
<1>5. Spec => []View
  BY <1>2, <1>4, PTL
<1> QED
  BY <1>1, <1>3, <1>4, <1>5, PTL DEF Spec, ActsAsLink, Link!Spec

=============================================================================
