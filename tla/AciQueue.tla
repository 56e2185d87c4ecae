------------------------------ MODULE AciQueue ------------------------------
(***************************************************************************)
(* The ring buffer of aci_queue.cpp, which holds packets for and from the  *)
(* Bluetooth chip. head and tail are uint8_t and count all packets that    *)
(* ever passed; their remainders by the size pick the slot.                *)
(***************************************************************************)
EXTENDS Integers

ACI_QUEUE_SIZE == 4
Index == 0..255

NoPacket == 0                       \* a packet of length 0

(* A queue through which k packets have passed, all dequeued again.        *)
EmptyAt(k) ==
    [data |-> [i \in 0..ACI_QUEUE_SIZE - 1 |-> NoPacket], head |-> k, tail |-> k]

IsQueueOf(q, Packet) ==
    q \in [data : [0..ACI_QUEUE_SIZE - 1 -> Packet \cup {NoPacket}],
           head : Index, tail : Index]

(* The number of packets that have passed in and not out.                  *)
Count(q) == (q.tail - q.head) % 256

(* The packet that i others are ahead of.                                  *)
Ahead(q, i) == q.data[(q.head + i) % ACI_QUEUE_SIZE]

(* The packets in it, oldest first.                                        *)
Held(q) == [i \in 1..Count(q) |-> Ahead(q, i - 1)]

IsEmpty(q) == q.head = q.tail

(* head + ACI_QUEUE_SIZE is an int, and not reduced to a uint8_t.          *)
IsFull(q) == q.tail = q.head + ACI_QUEUE_SIZE

(* The two halves of an enqueue: the packet is copied, then it counts.     *)
Store(q, p) == [q EXCEPT !.data[q.tail % ACI_QUEUE_SIZE] = p]
Push(q) == [q EXCEPT !.tail = (@ + 1) % 256]

(* MUTANT: the packet is read from the slot after the oldest one.          *)
FirstPlusOne(q) == q.data[(q.head + 1) % ACI_QUEUE_SIZE]

(* The two halves of a dequeue: the packet is copied, then its slot freed. *)
First(q) == q.data[q.head % ACI_QUEUE_SIZE]

Pop(q) == [q EXCEPT !.head = (@ + 1) % 256]

=============================================================================
