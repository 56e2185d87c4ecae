-------------------------- MODULE BluetoothProofs ---------------------------
(***************************************************************************)
(* The safety of a session, for any number of phones and points, and any   *)
(* queues of at least four packets.                                        *)
(***************************************************************************)
EXTENDS Bluetooth, SequenceTheorems, TLAPS

Has(types) == \E i \in 1..Len(Pending) : Pending[i].type \in types
Asked(c) == \E i \in 1..Len(tx) : tx[i] = c

(* What is about a connection: the last that there is of it is its end.    *)
OfLink == {"connected", "pipes", "timing", "data"}
Reports == OfLink \cup {"disconnected"}
Woken == {"started", "wakeup_rsp"}
Replies == {"device_version", "change_timing", "set_local_data"}

-----------------------------------------------------------------------------
(* Where a session is. The radio's answer to connect splits what it was    *)
(* told and what it says into what is of earlier sessions and of this one. *)
Idle == pc \in {"result", "home", "wake"}
Answered == Has({"connect_rsp"})
Heard ==
    \/ pc \in {"receive", "received", "commit", "sleep", "hangup"}
    \/ pc = "advertise" /\ status = "ADVERTISING"
Asking == pc = "advertise" /\ status # "ADVERTISING" /\ ~ Answered

(* One connect, and one answer to it, and only while it is waited for.     *)
OneConnect ==
    /\ \A i, j \in 1..Len(tx) : tx[i] = "connect" /\ tx[j] = "connect" => i = j
    /\ \A i, j \in 1..Len(Pending) :
          Pending[i].type = "connect_rsp" /\ Pending[j].type = "connect_rsp" => i = j
    /\ Answered => ~ Asked("connect")
    /\ Answered \/ Asked("connect") => pc = "advertise" /\ status # "ADVERTISING"

StatusInPhase ==
    /\ pc \in {"home", "result"} => status = "SLEEPING"
    /\ pc = "wake" => status # "ADVERTISING"
    /\ ~ Idle => status # "SLEEPING"

-----------------------------------------------------------------------------
(* Messages                                                                *)

(* Messages and events come from the latest connection, or from those      *)
(* before it, in their order.                                              *)
LinksInOrder ==
    /\ link \in before..before + 1
    /\ mode = "advertising" => link = before
    /\ mode = "connected" => link >= 1
    /\ \A i \in 1..Len(Pending) : Pending[i].link <= link
    /\ \A i, j \in 1..Len(Pending) : i <= j => Pending[i].link <= Pending[j].link
    /\ \A i \in 1..Len(taken) :
          /\ taken[i].link <= link
          /\ \A j \in 1..Len(Pending) : taken[i].link <= Pending[j].link
          /\ hasMessage => taken[i].link <= buffer.link
    /\ \A i, j \in 1..Len(taken) : i <= j => taken[i].link <= taken[j].link
    /\ hasMessage => /\ buffer \in Message
                     /\ buffer.link <= link
                     /\ \A j \in 1..Len(Pending) : buffer.link <= Pending[j].link
    /\ \A i \in 1..Len(Pending) :
          Pending[i].type = "data" => Pending[i].link >= 1 /\ Pending[i].number >= 1

NothingTaken == pc \in {"wake", "advertise"} => taken = <<>>

FreshData(e) == e.type = "data" /\ e.link > before
FreshBuffer == hasMessage /\ buffer.link > before

(* The number of the last message of this session's connection that was    *)
(* given to the writer, or received.                                       *)
Given ==
    IF taken = <<>> \/ taken[Len(taken)].link <= before THEN 0 ELSE taken[Len(taken)].number
Got == IF FreshBuffer THEN buffer.number ELSE Given

(* A message of this session's connection is given to the writer before    *)
(* the next is polled for, and those that are still to come are all there. *)
NumbersInOrder ==
    Heard \/ Answered =>
        /\ FreshBuffer /\ pc \notin {"sleep", "hangup"}
              => pc = "received" /\ buffer.number = Given + 1
        /\ pc \notin {"sleep", "hangup"} =>
            /\ link > before => Got <= spoken
            /\ \A i \in 1..Len(Pending) :
                  FreshData(Pending[i]) => Pending[i].number \in Got + 1..spoken
            /\ \A i, j \in 1..Len(Pending) :
                  FreshData(Pending[i]) /\ FreshData(Pending[j]) /\ i < j
                      => Pending[i].number < Pending[j].number
            /\ link > before =>
                  \A n \in Got + 1..spoken :
                      \E i \in 1..Len(Pending) :
                          FreshData(Pending[i]) /\ Pending[i].number = n

-----------------------------------------------------------------------------
(* The radio                                                               *)

(* The end of a connection is the last of it; it comes when it is over.    *)
EndIsLast ==
    /\ \A i, j \in 1..Len(Pending) :
          Pending[i].type = "disconnected" /\ Pending[j].type \in Reports => j <= i
    /\ Has({"disconnected"}) => mode \in {"standby", "asleep"}
    /\ \A i \in 1..Len(Pending) :
          Pending[i].type \in OfLink /\ mode \in {"standby", "asleep"} => Has({"disconnected"})
    /\ mode = "advertising" => ~ Has(Reports)

(* Between sessions a radio that is not in standby has still to take the   *)
(* command to reset.                                                       *)
ResetIsAhead ==
    /\ Idle /\ mode \in {"advertising", "connected"} =>
          /\ status # "STANDBY"
          /\ ~ Has(Woken)
          /\ \E r \in 1..Len(tx) :
                tx[r] = "radio_reset" /\ \A w \in 1..r : tx[w] # "wakeup"
    /\ Idle =>
          \A i, j \in 1..Len(Pending) :
              Pending[i].type \in Woken /\ Pending[j].type \in Reports => j < i
    /\ pc = "wake" /\ status = "STANDBY" => ~ Has(Reports)
    /\ Asking => mode \in {"standby", "asleep"} /\ ~ Has(Reports)

(* Nothing that the radio is told during a session, but to disconnect,     *)
(* changes its mode.                                                       *)
OnlyReplies ==
    /\ Heard => \A i \in 1..Len(tx) :
          tx[i] \in Replies \/ (pc = "hangup" /\ tx[i] = "disconnect")
    /\ Heard => ~ Has(Woken)
    /\ \A i, j \in 1..Len(tx) : tx[i] = "connect" /\ i < j => tx[j] = "set_local_data"
    /\ Answered => \A i \in 1..Len(tx) : tx[i] = "set_local_data"
    /\ \A i, j \in 1..Len(Pending) :
          Pending[i].type = "connect_rsp" /\ i < j
              => Pending[j].type \notin Woken \cup {"version_rsp", "timing"}
    /\ \A i, j \in 1..Len(Pending) :
          Pending[i].type = "connect_rsp" /\ j < i => Pending[j].type \notin Reports

(* What the radio has reported of this session's connection leads from the *)
(* program's status to the radio's mode.                                   *)
Follows(now) ==
    CASE now = "ADVERTISING" ->
            \/ mode = "advertising" /\ ~ Has({"connected", "disconnected"})
            \/ mode = "connected" /\ Has({"connected"}) /\ ~ Has({"disconnected"})
            \/ /\ mode = "standby"
               /\ \E i, j \in 1..Len(Pending) :
                     i < j /\ Pending[i].type = "connected" /\ Pending[j].type = "disconnected"
      [] now = "CONNECTED" ->
            /\ ~ Has({"connected"})
            /\ \/ mode = "connected" /\ ~ Has({"disconnected"})
               \/ mode = "standby" /\ Has({"disconnected"})
      [] now = "STANDBY" -> mode = "standby" /\ ~ Has({"connected", "disconnected"})
      [] OTHER -> FALSE

StatusFollows ==
    /\ Heard => Follows(status)
    /\ Answered => Follows("ADVERTISING")

(* All that is reported is of this session's connection.                   *)
ReportsAreFresh ==
    Heard \/ Answered =>
        /\ mode = "connected" => link > before
        /\ \A i \in 1..Len(Pending) :
              Pending[i].type \in Reports => Pending[i].link > before
        /\ hasMessage /\ taken # <<>> => buffer.link > before

-----------------------------------------------------------------------------
(* Commands                                                                *)

AfterConnected == {"connected", "version_rsp"}
AfterPipes == {"pipes", "timing"}

(* Each connection is followed by two chains of commands and events:       *)
(* connected, device_version, version_rsp, set_local_data, and pipes,      *)
(* change_timing, timing, set_local_data. A chain is at one place.         *)
AtMostOne(types) ==
    \A i, j \in 1..Len(Pending) :
        Pending[i].type \in types /\ Pending[j].type \in types => i = j

(* So in a session the commands are of different kinds: one that an event  *)
(* of an earlier connection left, one of each chain, and disconnect.       *)
Kind == {"stale", "chain of connected", "chain of pipes", "disconnect"}

KindsOf(kind) ==
    /\ \A i, j \in 1..Len(tx) : kind[i] = kind[j] => i = j
    /\ \A i \in 1..Len(tx) :
          /\ tx[i] = "device_version" => kind[i] = "chain of connected"
          /\ tx[i] = "change_timing" => kind[i] = "chain of pipes"
          /\ tx[i] = "disconnect" <=> kind[i] = "disconnect"
          /\ kind[i] = "chain of connected" => link > before /\ ~ Has(AfterConnected)
          /\ kind[i] = "chain of pipes" => link > before /\ ~ Has(AfterPipes)

CommandsFit ==
    Heard =>
        /\ AtMostOne(AfterConnected) /\ AtMostOne(AfterPipes)
        /\ link = before => ~ Has(AfterConnected \cup AfterPipes)
        /\ \E kind \in [1..Len(tx) -> Kind] : KindsOf(kind)

(* Until the answer to connect is read, there is at most one event left    *)
(* that makes the program send a command behind it.                        *)
OneVersion ==
    /\ Idle \/ Asking =>
          /\ AtMostOne(AfterConnected)
          /\ \A i, j \in 1..Len(tx) :
                tx[i] = "device_version" /\ tx[j] = "device_version" => i = j
          /\ Has(AfterConnected) => ~ Asked("device_version")
    /\ Idle /\ mode = "advertising" => ~ Has(AfterConnected) /\ ~ Asked("device_version")
    /\ \A c \in 1..Len(tx) : tx[c] = "connect" /\ c < Len(tx) =>
          Len(tx) = c + 1 /\ ~ Has(AfterConnected) /\ ~ Asked("device_version")
    /\ Answered =>
          /\ Len(tx) <= 1 /\ AtMostOne(AfterPipes)
          /\ link = before => ~ Has({"connected", "pipes"})
          /\ AtMostOne({"connected"}) /\ AtMostOne({"version_rsp"})
          /\ Has({"version_rsp"}) => tx = <<>>
          /\ ~ Has({"timing"})

Inv ==
    /\ TypeOK /\ OneConnect /\ StatusInPhase
    /\ LinksInOrder /\ NothingTaken /\ MessagesInOrder /\ NumbersInOrder
    /\ EndIsLast /\ ResetIsAhead /\ OnlyReplies /\ StatusFollows /\ ReportsAreFresh
    /\ OneStaleAtMost
    /\ CommandsFit /\ OneVersion

-----------------------------------------------------------------------------
(* What the steps do to the two queues, place by place.                    *)

LEMMA Types ==
    ASSUME TypeOK
    PROVE  /\ Pending \in Seq(Event) /\ Len(Pending) \in Nat
           /\ \A i \in 1..Len(Pending) : Pending[i] \in Event
           /\ tx \in Seq(Command) /\ Len(tx) \in Nat
           /\ \A i \in 1..Len(tx) : tx[i] \in Command
           /\ link \in Nat /\ before \in Nat /\ spoken \in Nat
           /\ taken \in Seq(Message) /\ Len(taken) \in Nat
           /\ \A i \in 1..Len(taken) : taken[i] \in Message
           /\ QueueSize \in Nat \ {0}
<1>1. Pending \in Seq(Event)
  BY DEF TypeOK, Pending
<1>2. MaxLinks \in Nat /\ Length \in Nat
  BY ParametersAssumption DEF Length
<1> HIDE DEF Event, Command, Message, Pending
<1>3. link \in Nat /\ before \in Nat /\ spoken \in Nat
  BY <1>2 DEF TypeOK
<1> QED BY <1>1, <1>3, ParametersAssumption DEF TypeOK

(* Events are added behind all others.                                     *)
Adds(events) ==
    /\ Len(Pending') = Len(Pending) + Len(events)
    /\ \A i \in 1..Len(Pending) : Pending'[i] = Pending[i]
    /\ \A i \in 1..Len(events) : Pending'[Len(Pending) + i] = events[i]

LEMMA AddsToWaiting ==
    ASSUME TypeOK, NEW events \in Seq(Event), rx' = rx, waiting' = waiting \o events
    PROVE  Adds(events) /\ waiting' \in Seq(Event)
<1>1. rx \in Seq(Event) /\ waiting \in Seq(Event)
  BY DEF TypeOK
<1> HIDE DEF Event
<1> QED BY <1>1 DEF Pending, Adds

LEMMA AddsInTransfer ==
    ASSUME TypeOK, NEW events \in Seq(Event),
           rx' = IF waiting = <<>> THEN rx ELSE Append(rx, Head(waiting)),
           waiting' = Rest(waiting) \o events
    PROVE  Adds(events) /\ waiting' \in Seq(Event) /\ rx' \in Seq(Event)
<1>1. rx \in Seq(Event) /\ waiting \in Seq(Event)
  BY DEF TypeOK
<1> HIDE DEF Event
<1>2. CASE waiting = <<>>
  BY <1>1, <1>2 DEF Pending, Adds, Rest
<1>3. CASE waiting # <<>>
  <2>1. /\ Head(waiting) = waiting[1] /\ Head(waiting) \in Event
        /\ Tail(waiting) \in Seq(Event) /\ Len(Tail(waiting)) = Len(waiting) - 1
        /\ \A i \in 1..Len(waiting) - 1 : Tail(waiting)[i] = waiting[i + 1]
        /\ Len(waiting) \in Nat \ {0}
    BY <1>1, <1>3
  <2>2. rx' \in Seq(Event) /\ Len(rx') = Len(rx) + 1 /\ rx'[Len(rx) + 1] = waiting[1]
        /\ \A i \in 1..Len(rx) : rx'[i] = rx[i]
    BY <1>1, <1>3, <2>1
  <2>3. /\ waiting' \in Seq(Event) /\ Len(waiting') = Len(waiting) - 1 + Len(events)
        /\ \A i \in 1..Len(waiting) - 1 : waiting'[i] = waiting[i + 1]
        /\ \A i \in 1..Len(events) : waiting'[Len(waiting) - 1 + i] = events[i]
    BY <1>1, <1>3, <2>1 DEF Rest
  <2>4. /\ Len(Pending) = Len(rx) + Len(waiting)
        /\ \A i \in 1..Len(rx) + Len(waiting) :
              Pending[i] = IF i <= Len(rx) THEN rx[i] ELSE waiting[i - Len(rx)]
    BY <1>1, ConcatProperties DEF Pending
  <2>5. /\ Len(Pending') = Len(rx') + Len(waiting')
        /\ \A i \in 1..Len(rx') + Len(waiting') :
              Pending'[i] = IF i <= Len(rx') THEN rx'[i] ELSE waiting'[i - Len(rx')]
    <3> DEFINE r == rx'
               w == waiting'
    <3>1. Pending' = r \o w /\ r \in Seq(Event) /\ w \in Seq(Event)
      BY <2>2, <2>3 DEF Pending
    <3> HIDE DEF r, w
    <3>2. /\ Len(r \o w) = Len(r) + Len(w)
          /\ \A i \in 1..Len(r) + Len(w) :
                (r \o w)[i] = IF i <= Len(r) THEN r[i] ELSE w[i - Len(r)]
      BY <3>1, ConcatProperties
    <3> QED BY <3>1, <3>2 DEF r, w
  <2>6. Len(rx) \in Nat /\ Len(events) \in Nat
    BY <1>1
  <2>7. Len(Pending') = Len(Pending) + Len(events)
    BY <2>1, <2>2, <2>3, <2>4, <2>5, <2>6
  <2>8. ASSUME NEW i \in 1..Len(Pending) PROVE Pending'[i] = Pending[i]
    <3>1. i \in 1..Len(rx) + Len(waiting) /\ i \in 1..Len(rx') + Len(waiting')
      BY <2>1, <2>2, <2>3, <2>4, <2>6
    <3> DEFINE j == Len(rx) + 1
    <3>0. Pending'[i] = IF i <= Len(rx') THEN rx'[i] ELSE waiting'[i - Len(rx')]
      BY <2>5, <3>1
    <3>2. CASE i <= Len(rx)
      <4>1. Pending[i] = rx[i]
        BY <2>4, <3>1, <3>2
      <4>2. Pending'[i] = rx'[i]
        BY <2>2, <2>6, <3>0, <3>2
      <4> QED BY <2>2, <3>2, <4>1, <4>2
    <3>3. CASE i = Len(rx) + 1
      <4>1. Pending[i] = waiting[1]
        BY <2>4, <2>6, <3>1, <3>3
      <4>2. Pending'[i] = rx'[j]
        BY <2>2, <2>6, <3>0, <3>3
      <4> QED BY <2>2, <4>1, <4>2
    <3>4. CASE i > Len(rx) + 1
      <4> DEFINE k == i - (Len(rx) + 1)
      <4>1. Pending'[i] = waiting'[k] /\ k \in 1..Len(waiting) - 1
        BY <2>1, <2>2, <2>4, <2>5, <2>6, <3>1, <3>4
      <4>2. Pending[i] = waiting[k + 1]
        BY <2>4, <2>6, <3>1, <3>4
      <4> QED BY <2>3, <4>1, <4>2
    <3> QED BY <2>6, <3>2, <3>3, <3>4
  <2>9. ASSUME NEW i \in 1..Len(events) PROVE Pending'[Len(Pending) + i] = events[i]
    <3> DEFINE k == Len(waiting) - 1 + i
               m == Len(Pending) + i
    <3>1. m \in 1..Len(rx') + Len(waiting') /\ ~ (m <= Len(rx')) /\ m - Len(rx') = k
      BY <2>1, <2>2, <2>3, <2>4, <2>6
    <3>2. Pending'[m] = waiting'[k]
      <4> HIDE DEF m, k
      <4> QED BY <2>5, <3>1
    <3> QED BY <2>3, <3>2
  <2> QED BY <2>2, <2>3, <2>7, <2>8, <2>9 DEF Adds
<1> QED BY <1>2, <1>3

(* The oldest event is taken out.                                          *)
LEMMA TakesOldest ==
    ASSUME TypeOK, rx # <<>>, rx' = Tail(rx), waiting' = waiting
    PROVE  /\ Pending' \in Seq(Event)
           /\ Len(Pending) = Len(Pending') + 1 /\ Len(Pending') \in Nat
           /\ Head(rx) = Pending[1] /\ Pending[1] \in Event
           /\ \A i \in 1..Len(Pending') : Pending'[i] = Pending[i + 1]
<1>1. rx \in Seq(Event) /\ waiting \in Seq(Event)
  BY DEF TypeOK
<1> HIDE DEF Event
<1>2. /\ Head(rx) = rx[1] /\ Head(rx) \in Event
      /\ Tail(rx) \in Seq(Event) /\ Len(Tail(rx)) = Len(rx) - 1
      /\ \A i \in 1..Len(rx) - 1 : Tail(rx)[i] = rx[i + 1]
      /\ Len(rx) \in Nat \ {0}
  BY <1>1
<1>3. Len(Pending) = Len(rx) + Len(waiting) /\ Len(Pending') = Len(rx) - 1 + Len(waiting)
  BY <1>1, <1>2 DEF Pending
<1>4. Pending' \in Seq(Event) /\ Pending[1] = rx[1]
  BY <1>1, <1>2 DEF Pending
<1>5. \A i \in 1..Len(Pending') : Pending'[i] = Pending[i + 1]
  <2> SUFFICES ASSUME NEW i \in 1..Len(Pending') PROVE Pending'[i] = Pending[i + 1]
    OBVIOUS
  <2>1. CASE i <= Len(rx) - 1
    BY <1>1, <1>2, <2>1 DEF Pending
  <2>2. CASE i > Len(rx) - 1
    BY <1>1, <1>2, <1>3, <2>2 DEF Pending
  <2> QED BY <1>1, <1>2, <1>3, <2>1, <2>2
<1> QED BY <1>1, <1>2, <1>3, <1>4, <1>5

(* A command goes to the end of its queue, or is dropped when it is full.  *)
LEMMA SendsOne ==
    ASSUME TypeOK, NEW c \in Command, Send(<<c>>)
    PROVE  /\ tx' \in Seq(Command) /\ Len(tx') <= QueueSize
           /\ \A i \in 1..Len(tx) : tx'[i] = tx[i]
           /\ IF Len(tx) < QueueSize
              THEN Len(tx') = Len(tx) + 1 /\ tx'[Len(tx) + 1] = c
              ELSE tx' = tx
<1>1. tx \in Seq(Command) /\ Len(tx) <= QueueSize /\ QueueSize \in Nat
  BY ParametersAssumption DEF TypeOK
<1> HIDE DEF Command
<1> DEFINE all == tx \o <<c>>
<1>2. /\ all \in Seq(Command) /\ Len(all) = Len(tx) + 1 /\ all[Len(tx) + 1] = c
      /\ \A i \in 1..Len(tx) : all[i] = tx[i]
  BY <1>1
<1>3. CASE Len(tx) < QueueSize
  <2>1. tx' = all
    BY <1>1, <1>2, <1>3 DEF Send
  <2> QED BY <1>1, <1>2, <1>3, <2>1
<1>4. CASE Len(tx) = QueueSize
  <2>1. tx' = SubSeq(all, 1, QueueSize)
    BY <1>1, <1>2, <1>4 DEF Send
  <2> HIDE DEF all
  <2>2. tx' \in Seq(Command) /\ Len(tx') = Len(tx) /\ \A i \in 1..Len(tx) : tx'[i] = tx[i]
    BY <1>1, <1>2, <1>4, <2>1
  <2>3. tx' = tx
    BY <1>1, <2>2, SeqEqual
  <2> QED BY <1>1, <1>4, <2>2, <2>3
<1> QED BY <1>1, <1>3, <1>4

LEMMA SendsNone ==
    ASSUME TypeOK, Send(<<>>)
    PROVE  tx' = tx
<1>1. tx \in Seq(Command) /\ Len(tx) <= QueueSize /\ QueueSize \in Nat
  BY ParametersAssumption DEF TypeOK
<1>2. tx \o <<>> = tx
  BY <1>1
<1> QED BY <1>1, <1>2 DEF Send

-----------------------------------------------------------------------------
(* Type correctness, action by action.                                     *)

LEMMA AnswersAreEvents ==
    ASSUME TypeOK, NEW c \in Command
    PROVE  /\ Report(Answer(c)) \in Seq(Event)
           /\ Answer(c) \in Seq(EventType) /\ Len(Answer(c)) \in 0..2
           /\ Len(Report(Answer(c))) = Len(Answer(c))
           /\ \A i \in 1..Len(Answer(c)) :
                 Report(Answer(c))[i].type = Answer(c)[i] /\ Report(Answer(c))[i].link = link
<1>1. Answer(c) \in Seq(EventType) /\ Len(Answer(c)) \in 0..2
  <2>1. \/ Answer(c) = <<>>
        \/ \E a \in EventType : Answer(c) = <<a>>
        \/ \E a, b \in EventType : Answer(c) = <<a, b>>
    BY DEF Answer, EventType
  <2>2. CASE Answer(c) = <<>>
    BY <2>2
  <2>3. ASSUME NEW a \in EventType, Answer(c) = <<a>>
        PROVE  Answer(c) \in Seq(EventType) /\ Len(Answer(c)) \in 0..2
    BY <2>3
  <2>4. ASSUME NEW a \in EventType, NEW b \in EventType, Answer(c) = <<a, b>>
        PROVE  Answer(c) \in Seq(EventType) /\ Len(Answer(c)) \in 0..2
    BY <2>4
  <2> QED BY <2>1, <2>2, <2>3, <2>4
<1>2. link \in 0..MaxLinks /\ 0 \in 0..Length
  BY ParametersAssumption DEF TypeOK, Length
<1> DEFINE a == Answer(c)
<1> HIDE DEF a
<1>3. \A i \in 1..Len(a) : a[i] \in EventType
  BY <1>1 DEF a
<1>4. \A i \in 1..Len(a) : [type |-> a[i], link |-> link, number |-> 0] \in Event
  BY <1>2, <1>3 DEF Event
<1>5. Report(a) \in Seq(Event) /\ Len(Report(a)) = Len(a)
      /\ \A i \in 1..Len(a) : Report(a)[i] = [type |-> a[i], link |-> link, number |-> 0]
  <2> HIDE DEF Event
  <2>1. Len(a) \in Nat
    BY <1>1 DEF a
  <2> QED BY <1>4, <2>1 DEF Report
<1>6. ASSUME NEW i \in 1..Len(a) PROVE Report(a)[i].type = a[i] /\ Report(a)[i].link = link
  <2>1. Report(a)[i] = [type |-> a[i], link |-> link, number |-> 0]
    BY <1>5
  <2> QED BY <2>1
<1> QED BY <1>1, <1>5, <1>6 DEF a

LEMMA ReplyIsCommands ==
    ASSUME NEW e \in Event
    PROVE  Reply(e) = <<>> \/ \E c \in Replies : Reply(e) = <<c>>
BY DEF Reply, Replies

LEMMA SendTypes ==
    ASSUME TypeOK, NEW commands \in Seq(Command), Send(commands)
    PROVE  tx' \in Seq(Command) /\ Len(tx') <= QueueSize
<1>1. tx \in Seq(Command) /\ QueueSize \in Nat
  BY ParametersAssumption DEF TypeOK
<1> DEFINE all == tx \o commands
<1>2. all \in Seq(Command)
  BY <1>1
<1> HIDE DEF Command, all
<1>3. CASE Len(all) <= QueueSize
  BY <1>2, <1>3 DEF Send, all
<1>4. CASE ~ (Len(all) <= QueueSize)
  <2>1. tx' = SubSeq(all, 1, QueueSize)
    BY <1>4 DEF Send, all
  <2> QED BY <1>1, <1>2, <1>4, <2>1
<1> QED BY <1>3, <1>4

(* What the types of a step's result say, in the parts that steps change.  *)
ControlTypes ==
    /\ blue \in BOOLEAN
    /\ pc \in {"home", "wake", "advertise", "receive", "received", "commit", "sleep",
               "hangup", "result"}
    /\ status \in {"STANDBY", "ADVERTISING", "CONNECTED", "SLEEPING"}
    /\ hasMessage \in BOOLEAN /\ timingDone \in BOOLEAN
    /\ buffer \in Message \cup {NoMessage}
    /\ taken \in Seq(Message)
QueueTypes ==
    /\ tx \in Seq(Command) /\ Len(tx) <= QueueSize
    /\ rx \in Seq(Event) /\ Len(rx) <= QueueSize
    /\ waiting \in Seq(Event)
RadioTypes ==
    /\ mode \in {"asleep", "standby", "advertising", "connected"}
    /\ early \in BOOLEAN
    /\ link \in 0..MaxLinks /\ before \in 0..MaxLinks /\ spoken \in 0..Length

LEMMA TransferTypes ==
    ASSUME TypeOK, Transfer
    PROVE  TypeOK'
<1>1. QueueTypes'
  <2> DEFINE events == IF tx = <<>> THEN <<>> ELSE Report(Answer(Head(tx)))
  <2>1. tx \in Seq(Command) /\ Len(tx) <= QueueSize /\ QueueSize \in Nat
    BY ParametersAssumption DEF TypeOK
  <2>2. events \in Seq(Event)
    BY <2>1, AnswersAreEvents
  <2> HIDE DEF events, Event, Command
  <2>3. waiting' \in Seq(Event) /\ rx' \in Seq(Event)
    BY <2>2, AddsInTransfer DEF Transfer, events
  <2>4. Len(rx') <= QueueSize
    <3>1. rx \in Seq(Event) /\ waiting \in Seq(Event) /\ Len(rx) < QueueSize
      BY DEF TypeOK, Transfer, CanTransfer
    <3>2. CASE waiting = <<>>
      BY <3>1, <3>2, <2>1 DEF Transfer
    <3>3. CASE waiting # <<>>
      <4>1. Head(waiting) \in Event
        BY <3>1, <3>3
      <4> QED BY <2>1, <3>1, <3>3, <4>1 DEF Transfer
    <3> QED BY <3>2, <3>3
  <2>5. tx' \in Seq(Command) /\ Len(tx') <= QueueSize
    BY <2>1 DEF Transfer, Rest
  <2> QED BY <2>3, <2>4, <2>5 DEF QueueTypes
<1>2. RadioTypes'
  BY DEF TypeOK, RadioTypes, Transfer, ModeAfter, phone
<1>3. ControlTypes' /\ Store!TypeOK'
  BY DEF TypeOK, ControlTypes, Transfer, driver, storage, Store!TypeOK
<1> HIDE DEF Event, Command, Message
<1> QED BY <1>1, <1>2, <1>3 DEF TypeOK, ControlTypes, QueueTypes, RadioTypes

LEMMA PhoneTypes ==
    ASSUME TypeOK, PhoneConnects \/ PhoneSends \/ PhoneHangsUp
    PROVE  TypeOK'
<1>1. ControlTypes' /\ Store!TypeOK' /\ UNCHANGED <<tx, rx>>
  <2>1. UNCHANGED <<blue, pc, driver, tx, rx, taken, storage>>
    BY DEF PhoneConnects, PhoneSends, PhoneHangsUp
  <2>2. ControlTypes /\ Store!TypeOK
    BY DEF TypeOK, ControlTypes
  <2>3. ControlTypes'
    BY <2>1, <2>2 DEF ControlTypes, driver
  <2>4. Store!TypeOK'
    BY <2>1, <2>2 DEF storage, Store!TypeOK
  <2> QED BY <2>1, <2>3, <2>4
<1>2. Length \in Nat /\ MaxLinks \in Nat
  BY ParametersAssumption DEF Length
<1>3. RadioTypes'
  <2>1. early' \in BOOLEAN
    BY DEF TypeOK, PhoneConnects, PhoneSends, PhoneHangsUp, PhoneActs
  <2>2. UNCHANGED before /\ before \in 0..MaxLinks
    BY DEF TypeOK, PhoneConnects, PhoneSends, PhoneHangsUp
  <2> QED BY <1>2, <2>1, <2>2 DEF TypeOK, RadioTypes, PhoneConnects, PhoneSends, PhoneHangsUp
<1>4. waiting' \in Seq(Event)
  <2>1. waiting \in Seq(Event) /\ link \in 0..MaxLinks /\ spoken \in 0..Length
    BY DEF TypeOK
  <2>2. CASE PhoneConnects
    <3> DEFINE events == [i \in 1..2 |->
           [type |-> <<"connected", "pipes">>[i], link |-> link + 1, number |-> 0]]
    <3>1. link + 1 \in 0..MaxLinks /\ 0 \in 0..Length
      BY <1>2, <2>1, <2>2 DEF PhoneConnects
    <3>2. \A i \in 1..2 : <<"connected", "pipes">>[i] \in EventType
      BY DEF EventType
    <3>3. events \in Seq(Event)
      <4>1. events \in [1..2 -> Event]
        BY <3>1, <3>2 DEF Event
      <4> HIDE DEF events, Event
      <4> QED BY <4>1, SeqDef
    <3> HIDE DEF Event
    <3> QED BY <2>1, <2>2, <3>3 DEF PhoneConnects
  <2>3. CASE PhoneSends
    <3>1. [type |-> "data", link |-> link, number |-> spoken + 1] \in Event
      BY <1>2, <2>1, <2>3 DEF PhoneSends, Event, EventType
    <3> HIDE DEF Event
    <3> QED BY <2>1, <2>3, <3>1 DEF PhoneSends
  <2>4. CASE PhoneHangsUp
    <3> DEFINE events == Report(<<"disconnected">>)
    <3>1. 0 \in 0..Length /\ "disconnected" \in EventType
      BY <1>2 DEF EventType
    <3>2. events \in Seq(Event)
      <4>1. events = <<[type |-> "disconnected", link |-> link, number |-> 0]>>
        BY DEF Report
      <4>2. [type |-> "disconnected", link |-> link, number |-> 0] \in Event
        BY <2>1, <3>1 DEF Event
      <4> HIDE DEF Event, events
      <4> QED BY <4>1, <4>2
    <3> HIDE DEF Event, events
    <3>3. waiting' = waiting \o events
      BY <2>4 DEF PhoneHangsUp, events
    <3> QED BY <2>1, <3>2, <3>3
  <2> QED BY <2>2, <2>3, <2>4
<1>5. QueueTypes'
  <2> HIDE DEF Event, Command
  <2> QED BY <1>1, <1>4 DEF TypeOK, QueueTypes
<1> HIDE DEF Event, Command, Message
<1> QED BY <1>1, <1>3, <1>5 DEF TypeOK, ControlTypes, QueueTypes, RadioTypes

LEMMA PollTypes ==
    ASSUME TypeOK, LinksInOrder, Poll
    PROVE  TypeOK'
<1>1. pc' \in {pc, "received"} /\ UNCHANGED <<blue, radio, phone, before, taken, storage>>
  BY DEF Poll
<1>2. CASE NoEvent
  <2> HIDE DEF Event, Command, Message
  <2> QED BY <1>1, <1>2 DEF NoEvent, driver, radio, phone, storage, TypeOK, Store!TypeOK
<1>3. CASE HandleEvent
  <2> DEFINE e == Head(rx)
  <2>1. e \in Event /\ rx' = Tail(rx) /\ rx # <<>> /\ waiting' = waiting /\ e = Pending[1]
        /\ Len(Pending) \in Nat \ {0}
    BY <1>1, <1>3, TakesOldest DEF HandleEvent, radio
  <2>2. e.type = "data" => e.link >= 1 /\ e.number >= 1
    <3> HIDE DEF e
    <3> QED BY <2>1 DEF LinksInOrder
  <2>3. e.type = "data" => [link |-> e.link, number |-> e.number] \in Message
    <3>1. MaxLinks \in Nat /\ Length \in Nat
      BY ParametersAssumption DEF Length
    <3> HIDE DEF e
    <3> QED BY <2>1, <2>2, <3>1 DEF Event, Message
  <2>4. QueueTypes'
    <3>1. Reply(e) \in Seq(Command)
      <4>1. Replies \subseteq Command
        BY DEF Replies, Command
      <4> HIDE DEF e, Command
      <4>2. CASE Reply(e) = <<>>
        BY <4>2
      <4>3. ASSUME NEW c \in Command, Reply(e) = <<c>> PROVE Reply(e) \in Seq(Command)
        BY <4>3
      <4> QED BY <2>1, <4>1, <4>2, <4>3, ReplyIsCommands
    <3>2. tx' \in Seq(Command) /\ Len(tx') <= QueueSize
      BY <1>3, <3>1, SendTypes DEF HandleEvent
    <3>3. rx' \in Seq(Event) /\ Len(rx') <= QueueSize /\ waiting' \in Seq(Event)
      <4> HIDE DEF Event
      <4> QED BY <2>1, ParametersAssumption DEF TypeOK
    <3> QED BY <3>2, <3>3 DEF QueueTypes
  <2>5. status' \in {"STANDBY", "ADVERTISING", "CONNECTED", "SLEEPING"}
    BY <1>3 DEF HandleEvent, StatusAfter, TypeOK
  <2>6. hasMessage' \in BOOLEAN /\ timingDone' \in BOOLEAN
    BY <1>3 DEF HandleEvent, TypeOK
  <2>7. buffer' \in Message \cup {NoMessage}
    BY <1>3, <2>3 DEF HandleEvent, TypeOK
  <2> HIDE DEF Event, Command, Message
  <2> QED BY <1>1, <2>4, <2>5, <2>6, <2>7
          DEF QueueTypes, radio, phone, storage, TypeOK, Store!TypeOK
<1> QED BY <1>2, <1>3 DEF Poll

LEMMA TakeMessageTypes ==
    ASSUME TypeOK, LinksInOrder, TakeMessage
    PROVE  TypeOK' /\ pc' \in {"sleep", "commit", "receive"}
<1>1. buffer \in Message
  BY DEF TakeMessage, LinksInOrder
<1>2. pc' \in {"sleep", "commit", "receive"}
  BY DEF TakeMessage, WriteCount, WriteCoordinate, EndFailed
<1>3. Store!TypeOK'
  <2>1. Store!TypeOK
    BY DEF TypeOK
  <2>2. CASE WriteCoordinate(buffer)
    <3> HIDE DEF Message
    <3> QED BY <1>1, <2>1, <2>2 DEF WriteCoordinate, Store!Receive, Store!TypeOK
  <2>3. CASE WriteCount(buffer)
    <3>1. CountOf(buffer) \in Nat
      <4>1. buffer.number \in 1..1 + 2 * Points /\ Points \in Nat
        BY <1>1, ParametersAssumption DEF Message, Length
      <4>2. buffer.number # 1 => CountOf(buffer) \in 0..255
        <5> DEFINE n == buffer.number
        <5>1. n # 1 => n \in 2..1 + 2 * Points
          <6> HIDE DEF n
          <6> QED BY <4>1 DEF n
        <5> HIDE DEF n
        <5>2. n # 1 => CoordinateCount[n] \in 0..255
          BY <5>1, ParametersAssumption
        <5> QED BY <5>2 DEF CountOf, n
      <4> QED BY <4>1, <4>2 DEF CountOf
    <3>2. MaxWaypoints \in Nat
      BY ParametersAssumption
    <3> DEFINE n == CountOf(buffer)
    <3> HIDE DEF Message, n
    <3>3. CASE n > MaxWaypoints
      BY <2>1, <2>3, <3>3 DEF WriteCount, EndFailed, Store!TypeOK, storage, n
    <3>4. CASE ~ (n > MaxWaypoints)
      <4>1. path' = NoPath /\ expected' = n /\ incoming' = <<>>
        BY <2>3, <3>4 DEF WriteCount, Store!Begin, n
      <4>2. n \in 0..MaxWaypoints
        BY <3>1, <3>2, <3>4 DEF n
      <4> QED BY <4>1, <4>2 DEF Store!TypeOK
    <3> QED BY <3>3, <3>4
  <2> QED BY <2>2, <2>3 DEF TakeMessage
<1>4. taken' \in Seq(Message)
  BY <1>1 DEF TakeMessage, TypeOK
<1> HIDE DEF Event, Command, Message
<1>5. /\ hasMessage' = FALSE
      /\ UNCHANGED <<blue, status, buffer, timingDone, tx, rx, mode, waiting, link, spoken,
                     early, before>>
  BY DEF TakeMessage, radio, phone
<1> QED BY <1>2, <1>3, <1>4, <1>5 DEF TypeOK

LEMMA ProgramTypes ==
    ASSUME TypeOK, LinksInOrder, Program
    PROVE  TypeOK'
<1> HIDE DEF Event, Command, Message
<1>1. CASE Poll
  BY <1>1, PollTypes
<1>2. CASE TakeMessage
  BY <1>2, TakeMessageTypes
<1>3. CASE StartReceiving \/ KeepWaiting \/ Dismiss
  <2>1. /\ UNCHANGED <<driver, tx, rx, radio, phone, before, taken, storage>>
        /\ pc' \in {"receive", "home"} /\ blue' \in BOOLEAN
    BY <1>3 DEF StartReceiving, KeepWaiting, Dismiss, TypeOK
  <2>2. Store!TypeOK'
    BY <2>1 DEF storage, TypeOK, Store!TypeOK
  <2> QED BY <2>1, <2>2 DEF driver, radio, phone, TypeOK
<1>4. CASE Wake \/ Advertise \/ SleepDisconnects \/ SleepResets
  <2>1. tx' \in Seq(Command) /\ Len(tx') <= QueueSize
    <3>1. <<"wakeup">> \in Seq(Command) /\ <<"connect">> \in Seq(Command)
          /\ <<"disconnect">> \in Seq(Command)
          /\ <<"radio_reset", "sleep">> \in Seq(Command)
      BY DEF Command
    <3>2. \/ Send(<<"wakeup">>) \/ Send(<<"connect">>) \/ Send(<<"disconnect">>)
          \/ Send(<<"radio_reset", "sleep">>)
      BY <1>4 DEF Wake, Advertise, SleepDisconnects, SleepResets
    <3> QED BY <3>1, <3>2, SendTypes
  <2>2. Store!TypeOK'
    BY <1>4 DEF Wake, Advertise, SleepDisconnects, SleepResets, storage, TypeOK, Store!TypeOK
  <2>3. UNCHANGED <<hasMessage, buffer, timingDone, rx, radio, phone, before>>
        /\ (blue' = blue \/ blue' = FALSE) /\ (taken' = taken \/ taken' = <<>>)
        /\ (status' = status \/ status' = "SLEEPING")
        /\ pc' \in {"wake", "advertise", "hangup", "result"}
    BY <1>4 DEF Wake, Advertise, SleepDisconnects, SleepResets, driver
  <2>4. taken' \in Seq(Message) /\ status' \in {"STANDBY", "ADVERTISING", "CONNECTED", "SLEEPING"}
        /\ blue' \in BOOLEAN
    BY <2>3, EmptySeq DEF TypeOK
  <2> QED BY <2>1, <2>2, <2>3, <2>4 DEF radio, phone, TypeOK
<1>5. CASE Quit \/ LinkLost
  <2>1. Store!TypeOK'
    <3>1. Store!TypeOK /\ EndFailed
      BY <1>5 DEF Quit, LinkLost, TypeOK
    <3>2. CASE expected = NoCount
      BY <3>1, <3>2 DEF EndFailed, storage, Store!TypeOK
    <3>3. CASE expected # NoCount
      <4>1. expected' = NoCount /\ incoming' = <<>> /\ path' = path
        BY <3>1, <3>3 DEF EndFailed, Store!Abandon
      <4> QED BY <3>1, <4>1 DEF Store!TypeOK
    <3> QED BY <3>2, <3>3
  <2> QED BY <1>5, <2>1 DEF Quit, LinkLost, EndFailed, driver, radio, phone, TypeOK
<1>6. CASE Succeed
  <2>1. path' \in Seq(Message \X Message)
    <3>1. expected \in Nat /\ incoming \in Seq(Message) /\ Len(incoming) = 2 * expected
      BY <1>6, ParametersAssumption DEF Succeed, Store!Commit, TypeOK, Store!TypeOK
    <3>2. \A i \in 1..expected : 2 * i - 1 \in 1..Len(incoming) /\ 2 * i \in 1..Len(incoming)
      BY <3>1
    <3>3. \A i \in 1..expected : <<incoming[2 * i - 1], incoming[2 * i]>> \in Message \X Message
      BY <3>1, <3>2
    <3>4. path' \in [1..expected -> Message \X Message]
      BY <1>6, <3>3 DEF Succeed, Store!Commit
    <3> QED BY <3>1, <3>4, SeqDef
  <2>2. Store!TypeOK'
    BY <1>6, <2>1 DEF Succeed, Store!Commit, Store!TypeOK, Store!Point
  <2> QED BY <1>6, <2>2 DEF Succeed, driver, radio, phone, TypeOK
<1> QED BY <1>1, <1>2, <1>3, <1>4, <1>5, <1>6 DEF Program

LEMMA TypesKept ==
    ASSUME TypeOK, LinksInOrder, [Next]_vars
    PROVE  TypeOK'
<1>1. CASE PressBlue \/ UNCHANGED vars
  <2>1. Store!TypeOK'
    BY <1>1 DEF PressBlue, vars, storage, TypeOK, Store!TypeOK
  <2>2. /\ UNCHANGED <<pc, driver, tx, rx, radio, phone, before, taken>>
        /\ blue' \in BOOLEAN
    BY <1>1 DEF PressBlue, vars, TypeOK
  <2> HIDE DEF Event, Command, Message
  <2> QED BY <2>1, <2>2 DEF driver, radio, phone, TypeOK
<1> QED BY <1>1, ProgramTypes, TransferTypes, PhoneTypes DEF Next

-----------------------------------------------------------------------------
(* Steps that leave the queues and the radio as they are.                  *)

Quiet == UNCHANGED <<tx, Pending, mode, link, spoken, before>>

Moves ==
    \/ UNCHANGED <<pc, status, hasMessage, buffer, taken>>
    \/ /\ \/ pc = "advertise" /\ status = "ADVERTISING" /\ pc' = "receive"
          \/ pc = "receive" /\ pc' \in {"received", "sleep"}
          \/ pc = "received" /\ ~ hasMessage /\ pc' \in {"receive", "sleep"}
          \/ pc = "commit" /\ pc' = "sleep"
          \/ pc = "result" /\ pc' = "home"
       /\ UNCHANGED <<status, hasMessage, buffer, taken>>

Takes ==
    /\ pc = "received" /\ hasMessage /\ pc' \in {"sleep", "commit", "receive"}
    /\ hasMessage' = FALSE /\ taken' = Append(taken, buffer)
    /\ UNCHANGED <<status, buffer>>

LEMMA QuietSteps ==
    ASSUME [Next]_vars, ~ Transfer, ~ PhoneConnects, ~ PhoneSends, ~ PhoneHangsUp,
           ~ (Poll /\ HandleEvent), ~ Wake, ~ Advertise, ~ SleepDisconnects, ~ SleepResets
    PROVE  Quiet /\ (Moves \/ Takes)
<1>1. CASE PressBlue \/ UNCHANGED vars
  BY <1>1 DEF PressBlue, vars, driver, radio, phone, Quiet, Moves, Pending
<1>2. CASE StartReceiving \/ KeepWaiting \/ Succeed \/ Dismiss
  BY <1>2 DEF StartReceiving, KeepWaiting, Succeed, Dismiss, driver, radio, phone, Quiet, Moves,
              Pending
<1>3. CASE Quit \/ LinkLost
  BY <1>3 DEF Quit, LinkLost, EndFailed, driver, radio, phone, Quiet, Moves, Pending
<1>4. CASE Poll
  BY <1>4 DEF Poll, NoEvent, driver, radio, phone, Quiet, Moves, Pending
<1>5. CASE TakeMessage
  <2>1. pc' \in {"sleep", "commit", "receive"}
    BY <1>5 DEF TakeMessage, WriteCount, WriteCoordinate, EndFailed
  <2> QED BY <1>5, <2>1 DEF TakeMessage, radio, phone, Quiet, Takes, Pending
<1> QED BY <1>1, <1>2, <1>3, <1>4, <1>5 DEF Next, Program

LEMMA QuietKeeps ==
    ASSUME Inv, Quiet, Moves \/ Takes
    PROVE  /\ (Heard' <=> Heard) /\ (Answered' <=> Answered) /\ (Asking' <=> Asking)
           /\ (Idle' <=> Idle)
           /\ OneConnect' /\ StatusInPhase' /\ EndIsLast' /\ ResetIsAhead' /\ OnlyReplies'
           /\ StatusFollows' /\ CommandsFit' /\ OneVersion'
<1>1. (Heard' <=> Heard) /\ (Answered' <=> Answered) /\ (Asking' <=> Asking) /\ (Idle' <=> Idle)
  BY DEF Heard, Answered, Asking, Idle, Has, Quiet, Moves, Takes
<1>2. UNCHANGED <<status, Pending, tx, mode, link, before>>
  BY DEF Quiet, Moves, Takes
<1>3. OneConnect'
  BY <1>1, <1>2 DEF Inv, OneConnect, Answered, Asked, Has, Moves, Takes
<1>4. StatusInPhase'
  BY <1>1, <1>2 DEF Inv, StatusInPhase, Moves, Takes
<1>5. EndIsLast'
  BY <1>2 DEF Inv, EndIsLast, Has
<1>6. ResetIsAhead'
  <2>1. pc' = "wake" => pc = "wake"
    BY DEF Moves, Takes
  <2> QED BY <1>1, <1>2, <2>1 DEF Inv, ResetIsAhead, Has
<1>7. OnlyReplies'
  <2>1. pc = "hangup" => pc' = "hangup"
    BY DEF Moves, Takes
  <2> QED BY <1>1, <1>2, <2>1 DEF Inv, OnlyReplies, Has
<1>8. StatusFollows'
  BY <1>1, <1>2 DEF Inv, StatusFollows, Follows, Has
<1>9. CommandsFit'
  <2> SUFFICES ASSUME Heard'
               PROVE  /\ AtMostOne(AfterConnected)' /\ AtMostOne(AfterPipes)'
                      /\ link' = before' => ~ Has(AfterConnected \cup AfterPipes)'
                      /\ \E kind \in [1..Len(tx') -> Kind] : KindsOf(kind)'
    BY DEF CommandsFit
  <2>1. AtMostOne(AfterConnected)' /\ AtMostOne(AfterPipes)'
    BY <1>1, <1>2 DEF Inv, CommandsFit, AtMostOne
  <2>2. link' = before' => ~ Has(AfterConnected \cup AfterPipes)'
    BY <1>1, <1>2 DEF Inv, CommandsFit, Has
  <2>3. PICK kind \in [1..Len(tx) -> Kind] : KindsOf(kind)
    BY <1>1 DEF Inv, CommandsFit
  <2>4. KindsOf(kind)'
    BY <1>2, <2>3 DEF KindsOf, Has
  <2> QED BY <1>2, <2>1, <2>2, <2>3, <2>4
<1>10. OneVersion'
  BY <1>1, <1>2 DEF Inv, OneVersion, AtMostOne, Has, Asked
<1> QED BY <1>1, <1>3, <1>4, <1>5, <1>6, <1>7, <1>8, <1>9, <1>10

LEMMA MovesKeepMessages ==
    ASSUME Inv, Quiet, Moves
    PROVE  LinksInOrder' /\ NothingTaken' /\ MessagesInOrder' /\ NumbersInOrder'
           /\ ReportsAreFresh' /\ OneStaleAtMost'
<1>1. (Heard' <=> Heard) /\ (Answered' <=> Answered)
  BY QuietKeeps
<1>2. UNCHANGED <<status, hasMessage, buffer, taken, Pending, tx, mode, link, before, spoken>>
  BY DEF Quiet, Moves
<1>3. LinksInOrder'
  BY <1>2 DEF Inv, LinksInOrder
<1>4. NothingTaken'
  BY <1>2 DEF Inv, NothingTaken, Moves
<1>5. MessagesInOrder'
  BY <1>2 DEF Inv, MessagesInOrder
<1>6. NumbersInOrder'
  <2>1. Given' = Given /\ Got' = Got /\ (FreshBuffer' <=> FreshBuffer)
    BY <1>2 DEF Given, Got, FreshBuffer
  <2>2. FreshBuffer /\ pc' \notin {"sleep", "hangup"} /\ (Heard \/ Answered) => pc' = "received"
    BY DEF Inv, NumbersInOrder, Moves, FreshBuffer
  <2>3. pc' \notin {"sleep", "hangup"} => pc \notin {"sleep", "hangup"}
    BY DEF Moves
  <2>4. \A e \in Event : FreshData(e)' <=> FreshData(e)
    BY <1>2 DEF FreshData
  <2> QED BY <1>1, <1>2, <2>1, <2>2, <2>3 DEF Inv, NumbersInOrder, FreshData
<1>7. ReportsAreFresh'
  BY <1>1, <1>2 DEF Inv, ReportsAreFresh
<1>8. OneStaleAtMost'
  BY <1>2 DEF Inv, OneStaleAtMost
<1> QED BY <1>3, <1>4, <1>5, <1>6, <1>7, <1>8

LEMMA TakesKeepMessages ==
    ASSUME Inv, Quiet, Takes
    PROVE  LinksInOrder' /\ NothingTaken' /\ MessagesInOrder' /\ NumbersInOrder'
           /\ ReportsAreFresh' /\ OneStaleAtMost'
<1>1. (Heard' <=> Heard) /\ (Answered' <=> Answered) /\ Heard
  BY QuietKeeps DEF Heard, Takes
<1>2. UNCHANGED <<status, buffer, Pending, tx, mode, link, before, spoken>>
  BY DEF Quiet, Takes
<1>3. /\ buffer \in Message /\ buffer.link <= link
      /\ \A j \in 1..Len(Pending) : buffer.link <= Pending[j].link
      /\ \A i \in 1..Len(taken) : taken[i].link <= buffer.link
  BY DEF Inv, LinksInOrder, Takes
<1> DEFINE n == Len(taken)
<1>4. /\ Len(taken') = n + 1 /\ n \in Nat
      /\ taken'[n + 1] = buffer
      /\ \A i \in 1..n : taken'[i] = taken[i] /\ taken[i] \in Message
  BY Types DEF Inv, Takes
<1>5. /\ \A m \in Message : m.link \in Nat /\ m.number \in Nat \ {0}
      /\ link \in before..before + 1
      /\ before \in Nat /\ link \in Nat
  BY Types, ParametersAssumption DEF Inv, LinksInOrder, Message, Length
<1> HIDE DEF Message, n
<1>6. LinksInOrder'
  <2>1. \A i \in 1..n + 1 : taken'[i].link <= link
    BY <1>3, <1>4 DEF Inv, LinksInOrder, n
  <2>2. \A i \in 1..n + 1 : \A j \in 1..Len(Pending) : taken'[i].link <= Pending[j].link
    BY <1>3, <1>4 DEF Inv, LinksInOrder, n
  <2>3. \A i, j \in 1..n + 1 : i <= j => taken'[i].link <= taken'[j].link
    <3>1. \A i, j \in 1..n : i <= j => taken[i].link <= taken[j].link
      BY DEF Inv, LinksInOrder, n
    <3>2. \A i \in 1..n + 1 : i \in 1..n \/ taken'[i] = buffer
      BY <1>4
    <3> SUFFICES ASSUME NEW i \in 1..n + 1, NEW j \in 1..n + 1, i <= j
                 PROVE  taken'[i].link <= taken'[j].link
      OBVIOUS
    <3>3. CASE j \in 1..n
      BY <1>4, <3>1, <3>3
    <3>4. CASE j = n + 1
      <4>1. taken'[j] = buffer /\ buffer.link <= buffer.link
        BY <1>3, <1>4, <1>5, <3>4
      <4> QED BY <1>3, <1>4, <3>2, <4>1 DEF n
    <3> QED BY <1>4, <3>3, <3>4
  <2>4. hasMessage' = FALSE
    BY DEF Takes
  <2>5. /\ mode = "advertising" => link = before
        /\ mode = "connected" => link >= 1
        /\ \A i \in 1..Len(Pending) : Pending[i].link <= link
        /\ \A i, j \in 1..Len(Pending) : i <= j => Pending[i].link <= Pending[j].link
        /\ \A i \in 1..Len(Pending) :
              Pending[i].type = "data" => Pending[i].link >= 1 /\ Pending[i].number >= 1
    BY DEF Inv, LinksInOrder
  <2> HIDE DEF Takes
  <2> QED BY <1>2, <1>4, <1>5, <2>1, <2>2, <2>3, <2>4, <2>5 DEF LinksInOrder
<1>7. NothingTaken'
  BY DEF NothingTaken, Takes
<1>8. FreshBuffer => buffer.number = Given + 1
  BY <1>1 DEF Takes, Inv, NumbersInOrder
<1>9. ~ FreshBuffer => Given = 0
  BY <1>3, <1>4, <1>5 DEF Given, n, FreshBuffer, Takes
<1>10. MessagesInOrder'
  <2> SUFFICES ASSUME NEW i \in 1..n + 1, taken'[i].link > before
               PROVE  /\ taken'[i].link = before + 1
                      /\ IF taken'[i].number = 1
                         THEN \A j \in 1..i - 1 : taken'[j].link <= before
                         ELSE /\ i > 1
                              /\ taken'[i - 1] = [link |-> before + 1,
                                                  number |-> taken'[i].number - 1]
    BY <1>2, <1>4 DEF MessagesInOrder
  <2>1. CASE i \in 1..n
    <3>1. /\ taken[i].link = before + 1
          /\ IF taken[i].number = 1
             THEN \A j \in 1..i - 1 : taken[j].link <= before
             ELSE /\ i > 1
                  /\ taken[i - 1] = [link |-> before + 1, number |-> taken[i].number - 1]
      BY <1>4, <2>1 DEF Inv, MessagesInOrder, n
    <3>2. \A j \in 1..i - 1 : taken'[j] = taken[j]
      BY <1>4, <2>1
    <3>3. i > 1 => taken'[i - 1] = taken[i - 1]
      BY <1>4, <2>1
    <3> QED BY <1>4, <2>1, <3>1, <3>2, <3>3
  <2>2. CASE i = n + 1
    <3>1. taken'[i] = buffer /\ FreshBuffer
      BY <1>4, <2>2 DEF FreshBuffer, Takes
    <3>2. buffer.link = before + 1
      BY <1>3, <1>5, <3>1 DEF FreshBuffer
    <3>3. CASE taken = <<>> \/ taken[n].link <= before
      <4>1. buffer.number = 1
        BY <1>8, <3>1, <3>3 DEF Given, n
      <4>2. \A j \in 1..n : taken[j].link <= before
        <5>1. \A j \in 1..n : taken[j].link <= taken[n].link /\ taken[j].link \in Nat
              /\ taken[n].link \in Nat
          BY <1>4, <1>5 DEF Inv, LinksInOrder, n
        <5>2. taken = <<>> => n = 0
          BY DEF n
        <5> QED BY <1>4, <1>5, <3>3, <5>1, <5>2
      <4>3. \A j \in 1..i - 1 : taken'[j].link <= before
        BY <1>4, <2>2, <4>2
      <4> QED BY <3>1, <3>2, <4>1, <4>3
    <3>4. CASE taken # <<>> /\ ~ (taken[n].link <= before)
      <4>1. n \in 1..n /\ n > 0 /\ taken[n] \in Message
        <5>1. n > 0
          BY <3>4, Types DEF Inv, n
        <5> QED BY <1>4, <5>1
      <4>2. taken[n].link = before + 1
        BY <1>5, <3>4, <4>1 DEF Inv, LinksInOrder, n
      <4>3. buffer.number = taken[n].number + 1
        BY <1>8, <3>1, <3>4 DEF Given, n
      <4>4. taken[n].number \in Nat \ {0}
        BY <1>5, <4>1
      <4>5. taken[n] = [link |-> before + 1, number |-> buffer.number - 1]
        <5>1. buffer.number - 1 = taken[n].number
          BY <4>3, <4>4
        <5> QED BY <4>1, <4>2, <5>1 DEF Message
      <4>6. taken'[i - 1] = taken[n] /\ i > 1
        BY <1>4, <2>2, <4>1
      <4>7. buffer.number # 1
        BY <4>3, <4>4
      <4> QED BY <3>1, <3>2, <4>5, <4>6, <4>7
    <3> QED BY <3>3, <3>4
  <2> QED BY <1>4, <2>1, <2>2
<1>11. NumbersInOrder'
  <2>1. Got' = Got
    <3>1. taken' # <<>> /\ taken'[Len(taken')] = buffer
      BY <1>4, Types DEF Inv, Takes
    <3>2. Got' = IF buffer.link <= before THEN 0 ELSE buffer.number
      BY <1>2, <3>1 DEF Got, Given, FreshBuffer, Takes
    <3> QED BY <1>3, <1>5, <1>9, <3>2 DEF Got, FreshBuffer, Takes
  <2>2. ~ FreshBuffer'
    BY DEF FreshBuffer, Takes
  <2>3. pc \notin {"sleep", "hangup"}
    BY DEF Takes
  <2> QED BY <1>1, <1>2, <2>1, <2>2, <2>3 DEF Inv, NumbersInOrder, FreshData
<1>12. ReportsAreFresh'
  BY <1>1, <1>2 DEF Inv, ReportsAreFresh, Takes
<1>13. OneStaleAtMost'
  <2>1. taken # <<>> => buffer.link > before
    BY <1>1 DEF Inv, ReportsAreFresh, Takes
  <2>2. \A i \in 2..n + 1 : i = n + 1 => taken # <<>>
    BY <1>4, Types DEF Inv, n
  <2> QED BY <1>2, <1>4, <2>1, <2>2 DEF Inv, OneStaleAtMost, n
<1> QED BY <1>6, <1>7, <1>10, <1>11, <1>12, <1>13

-----------------------------------------------------------------------------
(* Steps that send commands and leave the rest as it is.                   *)

(* What is sent is behind what was there.                                  *)
Extends(new) ==
    /\ Len(tx') \in Nat /\ Len(tx') >= Len(tx)
    /\ \A i \in 1..Len(tx) : tx'[i] = tx[i]
    /\ \A i \in 1..Len(tx') : i > Len(tx) => tx'[i] \in new

LEMMA SendExtends ==
    ASSUME TypeOK, NEW c \in Command, Send(<<c>>)
    PROVE  /\ Extends({c}) /\ Len(tx') <= Len(tx) + 1
           /\ Len(tx) < QueueSize => Len(tx') = Len(tx) + 1 /\ tx'[Len(tx) + 1] = c
<1>1. Len(tx) \in Nat /\ Len(tx) <= QueueSize /\ QueueSize \in Nat
  BY ParametersAssumption DEF TypeOK
<1>2. /\ tx' \in Seq(Command) /\ \A i \in 1..Len(tx) : tx'[i] = tx[i]
      /\ IF Len(tx) < QueueSize
         THEN Len(tx') = Len(tx) + 1 /\ tx'[Len(tx) + 1] = c
         ELSE tx' = tx
  BY SendsOne
<1>3. Len(tx') \in Nat
  BY <1>2
<1>4. ASSUME NEW i \in 1..Len(tx'), i > Len(tx) PROVE tx'[i] = c
  <2>1. i = Len(tx) + 1 /\ Len(tx) < QueueSize
    BY <1>1, <1>2, <1>4
  <2> QED BY <1>2, <2>1
<1> QED BY <1>1, <1>2, <1>3, <1>4 DEF Extends

LEMMA SendTwoExtends ==
    ASSUME TypeOK, NEW c \in Command, NEW d \in Command, Send(<<c, d>>)
    PROVE  /\ Extends({c, d})
           /\ Len(tx) < QueueSize => Len(tx') > Len(tx) /\ tx'[Len(tx) + 1] = c
<1>1. tx \in Seq(Command) /\ Len(tx) <= QueueSize /\ QueueSize \in Nat \ {0}
  BY ParametersAssumption DEF TypeOK
<1> HIDE DEF Command
<1> DEFINE all == tx \o <<c, d>>
<1>2. /\ all \in Seq(Command) /\ Len(all) = Len(tx) + 2
      /\ all[Len(tx) + 1] = c /\ all[Len(tx) + 2] = d
      /\ \A i \in 1..Len(tx) : all[i] = tx[i]
      /\ Len(tx) \in Nat
  BY <1>1
<1>3. \A i \in 1..Len(tx) + 2 : i > Len(tx) => all[i] \in {c, d}
  <2> HIDE DEF all
  <2>1. \A i \in 1..Len(tx) + 2 : i > Len(tx) => i = Len(tx) + 1 \/ i = Len(tx) + 2
    BY <1>2
  <2> QED BY <1>2, <2>1
<1>4. /\ Len(tx') \in Nat /\ Len(tx') <= Len(all) /\ \A i \in 1..Len(tx') : tx'[i] = all[i]
      /\ Len(tx') = IF Len(all) <= QueueSize THEN Len(all) ELSE QueueSize
  <2>1. CASE Len(all) <= QueueSize
    <3>1. tx' = all
      BY <2>1 DEF Send
    <3> HIDE DEF all
    <3> QED BY <1>1, <1>2, <2>1, <3>1
  <2>2. CASE ~ (Len(all) <= QueueSize)
    <3>1. tx' = SubSeq(all, 1, QueueSize)
      BY <2>2 DEF Send
    <3> HIDE DEF all
    <3> QED BY <1>1, <1>2, <2>2, <3>1
  <2> QED BY <2>1, <2>2
<1> HIDE DEF all
<1>5. Len(tx') >= Len(tx) /\ (Len(tx) < QueueSize => Len(tx') > Len(tx))
  BY <1>1, <1>2, <1>4
<1>6. \A i \in 1..Len(tx) : tx'[i] = tx[i]
  BY <1>2, <1>4, <1>5
<1>7. \A i \in 1..Len(tx') : i > Len(tx) => tx'[i] \in {c, d}
  BY <1>2, <1>3, <1>4
<1>8. Len(tx) < QueueSize => tx'[Len(tx) + 1] = c
  BY <1>2, <1>4, <1>5
<1> QED BY <1>4, <1>5, <1>6, <1>7, <1>8 DEF Extends

(* A command is asked for if it was, or has been sent.                     *)
LEMMA AskedBefore ==
    ASSUME TypeOK, NEW new, Extends(new), NEW c
    PROVE  /\ c \notin new => (Asked(c)' => Asked(c))
           /\ \A i \in 1..Len(tx') : tx'[i] \notin new => i \in 1..Len(tx) /\ tx[i] = tx'[i]
<1>1. Len(tx) \in Nat
  BY Types
<1>2. \A i \in 1..Len(tx') : tx'[i] \notin new => i \in 1..Len(tx) /\ tx[i] = tx'[i]
  BY <1>1 DEF Extends
<1> QED BY <1>2 DEF Asked

Sends == UNCHANGED <<Pending, mode, link, spoken, before, hasMessage, buffer>>

(* Outside the session's loop, what concerns messages does not change.     *)
LEMMA SendsKeepMessages ==
    ASSUME Inv, Sends, pc' \in {"wake", "advertise", "hangup", "result"},
           pc \in {"home", "wake", "sleep", "hangup"},
           taken' = taken \/ taken' = <<>>,
           pc' \in {"wake", "advertise"} => taken' = <<>>,
           pc' = "advertise" => status' # "ADVERTISING", Heard' => Heard
    PROVE  /\ ~ Answered /\ ~ Answered'
           /\ LinksInOrder' /\ NothingTaken' /\ MessagesInOrder' /\ NumbersInOrder'
           /\ EndIsLast' /\ ReportsAreFresh' /\ OneStaleAtMost'
<1>1. ~ Answered /\ ~ Answered'
  BY DEF Inv, OneConnect, Answered, Has, Sends
<1>2. UNCHANGED <<Pending, mode, link, spoken, before, hasMessage, buffer>>
  BY DEF Sends
<1>3. taken' = taken \/ Len(taken') = 0
  BY EmptySeq
<1>4. LinksInOrder'
  <2>1. CASE taken' = taken
    BY <1>2, <2>1 DEF Inv, LinksInOrder
  <2>2. CASE Len(taken') = 0
    <3>1. \A i \in 1..Len(taken') : FALSE
      BY <2>2
    <3> QED BY <1>2, <3>1 DEF Inv, LinksInOrder
  <2> QED BY <1>3, <2>1, <2>2
<1>5. NothingTaken'
  BY DEF NothingTaken
<1>6. MessagesInOrder' /\ OneStaleAtMost'
  <2>1. CASE taken' = taken
    BY <1>2, <2>1 DEF Inv, MessagesInOrder, OneStaleAtMost
  <2>2. CASE Len(taken') = 0
    BY <2>2 DEF MessagesInOrder, OneStaleAtMost
  <2> QED BY <1>3, <2>1, <2>2
<1>7. NumbersInOrder'
  BY <1>1 DEF NumbersInOrder, Heard
<1>8. EndIsLast'
  BY <1>2 DEF Inv, EndIsLast, Has
<1>9. ReportsAreFresh'
  <2> SUFFICES ASSUME Heard' PROVE ReportsAreFresh'
    BY <1>1 DEF ReportsAreFresh
  <2>1. Heard /\ (taken' = taken \/ taken' = <<>>)
    OBVIOUS
  <2> QED BY <1>2, <2>1 DEF Inv, ReportsAreFresh
<1> QED BY <1>1, <1>4, <1>5, <1>6, <1>7, <1>8, <1>9

LEMMA WakeKeeps ==
    ASSUME Inv, Wake
    PROVE  Inv'
<1>1. /\ pc = "home" /\ pc' = "wake" /\ status = "SLEEPING" /\ status' = "SLEEPING"
      /\ UNCHANGED <<Pending, mode, link, spoken, before, hasMessage, buffer>> /\ taken' = <<>>
  BY DEF Wake, driver, radio, phone, Pending, Inv, StatusInPhase
<1>2. Sends /\ ~ Heard' /\ ~ Asking' /\ Idle' /\ Idle
  BY <1>1 DEF Sends, Heard, Asking, Idle
<1>3. /\ ~ Answered /\ ~ Answered'
      /\ LinksInOrder' /\ NothingTaken' /\ MessagesInOrder' /\ NumbersInOrder'
      /\ EndIsLast' /\ ReportsAreFresh' /\ OneStaleAtMost'
  BY <1>1, <1>2, SendsKeepMessages
<1>4. Extends({"wakeup"}) /\ TypeOK
  BY SendExtends DEF Wake, Inv, Command
<1>5. /\ \A i \in 1..Len(tx') : tx'[i] # "wakeup" => i \in 1..Len(tx) /\ tx[i] = tx'[i]
      /\ \A i \in 1..Len(tx) : tx'[i] = tx[i] /\ i \in 1..Len(tx')
  <2>1. \A i \in 1..Len(tx') : tx'[i] \notin {"wakeup"} => i \in 1..Len(tx) /\ tx[i] = tx'[i]
    BY <1>4, AskedBefore
  <2>2. \A i \in 1..Len(tx) : tx'[i] = tx[i] /\ i \in 1..Len(tx')
    BY <1>4, Types DEF Extends
  <2> QED BY <2>1, <2>2
<1>6. ~ Asked("connect") /\ ~ Asked("connect")'
  BY <1>1, <1>5 DEF Inv, OneConnect, Asked
<1>7. OneConnect'
  BY <1>1, <1>3, <1>6 DEF Inv, OneConnect, Asked
<1>8. StatusInPhase'
  BY <1>1 DEF StatusInPhase, Idle
<1>9. ResetIsAhead'
  <2>1. ASSUME mode \in {"advertising", "connected"}
        PROVE  /\ ~ Has(Woken)
               /\ \E r \in 1..Len(tx') :
                     tx'[r] = "radio_reset" /\ \A w \in 1..r : tx'[w] # "wakeup"
    <3>1. PICK r \in 1..Len(tx) :
              tx[r] = "radio_reset" /\ \A w \in 1..r : tx[w] # "wakeup"
      BY <1>2, <2>1 DEF Inv, ResetIsAhead
    <3>2. \A w \in 1..r : w \in 1..Len(tx)
      BY Types DEF Inv
    <3>3. tx'[r] = "radio_reset" /\ \A w \in 1..r : tx'[w] # "wakeup"
      BY <1>5, <3>1, <3>2
    <3> QED BY <1>2, <1>5, <2>1, <3>3 DEF Inv, ResetIsAhead
  <2> QED BY <1>1, <1>2, <2>1 DEF Inv, ResetIsAhead, Has
<1>10. OnlyReplies'
  BY <1>1, <1>2, <1>3, <1>6 DEF OnlyReplies, Asked, Inv
<1>11. StatusFollows' /\ CommandsFit'
  BY <1>2, <1>3 DEF StatusFollows, CommandsFit
<1>12. OneVersion'
  <2>1. \A i \in 1..Len(tx') : tx'[i] = "device_version" => i \in 1..Len(tx) /\ tx[i] = tx'[i]
    BY <1>5
  <2> QED BY <1>1, <1>2, <1>3, <1>6, <2>1 DEF Inv, OneVersion, AtMostOne, Has, Asked
<1>13. TypeOK'
  BY TypesKept DEF Inv, Next, Program
<1> QED BY <1>3, <1>7, <1>8, <1>9, <1>10, <1>11, <1>12, <1>13 DEF Inv

LEMMA AdvertiseKeeps ==
    ASSUME Inv, Advertise
    PROVE  Inv'
<1>1. /\ pc = "wake" /\ pc' = "advertise" /\ status = "STANDBY" /\ status' = "STANDBY"
      /\ UNCHANGED <<Pending, mode, link, spoken, before, hasMessage, buffer, taken>>
      /\ taken' = <<>>
  BY DEF Advertise, driver, radio, phone, Pending, Inv, NothingTaken
<1>2. Sends /\ ~ Heard' /\ ~ Idle' /\ Idle
  BY <1>1 DEF Sends, Heard, Idle
<1>3. /\ ~ Answered /\ ~ Answered'
      /\ LinksInOrder' /\ NothingTaken' /\ MessagesInOrder' /\ NumbersInOrder'
      /\ EndIsLast' /\ ReportsAreFresh' /\ OneStaleAtMost'
  BY <1>1, <1>2, SendsKeepMessages
<1>4. Extends({"connect"}) /\ Len(tx') <= Len(tx) + 1 /\ TypeOK
  BY SendExtends DEF Advertise, Inv, Command
<1>5. \A i \in 1..Len(tx') : tx'[i] # "connect" => i \in 1..Len(tx) /\ tx[i] = tx'[i]
  <2>1. \A i \in 1..Len(tx') : tx'[i] \notin {"connect"} => i \in 1..Len(tx) /\ tx[i] = tx'[i]
    BY <1>4, AskedBefore
  <2> QED BY <2>1
<1>6. ~ Asked("connect")
  BY <1>1 DEF Inv, OneConnect
<1>7. \A i \in 1..Len(tx') : tx'[i] = "connect" => i = Len(tx') /\ i = Len(tx) + 1
  <2>1. \A i \in 1..Len(tx) : tx'[i] # "connect"
    BY <1>4, <1>6 DEF Extends, Asked
  <2> QED BY <1>4, <2>1, Types DEF Extends
<1>8. OneConnect'
  BY <1>1, <1>3, <1>7 DEF Inv, OneConnect, Asked
<1>9. StatusInPhase'
  BY <1>1 DEF StatusInPhase, Idle
<1>10. ResetIsAhead'
  <2>1. mode \in {"standby", "asleep"} /\ ~ Has(Reports)
    BY <1>1, <1>2 DEF Inv, TypeOK, ResetIsAhead
  <2> QED BY <1>1, <1>2, <2>1 DEF ResetIsAhead, Has
<1>11. OnlyReplies'
  <2>1. \A i, j \in 1..Len(tx') : tx'[i] = "connect" /\ i < j => FALSE
    BY <1>4, <1>7 DEF Extends
  <2> QED BY <1>1, <1>2, <1>3, <2>1 DEF OnlyReplies, Inv
<1>12. StatusFollows' /\ CommandsFit'
  BY <1>2, <1>3 DEF StatusFollows, CommandsFit
<1>13. OneVersion'
  <2>1. \A i \in 1..Len(tx') : tx'[i] = "device_version" => i \in 1..Len(tx) /\ tx[i] = tx'[i]
    BY <1>5
  <2>2. \A c \in 1..Len(tx') : tx'[c] = "connect" => ~ (c < Len(tx'))
    BY <1>4, <1>7 DEF Extends
  <2> QED BY <1>1, <1>2, <1>3, <2>1, <2>2 DEF Inv, OneVersion, AtMostOne, Has, Asked
<1>14. TypeOK'
  BY TypesKept DEF Inv, Next, Program
<1> QED BY <1>3, <1>8, <1>9, <1>10, <1>11, <1>12, <1>13, <1>14 DEF Inv

(* In a session at most three commands wait while none is to disconnect.   *)
LEMMA RoomForReset ==
    ASSUME Inv, Heard, pc # "hangup"
    PROVE  Len(tx) <= 3
<1>1. PICK kind \in [1..Len(tx) -> Kind] : KindsOf(kind)
  BY DEF Inv, CommandsFit
<1>2. \A i \in 1..Len(tx) : tx[i] # "disconnect"
  BY DEF Inv, OnlyReplies, Replies
<1>3. \A i \in 1..Len(tx) : kind[i] \in {"stale", "chain of connected", "chain of pipes"}
  BY <1>1, <1>2 DEF KindsOf, Kind
<1>4. \A i, j \in 1..Len(tx) : kind[i] = kind[j] => i = j
  BY <1>1 DEF KindsOf
<1>5. ASSUME Len(tx) >= 4 PROVE FALSE
  <2>1. 1 \in 1..Len(tx) /\ 2 \in 1..Len(tx) /\ 3 \in 1..Len(tx) /\ 4 \in 1..Len(tx)
    BY <1>5, Types DEF Inv
  <2>2. /\ kind[1] # kind[2] /\ kind[1] # kind[3] /\ kind[1] # kind[4]
        /\ kind[2] # kind[3] /\ kind[2] # kind[4] /\ kind[3] # kind[4]
    BY <1>4, <2>1
  <2>3. \A i \in {1, 2, 3, 4} : kind[i] \in {"stale", "chain of connected", "chain of pipes"}
    BY <1>3, <2>1
  <2> QED BY <2>2, <2>3
<1> QED BY <1>5, Types DEF Inv

LEMMA SleepDisconnectsKeeps ==
    ASSUME Inv, SleepDisconnects
    PROVE  Inv'
<1>1. /\ pc = "sleep" /\ pc' = "hangup" /\ status = "CONNECTED" /\ status' = "CONNECTED"
      /\ UNCHANGED <<Pending, mode, link, spoken, before, hasMessage, buffer, taken>>
  BY DEF SleepDisconnects, driver, radio, phone, Pending
<1>2. Sends /\ Heard /\ Heard' /\ ~ Idle' /\ ~ Asking'
  BY <1>1 DEF Sends, Heard, Idle, Asking
<1>3. /\ ~ Answered /\ ~ Answered'
      /\ LinksInOrder' /\ NothingTaken' /\ MessagesInOrder' /\ NumbersInOrder'
      /\ EndIsLast' /\ ReportsAreFresh' /\ OneStaleAtMost'
  BY <1>1, <1>2, SendsKeepMessages
<1>4. Extends({"disconnect"}) /\ Len(tx') <= Len(tx) + 1 /\ TypeOK
  BY SendExtends DEF SleepDisconnects, Inv, Command
<1>5. /\ \A i \in 1..Len(tx') : tx'[i] # "disconnect" => i \in 1..Len(tx) /\ tx[i] = tx'[i]
      /\ \A i \in 1..Len(tx') : i \in 1..Len(tx) => tx[i] = tx'[i] /\ tx[i] # "disconnect"
      /\ \A i \in 1..Len(tx') : i \in 1..Len(tx) \/ tx'[i] = "disconnect"
  <2>1. \A i \in 1..Len(tx') : tx'[i] \notin {"disconnect"} => i \in 1..Len(tx) /\ tx[i] = tx'[i]
    BY <1>4, AskedBefore
  <2>2. \A i \in 1..Len(tx) : tx[i] # "disconnect"
    BY <1>1, <1>2 DEF Inv, OnlyReplies, Replies
  <2>3. \A i \in 1..Len(tx) : tx'[i] = tx[i]
    BY <1>4 DEF Extends
  <2> QED BY <2>1, <2>2, <2>3
<1>6. ~ Asked("connect")'
  BY <1>1, <1>5 DEF Inv, OneConnect, Asked
<1>7. OneConnect'
  BY <1>1, <1>3, <1>6 DEF Inv, OneConnect, Asked
<1>8. StatusInPhase'
  BY <1>1 DEF StatusInPhase, Idle
<1>9. ResetIsAhead'
  BY <1>1, <1>2 DEF ResetIsAhead
<1>10. OnlyReplies'
  <2>1. \A i \in 1..Len(tx') : tx'[i] \in Replies \/ tx'[i] = "disconnect"
    BY <1>1, <1>2, <1>5 DEF Inv, OnlyReplies
  <2>2. ~ Has(Woken)' /\ ~ Has({"connect_rsp"})'
    BY <1>1, <1>2, <1>3 DEF Inv, OnlyReplies, Has, Answered
  <2> QED BY <1>1, <1>3, <1>6, <2>1, <2>2 DEF OnlyReplies, Asked, Has
<1>11. StatusFollows'
  BY <1>1, <1>2, <1>3 DEF Inv, StatusFollows, Follows, Has
<1>12. CommandsFit'
  <2>1. PICK kind \in [1..Len(tx) -> Kind] : KindsOf(kind)
    BY <1>2 DEF Inv, CommandsFit
  <2> DEFINE next == [i \in 1..Len(tx') |-> IF i \in 1..Len(tx) THEN kind[i] ELSE "disconnect"]
  <2>2. next \in [1..Len(tx') -> Kind]
    BY <2>1 DEF Kind
  <2>3. \A i \in 1..Len(tx') : i \in 1..Len(tx) => next[i] = kind[i] /\ kind[i] # "disconnect"
    BY <1>5, <2>1 DEF KindsOf
  <2>4. \A i \in 1..Len(tx') : ~ (i \in 1..Len(tx)) => next[i] = "disconnect" /\ i = Len(tx) + 1
    BY <1>4, Types DEF Extends
  <2> HIDE DEF next
  <2>5. \A i, j \in 1..Len(tx') : next[i] = next[j] => i = j
    BY <2>1, <2>3, <2>4 DEF KindsOf
  <2>6. \A i \in 1..Len(tx') :
          /\ tx'[i] = "device_version" => next[i] = "chain of connected"
          /\ tx'[i] = "change_timing" => next[i] = "chain of pipes"
          /\ tx'[i] = "disconnect" <=> next[i] = "disconnect"
          /\ next[i] = "chain of connected" => link > before /\ ~ Has(AfterConnected)
          /\ next[i] = "chain of pipes" => link > before /\ ~ Has(AfterPipes)
    BY <1>5, <2>1, <2>3, <2>4 DEF KindsOf
  <2>7. /\ AtMostOne(AfterConnected)' /\ AtMostOne(AfterPipes)'
        /\ link' = before' => ~ Has(AfterConnected \cup AfterPipes)'
        /\ Has(AfterConnected)' <=> Has(AfterConnected)
        /\ Has(AfterPipes)' <=> Has(AfterPipes)
    BY <1>1, <1>2 DEF Inv, CommandsFit, AtMostOne, Has
  <2>8. \E k \in [1..Len(tx') -> Kind] :
          /\ \A i, j \in 1..Len(tx') : k[i] = k[j] => i = j
          /\ \A i \in 1..Len(tx') :
                /\ tx'[i] = "device_version" => k[i] = "chain of connected"
                /\ tx'[i] = "change_timing" => k[i] = "chain of pipes"
                /\ tx'[i] = "disconnect" <=> k[i] = "disconnect"
                /\ k[i] = "chain of connected" => link' > before' /\ ~ Has(AfterConnected)'
                /\ k[i] = "chain of pipes" => link' > before' /\ ~ Has(AfterPipes)'
    BY <1>1, <2>2, <2>5, <2>6, <2>7
  <2> QED BY <2>7, <2>8 DEF CommandsFit, KindsOf
<1>13. OneVersion'
  BY <1>2, <1>3, <1>6 DEF OneVersion, Asked
<1>14. TypeOK'
  BY TypesKept DEF Inv, Next, Program
<1> QED BY <1>3, <1>7, <1>8, <1>9, <1>10, <1>11, <1>12, <1>13, <1>14 DEF Inv

(* The code's queues hold four packets.                                    *)
LEMMA SleepResetsKeeps ==
    ASSUME QueueSize >= 4, Inv, SleepResets
    PROVE  Inv'
<1>1. /\ \/ pc = "sleep" /\ (status # "CONNECTED" \/ Len(tx) = QueueSize)
         \/ pc = "hangup" /\ status = "STANDBY"
      /\ pc' = "result" /\ status' = "SLEEPING"
      /\ UNCHANGED <<Pending, mode, link, spoken, before, hasMessage, buffer, taken>>
  BY DEF SleepResets, radio, phone, Pending
<1>2. Sends /\ Heard /\ ~ Heard' /\ Idle' /\ ~ Asking'
  BY <1>1 DEF Sends, Heard, Idle, Asking
<1>3. /\ ~ Answered /\ ~ Answered'
      /\ LinksInOrder' /\ NothingTaken' /\ MessagesInOrder' /\ NumbersInOrder'
      /\ EndIsLast' /\ ReportsAreFresh' /\ OneStaleAtMost'
  BY <1>1, <1>2, SendsKeepMessages
<1>4. /\ Extends({"radio_reset", "sleep"}) /\ TypeOK
      /\ Len(tx) < QueueSize => Len(tx') > Len(tx) /\ tx'[Len(tx) + 1] = "radio_reset"
  BY SendTwoExtends DEF SleepResets, Inv, Command
<1>5. \A i \in 1..Len(tx') : tx'[i] \notin {"radio_reset", "sleep"}
          => i \in 1..Len(tx) /\ tx[i] = tx'[i]
  BY <1>4, AskedBefore
<1>6. ~ Asked("connect")'
  BY <1>1, <1>5 DEF Inv, OneConnect, Asked
<1>7. OneConnect'
  BY <1>1, <1>3, <1>6 DEF Inv, OneConnect, Asked
<1>8. StatusInPhase'
  BY <1>1 DEF StatusInPhase, Idle
<1>9. ~ Has(Woken)'
  BY <1>1, <1>2 DEF Inv, OnlyReplies, Has
<1>10. ResetIsAhead'
  <2>1. ASSUME mode \in {"advertising", "connected"}
        PROVE  \E r \in 1..Len(tx') :
                  tx'[r] = "radio_reset" /\ \A w \in 1..r : tx'[w] # "wakeup"
    <3>1. Len(tx) < QueueSize
      <4>1. CASE pc = "sleep"
        BY <1>2, <4>1, RoomForReset, ParametersAssumption, Types DEF Inv
      <4>2. CASE pc = "hangup" /\ status = "STANDBY"
        BY <1>2, <2>1, <4>2 DEF Inv, StatusFollows, Follows
      <4> QED BY <1>1, <4>1, <4>2
    <3> DEFINE r == Len(tx) + 1
    <3>2. r \in 1..Len(tx') /\ tx'[r] = "radio_reset"
      BY <1>4, <3>1, Types DEF Extends
    <3>3. \A w \in 1..r : tx'[w] # "wakeup"
      <4>1. \A i \in 1..Len(tx) : tx[i] # "wakeup"
        BY <1>2 DEF Inv, OnlyReplies, Replies
      <4>2. \A w \in 1..r : w \in 1..Len(tx) \/ w = r
        BY <1>4, Types
      <4> QED BY <1>4, <3>2, <4>1, <4>2 DEF Extends
    <3> QED BY <3>2, <3>3
  <2>2. \A i, j \in 1..Len(Pending') :
            Pending'[i].type \in Woken /\ Pending'[j].type \in Reports => j < i
    BY <1>9 DEF Has
  <2> QED BY <1>1, <1>2, <1>9, <2>1, <2>2 DEF ResetIsAhead
<1>11. OnlyReplies'
  BY <1>2, <1>3, <1>6 DEF OnlyReplies, Asked, Answered, Has
<1>12. StatusFollows' /\ CommandsFit'
  BY <1>2, <1>3 DEF StatusFollows, CommandsFit
<1>13. OneVersion'
  <2>1. PICK kind \in [1..Len(tx) -> Kind] : KindsOf(kind)
    BY <1>2 DEF Inv, CommandsFit
  <2>2. \A i \in 1..Len(tx) : tx[i] = "device_version"
            => kind[i] = "chain of connected" /\ ~ Has(AfterConnected)
    BY <2>1 DEF KindsOf
  <2>3. \A i, j \in 1..Len(tx) : tx[i] = "device_version" /\ tx[j] = "device_version" => i = j
    BY <2>1, <2>2 DEF KindsOf
  <2>4. \A i \in 1..Len(tx') : tx'[i] = "device_version" => i \in 1..Len(tx) /\ tx[i] = tx'[i]
    BY <1>5
  <2>5. AtMostOne(AfterConnected)' /\ (Has(AfterConnected)' <=> Has(AfterConnected))
    BY <1>1, <1>2 DEF Inv, CommandsFit, AtMostOne, Has
  <2>6. mode = "advertising" => ~ Has(AfterConnected)' /\ ~ Asked("device_version")'
    <3> SUFFICES ASSUME mode = "advertising"
                 PROVE  ~ Has(AfterConnected)' /\ ~ Asked("device_version")'
      OBVIOUS
    <3>1. link = before /\ ~ (link > before)
      BY Types DEF Inv, LinksInOrder
    <3>2. ~ Has(AfterConnected)
      BY <1>2, <3>1 DEF Inv, CommandsFit, Has
    <3>3. \A i \in 1..Len(tx) : tx[i] # "device_version"
      BY <2>1, <3>1 DEF KindsOf
    <3> QED BY <2>4, <2>5, <3>2, <3>3 DEF Asked
  <2> QED BY <1>1, <1>3, <1>6, <2>2, <2>3, <2>4, <2>5, <2>6 DEF OneVersion, Asked
<1>14. TypeOK'
  BY TypesKept DEF Inv, Next, Program
<1> QED BY <1>3, <1>7, <1>8, <1>10, <1>11, <1>12, <1>13, <1>14 DEF Inv

-----------------------------------------------------------------------------
(* The phones.                                                             *)

(* Only events of these types, about the latest connection, are added.     *)
Grows(types) ==
    /\ Len(Pending') \in Nat /\ Len(Pending') >= Len(Pending)
    /\ \A i \in 1..Len(Pending) : i \in 1..Len(Pending') /\ Pending'[i] = Pending[i]
    /\ \A i \in 1..Len(Pending') :
          \/ i \in 1..Len(Pending) /\ Pending'[i] = Pending[i]
          \/ i > Len(Pending) /\ Pending'[i].type \in types /\ Pending'[i].link = link'

ByPhone == {"connected", "pipes", "data", "disconnected"}

LEMMA AddsGrows ==
    ASSUME TypeOK, NEW events \in Seq(Event), Adds(events), NEW types,
           \A i \in 1..Len(events) : events[i].type \in types /\ events[i].link = link'
    PROVE  Grows(types)
<1>1. Len(Pending) \in Nat /\ Len(events) \in Nat /\ Len(Pending') = Len(Pending) + Len(events)
  BY Types DEF Adds
<1>2. ASSUME NEW i \in 1..Len(Pending'), i > Len(Pending)
      PROVE  Pending'[i].type \in types /\ Pending'[i].link = link'
  <2> DEFINE k == i - Len(Pending)
  <2>1. k \in 1..Len(events) /\ i = Len(Pending) + k
    BY <1>1, <1>2
  <2> HIDE DEF k
  <2>2. Pending'[i] = events[k]
    BY <2>1 DEF Adds
  <2> QED BY <2>1, <2>2
<1>3. \A i \in 1..Len(Pending) : i \in 1..Len(Pending') /\ Pending'[i] = Pending[i]
  BY <1>1 DEF Adds
<1>4. \A i \in 1..Len(Pending') : i \in 1..Len(Pending) \/ i > Len(Pending)
  BY <1>1
<1> QED BY <1>1, <1>2, <1>3, <1>4 DEF Grows

(* What phones do, as far as what follows needs it.                        *)
PhoneSteps ==
    /\ UNCHANGED <<pc, status, tx, before, hasMessage, buffer, taken>>
    /\ mode \in {"advertising", "connected"}
    /\ link' >= link /\ link' \in Nat /\ link' \in before..before + 1 /\ link' >= 1
    /\ Grows(ByPhone)
    /\ \A i \in 1..Len(Pending') :
          i > Len(Pending) /\ Pending'[i].type = "data" => Pending'[i].number >= 1

LEMMA PhoneKeeps ==
    ASSUME Inv, PhoneSteps,
           mode' = "connected" => link' >= 1, mode' # "advertising",
           Heard \/ Answered => link' > before
    PROVE  /\ (Heard' <=> Heard) /\ (Answered' <=> Answered) /\ (Idle' <=> Idle)
           /\ ~ Asking /\ ~ Asking' /\ ~ (pc = "wake" /\ status = "STANDBY")
           /\ OneConnect' /\ StatusInPhase' /\ LinksInOrder' /\ NothingTaken'
           /\ MessagesInOrder' /\ ResetIsAhead' /\ OnlyReplies' /\ ReportsAreFresh'
           /\ OneStaleAtMost'
<1>1. UNCHANGED <<pc, status, tx, before, hasMessage, buffer, taken>>
      /\ mode \in {"advertising", "connected"} /\ Grows(ByPhone)
  BY DEF PhoneSteps
<1>2. \A i \in 1..Len(Pending') :
          Pending'[i].type \notin ByPhone => i \in 1..Len(Pending) /\ Pending'[i] = Pending[i]
  BY <1>1 DEF Grows
<1>3. Answered' <=> Answered
  BY <1>1, <1>2 DEF Answered, Has, Grows, ByPhone
<1>4. (Heard' <=> Heard) /\ (Idle' <=> Idle) /\ (Asking' <=> Asking)
  BY <1>1, <1>3 DEF Heard, Idle, Asking
<1>5. ~ Asking /\ ~ (pc = "wake" /\ status = "STANDBY")
  BY <1>1 DEF Inv, ResetIsAhead, Idle
<1>6. OneConnect'
  <2>1. \A i \in 1..Len(Pending') : Pending'[i].type = "connect_rsp"
            => i \in 1..Len(Pending) /\ Pending'[i] = Pending[i]
    BY <1>2 DEF ByPhone
  <2> QED BY <1>1, <1>3, <2>1 DEF Inv, OneConnect, Asked
<1>7. StatusInPhase'
  BY <1>1, <1>4 DEF Inv, StatusInPhase
<1>8. LinksInOrder'
  <2>1. /\ link \in Nat /\ \A i \in 1..Len(Pending) : Pending[i].link <= link
        /\ \A i \in 1..Len(Pending) : Pending[i].link \in Nat
    <3>1. TypeOK /\ LinksInOrder /\ MaxLinks \in Nat
      BY ParametersAssumption DEF Inv
    <3>2. \A i \in 1..Len(Pending) : Pending[i].link \in Nat
      BY <3>1, Types DEF Event
    <3> QED BY <3>1, <3>2, Types DEF LinksInOrder
  <2>2. link' >= link /\ link' \in Nat /\ link' \in before'..before' + 1
    BY <1>1 DEF PhoneSteps
  <2>3. \A i \in 1..Len(Pending') : Pending'[i].link <= link'
    BY <1>1, <2>1, <2>2 DEF Grows
  <2>4. \A i, j \in 1..Len(Pending') : i <= j => Pending'[i].link <= Pending'[j].link
    <3> SUFFICES ASSUME NEW i \in 1..Len(Pending'), NEW j \in 1..Len(Pending'), i <= j
                 PROVE  Pending'[i].link <= Pending'[j].link
      OBVIOUS
    <3>1. CASE j \in 1..Len(Pending)
      <4>1. i \in 1..Len(Pending) /\ Pending'[i] = Pending[i] /\ Pending'[j] = Pending[j]
        BY <1>1, <3>1, Types DEF Grows, Inv
      <4> QED BY <3>1, <4>1 DEF Inv, LinksInOrder
    <3>2. CASE ~ (j \in 1..Len(Pending))
      <4>1. Pending'[j].link = link'
        BY <1>1, <3>2 DEF Grows
      <4> QED BY <2>3, <4>1
    <3> QED BY <3>1, <3>2
  <2>5. /\ \A i \in 1..Len(taken) : taken[i].link <= link /\ taken[i].link \in Nat
        /\ hasMessage => buffer.link <= link /\ buffer.link \in Nat /\ buffer \in Message
    <3>1. \A m \in Message : m.link \in Nat
      BY ParametersAssumption DEF Message
    <3> HIDE DEF Message
    <3> QED BY <3>1, Types DEF Inv, LinksInOrder
  <2>6. \A i \in 1..Len(taken) : \A j \in 1..Len(Pending') : taken[i].link <= Pending'[j].link
    <3>1. \A i \in 1..Len(taken) : taken[i].link <= link'
      BY <2>1, <2>2, <2>5
    <3> QED BY <1>1, <3>1 DEF Grows, Inv, LinksInOrder
  <2>7. hasMessage => \A j \in 1..Len(Pending') : buffer.link <= Pending'[j].link
    <3>1. hasMessage => buffer.link <= link'
      BY <2>1, <2>2, <2>5
    <3> QED BY <1>1, <3>1 DEF Grows, Inv, LinksInOrder
  <2>8. \A i \in 1..Len(Pending') :
            Pending'[i].type = "data" => Pending'[i].link >= 1 /\ Pending'[i].number >= 1
    BY <1>1 DEF Grows, PhoneSteps, Inv, LinksInOrder
  <2>9. /\ \A i \in 1..Len(taken) : taken[i].link <= link'
        /\ hasMessage => buffer.link <= link'
    BY <2>1, <2>2, <2>5
  <2>10. /\ \A i \in 1..Len(taken) : hasMessage => taken[i].link <= buffer.link
         /\ \A i, j \in 1..Len(taken) : i <= j => taken[i].link <= taken[j].link
    BY DEF Inv, LinksInOrder
  <2> QED BY <1>1, <2>2, <2>3, <2>4, <2>5, <2>6, <2>7, <2>8, <2>9, <2>10 DEF LinksInOrder
<1>9. NothingTaken' /\ MessagesInOrder' /\ OneStaleAtMost'
  BY <1>1 DEF Inv, NothingTaken, MessagesInOrder, OneStaleAtMost
<1>10. Has(Woken)' <=> Has(Woken)
  BY <1>1, <1>2 DEF Has, Woken, ByPhone, Grows
<1>11. ResetIsAhead'
  <2>1. Idle => ~ Has(Woken)'
    BY <1>1, <1>10 DEF Inv, ResetIsAhead
  <2>2. Idle =>
          /\ status # "STANDBY"
          /\ \E r \in 1..Len(tx) :
                tx[r] = "radio_reset" /\ \A w \in 1..r : tx[w] # "wakeup"
    BY <1>1 DEF Inv, ResetIsAhead
  <2>3. Idle => \A i \in 1..Len(Pending') : Pending'[i].type \notin Woken
    BY <2>1 DEF Has
  <2> QED BY <1>1, <1>4, <1>5, <2>1, <2>2, <2>3 DEF ResetIsAhead
<1>12. OnlyReplies'
  <2>1. \A i, j \in 1..Len(Pending') :
            Pending'[i].type = "connect_rsp" /\ i < j
                => Pending'[j].type \notin Woken \cup {"version_rsp", "timing"}
    <3>1. \A j \in 1..Len(Pending') : Pending'[j].type \in Woken \cup {"version_rsp", "timing"}
              => j \in 1..Len(Pending) /\ Pending'[j] = Pending[j]
      BY <1>2 DEF ByPhone, Woken
    <3>2. \A i \in 1..Len(Pending') : Pending'[i].type = "connect_rsp"
              => i \in 1..Len(Pending) /\ Pending'[i] = Pending[i]
      BY <1>2 DEF ByPhone
    <3> QED BY <3>1, <3>2 DEF Inv, OnlyReplies
  <2>2. \A i, j \in 1..Len(Pending') :
            Pending'[i].type = "connect_rsp" /\ j < i => Pending'[j].type \notin Reports
    <3> SUFFICES ASSUME NEW i \in 1..Len(Pending'), NEW j \in 1..Len(Pending'),
                        Pending'[i].type = "connect_rsp", j < i
                 PROVE  Pending'[j].type \notin Reports
      OBVIOUS
    <3>1. i \in 1..Len(Pending) /\ Pending'[i] = Pending[i]
      BY <1>2 DEF ByPhone
    <3>2. j \in 1..Len(Pending) /\ Pending'[j] = Pending[j]
      BY <1>1, <3>1, Types DEF Grows, Inv
    <3> QED BY <3>1, <3>2 DEF Inv, OnlyReplies
  <2> QED BY <1>1, <1>3, <1>4, <1>10, <2>1, <2>2 DEF Inv, OnlyReplies
<1>13. ReportsAreFresh'
  BY <1>1, <1>3, <1>4 DEF Grows, Inv, ReportsAreFresh
<1> QED BY <1>3, <1>4, <1>5, <1>6, <1>7, <1>8, <1>9, <1>11, <1>12, <1>13

LEMMA PhoneConnectsKeeps ==
    ASSUME Inv, PhoneConnects
    PROVE  Inv'
<1> DEFINE events == [i \in 1..2 |->
           [type |-> <<"connected", "pipes">>[i], link |-> link + 1, number |-> 0]]
<1>1. /\ UNCHANGED <<pc, status, tx, rx, before, hasMessage, buffer, taken>>
      /\ mode = "advertising" /\ mode' = "connected" /\ spoken' = 0
      /\ link' = link + 1 /\ link < MaxLinks
      /\ waiting' = waiting \o events
  BY DEF PhoneConnects, driver
<1>2. /\ link = before /\ before \in Nat /\ Len(Pending) \in Nat /\ TypeOK
      /\ \A i \in 1..Len(Pending) : Pending[i] \in Event
  BY <1>1, Types DEF Inv, LinksInOrder
<1>3. /\ events \in Seq(Event) /\ Len(events) = 2
      /\ events[1].type = "connected" /\ events[2].type = "pipes"
      /\ \A i \in 1..2 : events[i].link = link'
  <2>1. link + 1 \in 0..MaxLinks /\ 0 \in 0..Length
    BY <1>1, <1>2, ParametersAssumption DEF TypeOK, Length
  <2>2. events \in [1..2 -> Event]
    BY <2>1 DEF Event, EventType
  <2>3. events \in Seq(Event)
    <3> HIDE DEF events, Event
    <3> QED BY <2>2, SeqDef
  <2> QED BY <1>1, <2>3
<1> HIDE DEF events
<1>4. Adds(events)
  BY <1>1, <1>2, <1>3, AddsToWaiting
<1>5. /\ Len(Pending') = Len(Pending) + 2
      /\ Pending'[Len(Pending) + 1].type = "connected"
      /\ Pending'[Len(Pending) + 2].type = "pipes"
  BY <1>3, <1>4 DEF Adds
<1>6. Grows({"connected", "pipes"})
  BY <1>2, <1>3, <1>4, AddsGrows
<1>7. /\ \A i \in 1..Len(Pending') : i \in 1..Len(Pending) \/ i = Len(Pending) + 1
                                     \/ i = Len(Pending) + 2
      /\ Len(Pending) + 1 \in 1..Len(Pending') /\ Len(Pending) + 2 \in 1..Len(Pending')
  BY <1>2, <1>5
<1>8. /\ (Heard' <=> Heard) /\ (Answered' <=> Answered) /\ (Idle' <=> Idle)
      /\ ~ Asking /\ ~ Asking'
      /\ OneConnect' /\ StatusInPhase' /\ LinksInOrder' /\ NothingTaken'
      /\ MessagesInOrder' /\ ResetIsAhead' /\ OnlyReplies' /\ ReportsAreFresh'
      /\ OneStaleAtMost'
  <2>1. Grows(ByPhone)
    BY <1>6 DEF Grows, ByPhone
  <2>2. PhoneSteps
    BY <1>1, <1>2, <1>6, <2>1 DEF PhoneSteps, Grows
  <2>3. link' > before /\ link' >= 1
    BY <1>1, <1>2
  <2> QED BY <1>1, <2>2, <2>3, PhoneKeeps
<1>9. NumbersInOrder'
  <2>1. /\ \A i \in 1..Len(taken) : taken[i].link <= before
        /\ hasMessage => buffer.link <= before /\ buffer.link \in Nat
    <3>1. \A m \in Message : m.link \in Nat
      BY ParametersAssumption DEF Message
    <3> QED BY <1>2, <3>1 DEF Inv, LinksInOrder
  <2>2. ~ FreshBuffer'
    BY <1>1, <1>2, <2>1 DEF FreshBuffer
  <2>3. Given = 0
    BY <2>1, Types DEF Given, Inv
  <2>4. Got' = 0
    BY <1>1, <2>2, <2>3 DEF Got, Given
  <2>5. \A i \in 1..Len(Pending') : ~ (Pending'[i].type = "data" /\ Pending'[i].link > before)
    <3>1. \A i \in 1..Len(Pending) : ~ (Pending[i].link > before)
      <4>1. \A i \in 1..Len(Pending) : Pending[i].link <= before /\ Pending[i].link \in Nat
        BY <1>2, ParametersAssumption DEF Inv, LinksInOrder, Event
      <4> QED BY <1>2, <4>1
    <3> QED BY <1>6, <3>1 DEF Grows
  <2> QED BY <1>1, <2>2, <2>4, <2>5 DEF NumbersInOrder, FreshData
<1>10. ~ Has(Reports)
  BY <1>1 DEF Inv, EndIsLast
<1>11. \A i \in 1..Len(Pending') :
          Pending'[i].type \in Reports => Pending'[i].type \in {"connected", "pipes"}
  BY <1>6, <1>10 DEF Grows, Has
<1>12. ~ Has({"disconnected"})' /\ Has({"connected"})'
  BY <1>5, <1>7, <1>11 DEF Has, Reports
<1>13. EndIsLast'
  BY <1>1, <1>12 DEF EndIsLast, Has
<1>14. StatusFollows'
  BY <1>1, <1>8, <1>12 DEF Inv, StatusFollows, Follows
<1>15. CommandsFit'
  <2> SUFFICES ASSUME Heard'
               PROVE  /\ AtMostOne(AfterConnected)' /\ AtMostOne(AfterPipes)'
                      /\ link' = before' => ~ Has(AfterConnected \cup AfterPipes)'
                      /\ \E kind \in [1..Len(tx') -> Kind] : KindsOf(kind)'
    BY DEF CommandsFit
  <2>1. ~ Has(AfterConnected \cup AfterPipes)
    BY <1>2, <1>8 DEF Inv, CommandsFit
  <2>2. AtMostOne(AfterConnected)' /\ AtMostOne(AfterPipes)'
    <3>1. \A i \in 1..Len(Pending) : Pending[i].type \notin AfterConnected \cup AfterPipes
      BY <2>1 DEF Has
    <3>2. \A i \in 1..Len(Pending') :
            /\ Pending'[i].type \in AfterConnected => i = Len(Pending) + 1
            /\ Pending'[i].type \in AfterPipes => i = Len(Pending) + 2
      BY <1>5, <1>6, <1>7, <3>1 DEF Grows, AfterConnected, AfterPipes
    <3> QED BY <3>2 DEF AtMostOne
  <2>3. link' # before'
    BY <1>1, <1>2
  <2>4. PICK kind \in [1..Len(tx) -> Kind] : KindsOf(kind)
    BY <1>8 DEF Inv, CommandsFit
  <2>5. \A i \in 1..Len(tx) : kind[i] \notin {"chain of connected", "chain of pipes"}
    <3>1. ~ (link > before)
      BY <1>2
    <3> QED BY <2>4, <3>1 DEF KindsOf
  <2>6. KindsOf(kind)'
    BY <1>1, <2>4, <2>5 DEF KindsOf
  <2> QED BY <1>1, <2>2, <2>3, <2>4, <2>6
<1>16. OneVersion'
  <2>1. ~ Asked("connect") \/ Answered
    BY <1>8 DEF Asking, Inv, OneConnect
  <2>2. ASSUME Idle
        PROVE  AtMostOne(AfterConnected)' /\ ~ Asked("device_version")
    <3>1. ~ Has(AfterConnected) /\ ~ Asked("device_version")
      BY <1>1, <2>2 DEF Inv, OneVersion
    <3>2. \A i \in 1..Len(Pending') :
            Pending'[i].type \in AfterConnected => i = Len(Pending) + 1
      BY <1>5, <1>6, <1>7, <3>1 DEF Grows, AfterConnected, Has
    <3> QED BY <3>1, <3>2 DEF AtMostOne
  <2>3. ASSUME Answered
        PROVE  /\ Len(tx) <= 1 /\ AtMostOne(AfterPipes)'
               /\ AtMostOne({"connected"})' /\ AtMostOne({"version_rsp"})'
               /\ Has({"version_rsp"})' => tx = <<>>
               /\ ~ Has({"timing"})' /\ ~ Asked("connect")
    <3>1. /\ Len(tx) <= 1
          /\ AtMostOne({"version_rsp"})
          /\ Has({"version_rsp"}) => tx = <<>>
          /\ ~ Has({"timing"}) /\ ~ Asked("connect")
      BY <2>3 DEF Inv, OneVersion, OneConnect
    <3>2. ~ Has({"connected", "pipes"})
      BY <1>2, <2>3 DEF Inv, OneVersion
    <3>3. \A i \in 1..Len(Pending') :
            /\ Pending'[i].type = "connected" => i = Len(Pending) + 1
            /\ Pending'[i].type \in AfterPipes => i = Len(Pending) + 2
            /\ Pending'[i].type = "version_rsp" => i \in 1..Len(Pending) /\ Pending'[i] = Pending[i]
            /\ Pending'[i].type # "timing"
      BY <1>5, <1>6, <1>7, <3>1, <3>2 DEF Grows, AfterPipes, Has
    <3> QED BY <3>1, <3>3 DEF AtMostOne, Has
  <2>4. link' # before'
    BY <1>1, <1>2
  <2>5. Asked("connect")' <=> Asked("connect")
    BY <1>1 DEF Asked
  <2>6. ASSUME NEW c \in 1..Len(tx'), tx'[c] = "connect" PROVE FALSE
    <3>1. Asked("connect") /\ ~ Answered
      BY <1>1, <2>6, <2>3 DEF Asked
    <3> QED BY <2>1, <3>1
  <2> QED BY <1>1, <1>8, <2>2, <2>3, <2>4, <2>6 DEF OneVersion, Asked
<1>17. TypeOK'
  BY TypesKept DEF Inv, Next
<1> QED BY <1>8, <1>9, <1>13, <1>14, <1>15, <1>16, <1>17 DEF Inv

LEMMA PhoneSendsKeeps ==
    ASSUME Inv, PhoneSends
    PROVE  Inv'
<1> DEFINE e == [type |-> "data", link |-> link, number |-> spoken + 1]
           n == Len(Pending) + 1
<1>1. /\ UNCHANGED <<pc, status, tx, rx, before, hasMessage, buffer, taken, mode, link>>
      /\ mode = "connected" /\ spoken < Length /\ spoken' = spoken + 1
      /\ waiting' = waiting \o <<e>>
  <2>1. waiting \in Seq(Event) /\ e \in Event
    <3>1. spoken + 1 \in 0..Length /\ link \in 0..MaxLinks
      BY ParametersAssumption DEF PhoneSends, Inv, TypeOK, Length
    <3> QED BY <3>1 DEF Event, EventType, Inv, TypeOK
  <2> HIDE DEF Event
  <2>2. Append(waiting, e) = waiting \o <<e>>
    BY <2>1
  <2> QED BY <2>2 DEF PhoneSends, driver
<1>2. /\ link \in Nat /\ before \in Nat /\ spoken \in Nat /\ Len(Pending) \in Nat /\ TypeOK
      /\ link >= 1 /\ link \in before..before + 1
      /\ \A i \in 1..Len(Pending) : Pending[i] \in Event
  BY <1>1, Types DEF Inv, LinksInOrder
<1>3. <<e>> \in Seq(Event)
  <2>1. spoken + 1 \in 0..Length /\ link \in 0..MaxLinks
    BY <1>1, ParametersAssumption DEF Inv, TypeOK, Length
  <2>2. e \in Event
    BY <2>1 DEF Event, EventType
  <2> HIDE DEF e, Event
  <2> QED BY <2>2
<1>4. Len(Pending') = n /\ Pending'[n] = e /\ Adds(<<e>>)
  <2> HIDE DEF e
  <2>1. Adds(<<e>>)
    BY <1>1, <1>2, <1>3, AddsToWaiting
  <2>2. Len(<<e>>) = 1 /\ <<e>>[1] = e /\ 1 \in 1..Len(<<e>>)
    OBVIOUS
  <2> QED BY <2>1, <2>2 DEF Adds
<1>5. Grows({"data"})
  <2>1. \A i \in 1..Len(<<e>>) : <<e>>[i].type \in {"data"} /\ <<e>>[i].link = link'
    BY <1>1
  <2> HIDE DEF e
  <2> QED BY <1>2, <1>3, <1>4, <2>1, AddsGrows
<1>6. Pending'[n].type = "data" /\ Pending'[n].link = link /\ Pending'[n].number = spoken + 1
  BY <1>4
<1> HIDE DEF e
<1>7. /\ \A i \in 1..Len(Pending') : i \in 1..Len(Pending) \/ i = n
      /\ n \in 1..Len(Pending')
  BY <1>2, <1>4
<1>8. /\ (Heard' <=> Heard) /\ (Answered' <=> Answered) /\ (Idle' <=> Idle)
      /\ ~ Asking /\ ~ Asking'
      /\ OneConnect' /\ StatusInPhase' /\ LinksInOrder' /\ NothingTaken'
      /\ MessagesInOrder' /\ ResetIsAhead' /\ OnlyReplies' /\ ReportsAreFresh'
      /\ OneStaleAtMost'
  <2>1. Grows(ByPhone)
    BY <1>5 DEF Grows, ByPhone
  <2>2. \A i \in 1..Len(Pending') :
            i > Len(Pending) /\ Pending'[i].type = "data" => Pending'[i].number >= 1
    BY <1>2, <1>6, <1>7
  <2>3. PhoneSteps
    BY <1>1, <1>2, <2>1, <2>2 DEF PhoneSteps
  <2>4. Heard \/ Answered => link' > before
    BY <1>1 DEF Inv, ReportsAreFresh
  <2> QED BY <1>1, <1>2, <2>3, <2>4, PhoneKeeps
<1>9. \A t \in {"connected", "pipes", "timing", "version_rsp", "disconnected"} :
        \A i \in 1..Len(Pending') :
            Pending'[i].type = t => i \in 1..Len(Pending) /\ Pending'[i] = Pending[i]
  BY <1>5 DEF Grows
<1>10. NumbersInOrder'
  <2> SUFFICES ASSUME Heard \/ Answered, pc \notin {"sleep", "hangup"}
               PROVE  NumbersInOrder'
    BY <1>1, <1>8 DEF NumbersInOrder
  <2>1. link > before
    BY <1>1 DEF Inv, ReportsAreFresh
  <2>2. Got' = Got /\ (FreshBuffer' <=> FreshBuffer) /\ Given' = Given
    BY <1>1 DEF Got, FreshBuffer, Given
  <2>3. Got <= spoken /\ Got \in Nat
    <3>1. Got <= spoken
      BY <2>1 DEF Inv, NumbersInOrder
    <3>2. \A m \in Message : m.number \in Nat
      BY ParametersAssumption DEF Message, Length
    <3>3. taken # <<>> => taken[Len(taken)] \in Message
      <4>1. taken # <<>> => Len(taken) \in 1..Len(taken)
        BY Types, EmptySeq DEF Inv
      <4> QED BY <4>1, Types DEF Inv
    <3>4. hasMessage => buffer \in Message
      BY DEF Inv, LinksInOrder
    <3> QED BY <3>1, <3>2, <3>3, <3>4 DEF Got, Given, FreshBuffer
  <2>5. \A i \in 1..Len(Pending) : i \in 1..Len(Pending') /\ Pending'[i] = Pending[i] /\ i < n
    BY <1>2, <1>5 DEF Grows
  <2>4. /\ \A i \in 1..Len(Pending) :
              FreshData(Pending[i]) => Pending[i].number \in Got + 1..spoken
        /\ \A i, j \in 1..Len(Pending) :
              FreshData(Pending[i]) /\ FreshData(Pending[j]) /\ i < j
                  => Pending[i].number < Pending[j].number
        /\ \A k \in Got + 1..spoken :
              \E i \in 1..Len(Pending) : FreshData(Pending[i]) /\ Pending[i].number = k
    BY <2>1 DEF Inv, NumbersInOrder
  <2>6. /\ \A i \in 1..Len(Pending) :
              Pending[i].type = "data" /\ Pending[i].link > before
                  => Pending[i].number \in Got + 1..spoken
        /\ \A i, j \in 1..Len(Pending) :
              (Pending[i].type = "data" /\ Pending[i].link > before
               /\ Pending[j].type = "data" /\ Pending[j].link > before /\ i < j)
                  => Pending[i].number < Pending[j].number
        /\ \A k \in Got + 1..spoken :
              \E i \in 1..Len(Pending) :
                  Pending[i].type = "data" /\ Pending[i].link > before /\ Pending[i].number = k
    BY <2>4 DEF FreshData
  <2>7. \A i \in 1..Len(Pending') :
            Pending'[i].type = "data" /\ Pending'[i].link > before
                => Pending'[i].number \in Got + 1..spoken'
    <3> SUFFICES ASSUME NEW i \in 1..Len(Pending'),
                        Pending'[i].type = "data", Pending'[i].link > before
                 PROVE  Pending'[i].number \in Got + 1..spoken'
      OBVIOUS
    <3>1. CASE i \in 1..Len(Pending)
      <4>1. Pending[i].number \in Got + 1..spoken
        BY <2>5, <2>6, <3>1
      <4>2. Pending'[i] = Pending[i] /\ spoken' = spoken + 1 /\ spoken \in Nat /\ Got \in Nat
        BY <1>1, <1>2, <2>3, <2>5, <3>1
      <4> QED BY <4>1, <4>2
    <3>2. CASE i = n
      BY <1>1, <1>2, <1>6, <1>7, <2>3, <3>2
    <3> QED BY <1>7, <3>1, <3>2
  <2>8. \A i, j \in 1..Len(Pending') :
            (Pending'[i].type = "data" /\ Pending'[i].link > before
             /\ Pending'[j].type = "data" /\ Pending'[j].link > before /\ i < j)
                => Pending'[i].number < Pending'[j].number
    <3> SUFFICES ASSUME NEW i \in 1..Len(Pending'), NEW j \in 1..Len(Pending'), i < j,
                        Pending'[i].type = "data", Pending'[i].link > before,
                        Pending'[j].type = "data", Pending'[j].link > before
                 PROVE  Pending'[i].number < Pending'[j].number
      OBVIOUS
    <3>1. i \in 1..Len(Pending) /\ Pending'[i] = Pending[i]
      <4>1. i # n
        BY <1>4, <1>2
      <4> QED BY <1>7, <2>5, <4>1
    <3>2. CASE j = n
      BY <1>2, <1>6, <2>3, <2>6, <3>1, <3>2
    <3>3. CASE j \in 1..Len(Pending)
      BY <2>5, <2>6, <3>1, <3>3
    <3> QED BY <1>7, <3>2, <3>3
  <2>9. \A k \in Got + 1..spoken' :
            \E i \in 1..Len(Pending') :
                Pending'[i].type = "data" /\ Pending'[i].link > before /\ Pending'[i].number = k
    <3> SUFFICES ASSUME NEW k \in Got + 1..spoken'
                 PROVE  \E i \in 1..Len(Pending') :
                            Pending'[i].type = "data" /\ Pending'[i].link > before
                            /\ Pending'[i].number = k
      OBVIOUS
    <3>1. CASE k \in Got + 1..spoken
      BY <2>5, <2>6, <3>1
    <3>2. CASE k = spoken + 1
      BY <1>1, <1>6, <1>7, <2>1, <3>2
    <3> QED BY <1>1, <1>2, <2>3, <3>1, <3>2
  <2>10. Got <= spoken'
    BY <1>1, <1>2, <2>3
  <2>11. FreshBuffer => pc = "received" /\ buffer.number = Given + 1
    BY DEF Inv, NumbersInOrder
  <2> QED BY <1>1, <2>1, <2>2, <2>7, <2>8, <2>9, <2>10, <2>11 DEF NumbersInOrder, FreshData
<1>11. ~ Has({"disconnected"}) /\ ~ Has({"disconnected"})'
  <2>1. ~ Has({"disconnected"})
    BY <1>1 DEF Inv, EndIsLast
  <2> QED BY <1>9, <2>1 DEF Has
<1>12. EndIsLast'
  BY <1>1, <1>11 DEF EndIsLast, Has
<1>13. \A t \in {"connected", "timing", "version_rsp", "pipes"} :
          Has({t})' <=> Has({t})
  BY <1>5, <1>9 DEF Has, Grows
<1>14. StatusFollows'
  BY <1>1, <1>8, <1>11, <1>13 DEF Inv, StatusFollows, Follows
<1>15. \A types \in SUBSET {"connected", "timing", "version_rsp", "pipes"} :
          /\ AtMostOne(types) => AtMostOne(types)'
          /\ Has(types)' => Has(types)
  BY <1>9 DEF AtMostOne, Has
<1>16. AfterConnected \subseteq {"connected", "timing", "version_rsp", "pipes"}
       /\ AfterPipes \subseteq {"connected", "timing", "version_rsp", "pipes"}
       /\ AfterConnected \cup AfterPipes \subseteq {"connected", "timing", "version_rsp", "pipes"}
  BY DEF AfterConnected, AfterPipes
<1>17. CommandsFit'
  <2> SUFFICES ASSUME Heard'
               PROVE  /\ AtMostOne(AfterConnected)' /\ AtMostOne(AfterPipes)'
                      /\ link' = before' => ~ Has(AfterConnected \cup AfterPipes)'
                      /\ \E kind \in [1..Len(tx') -> Kind] : KindsOf(kind)'
    BY DEF CommandsFit
  <2>1. /\ AtMostOne(AfterConnected) /\ AtMostOne(AfterPipes)
        /\ link = before => ~ Has(AfterConnected \cup AfterPipes)
    BY <1>8 DEF Inv, CommandsFit
  <2>2. PICK kind \in [1..Len(tx) -> Kind] : KindsOf(kind)
    BY <1>8 DEF Inv, CommandsFit
  <2>3. (Has(AfterConnected)' => Has(AfterConnected)) /\ (Has(AfterPipes)' => Has(AfterPipes))
    BY <1>15, <1>16
  <2>4. KindsOf(kind)'
    BY <1>1, <2>2, <2>3 DEF KindsOf
  <2> QED BY <1>1, <1>15, <1>16, <2>1, <2>2, <2>4
<1>18. OneVersion'
  <2>1. ~ Asking' /\ (Asked("device_version")' <=> Asked("device_version"))
        /\ mode' # "advertising"
    BY <1>1, <1>8 DEF Asked
  <2>2. /\ AtMostOne(AfterConnected) => AtMostOne(AfterConnected)'
        /\ AtMostOne(AfterPipes) => AtMostOne(AfterPipes)'
        /\ AtMostOne({"connected"}) => AtMostOne({"connected"})'
        /\ AtMostOne({"version_rsp"}) => AtMostOne({"version_rsp"})'
        /\ Has(AfterConnected)' => Has(AfterConnected)
        /\ Has({"connected", "pipes"})' => Has({"connected", "pipes"})
        /\ Has({"version_rsp"})' => Has({"version_rsp"})
        /\ Has({"timing"})' => Has({"timing"})
    BY <1>15, <1>16
  <2> QED BY <1>1, <1>8, <2>1, <2>2 DEF Inv, OneVersion
<1>19. TypeOK'
  BY TypesKept DEF Inv, Next
<1> QED BY <1>8, <1>10, <1>12, <1>14, <1>17, <1>18, <1>19 DEF Inv

LEMMA PhoneHangsUpKeeps ==
    ASSUME Inv, PhoneHangsUp
    PROVE  Inv'
<1> DEFINE e == [type |-> "disconnected", link |-> link, number |-> 0]
           n == Len(Pending) + 1
<1>1. /\ UNCHANGED <<pc, status, tx, rx, before, hasMessage, buffer, taken, link, spoken>>
      /\ mode = "connected" /\ mode' = "standby"
      /\ waiting' = waiting \o <<e>>
  <2>1. Report(<<"disconnected">>) = <<e>>
    BY DEF Report
  <2> QED BY <2>1 DEF PhoneHangsUp, driver
<1>2. /\ link \in Nat /\ before \in Nat /\ spoken \in Nat /\ Len(Pending) \in Nat /\ TypeOK
      /\ link >= 1 /\ link \in before..before + 1
      /\ \A i \in 1..Len(Pending) : Pending[i] \in Event
  BY <1>1, Types DEF Inv, LinksInOrder
<1>3. <<e>> \in Seq(Event)
  <2>1. 0 \in 0..Length /\ link \in 0..MaxLinks
    BY <1>1, ParametersAssumption DEF Inv, TypeOK, Length
  <2>2. e \in Event
    BY <2>1 DEF Event, EventType
  <2> HIDE DEF e, Event
  <2> QED BY <2>2
<1>4. Len(Pending') = n /\ Pending'[n] = e /\ Adds(<<e>>)
  <2> HIDE DEF e
  <2>1. Adds(<<e>>)
    BY <1>1, <1>2, <1>3, AddsToWaiting
  <2>2. Len(<<e>>) = 1 /\ <<e>>[1] = e /\ 1 \in 1..Len(<<e>>)
    OBVIOUS
  <2> QED BY <2>1, <2>2 DEF Adds
<1>5. Grows({"disconnected"})
  <2>1. \A i \in 1..Len(<<e>>) : <<e>>[i].type \in {"disconnected"} /\ <<e>>[i].link = link'
    BY <1>1
  <2> HIDE DEF e
  <2> QED BY <1>2, <1>3, <1>4, <2>1, AddsGrows
<1>6. Pending'[n].type = "disconnected"
  BY <1>4
<1> HIDE DEF e
<1>7. /\ \A i \in 1..Len(Pending') : i \in 1..Len(Pending) \/ i = n
      /\ \A i \in 1..Len(Pending) : i \in 1..Len(Pending') /\ Pending'[i] = Pending[i] /\ i < n
      /\ n \in 1..Len(Pending')
  BY <1>2, <1>4, <1>5 DEF Grows
<1>8. /\ (Heard' <=> Heard) /\ (Answered' <=> Answered) /\ (Idle' <=> Idle)
      /\ ~ Asking /\ ~ Asking' /\ ~ (pc = "wake" /\ status = "STANDBY")
      /\ OneConnect' /\ StatusInPhase' /\ LinksInOrder' /\ NothingTaken'
      /\ MessagesInOrder' /\ ResetIsAhead' /\ OnlyReplies' /\ ReportsAreFresh'
      /\ OneStaleAtMost'
  <2>1. Grows(ByPhone)
    BY <1>5 DEF Grows, ByPhone
  <2>2. \A i \in 1..Len(Pending') :
            i > Len(Pending) /\ Pending'[i].type = "data" => Pending'[i].number >= 1
    BY <1>2, <1>6, <1>7
  <2>3. PhoneSteps
    BY <1>1, <1>2, <2>1, <2>2 DEF PhoneSteps
  <2>4. Heard \/ Answered => link' > before
    BY <1>1 DEF Inv, ReportsAreFresh
  <2> QED BY <1>1, <1>2, <2>3, <2>4, PhoneKeeps
<1>9. \A t \in {"connected", "pipes", "timing", "version_rsp", "data"} :
        \A i \in 1..Len(Pending') :
            Pending'[i].type = t => i \in 1..Len(Pending) /\ Pending'[i] = Pending[i]
  BY <1>5 DEF Grows
<1>10. NumbersInOrder'
  <2>1. Got' = Got /\ (FreshBuffer' <=> FreshBuffer) /\ Given' = Given
    BY <1>1 DEF Got, FreshBuffer, Given
  <2>2. \A i \in 1..Len(Pending') :
            Pending'[i].type = "data" => i \in 1..Len(Pending) /\ Pending'[i] = Pending[i]
    BY <1>9
  <2>3. NumbersInOrder
    BY DEF Inv
  <2>4. UNCHANGED <<pc, buffer, link, spoken, before>>
    BY <1>1
  <2>5. \A i \in 1..Len(Pending) : i \in 1..Len(Pending') /\ Pending'[i] = Pending[i]
    BY <1>7
  <2> QED BY <1>8, <2>1, <2>2, <2>3, <2>4, <2>5 DEF NumbersInOrder, FreshData
<1>11. ~ Has({"disconnected"}) /\ Has({"disconnected"})'
  BY <1>1, <1>6, <1>7 DEF Inv, EndIsLast, Has
<1>12. EndIsLast'
  <2>1. \A i \in 1..Len(Pending') : Pending'[i].type = "disconnected" => i = n
    BY <1>7, <1>11 DEF Has
  <2>2. \A i, j \in 1..Len(Pending') :
            Pending'[i].type = "disconnected" /\ Pending'[j].type \in Reports => j <= i
    BY <1>2, <1>4, <2>1
  <2> QED BY <1>1, <1>11, <2>2 DEF EndIsLast
<1>13. \A t \in {"connected", "timing", "version_rsp", "pipes"} :
          Has({t})' <=> Has({t})
  BY <1>7, <1>9 DEF Has
<1>14. StatusFollows'
  <2>1. Has({"connected"}) =>
            \E i, j \in 1..Len(Pending') :
               i < j /\ Pending'[i].type = "connected" /\ Pending'[j].type = "disconnected"
    BY <1>6, <1>7 DEF Has
  <2>2. ASSUME NEW now, Follows(now)
        PROVE  \/ now = "ADVERTISING" /\ Has({"connected"})
               \/ now = "CONNECTED" /\ ~ Has({"connected"})
    BY <1>1, <2>2 DEF Follows
  <2>3. Heard => \/ status = "ADVERTISING" /\ Has({"connected"})
                 \/ status = "CONNECTED" /\ ~ Has({"connected"})
    BY <2>2 DEF Inv, StatusFollows
  <2>4. Answered => Has({"connected"})
    BY <2>2 DEF Inv, StatusFollows
  <2> QED BY <1>1, <1>8, <1>11, <1>13, <2>1, <2>3, <2>4 DEF StatusFollows, Follows
<1>15. \A types \in SUBSET {"connected", "timing", "version_rsp", "pipes"} :
          /\ AtMostOne(types) => AtMostOne(types)'
          /\ Has(types)' => Has(types)
  BY <1>9 DEF AtMostOne, Has
<1>16. AfterConnected \subseteq {"connected", "timing", "version_rsp", "pipes"}
       /\ AfterPipes \subseteq {"connected", "timing", "version_rsp", "pipes"}
       /\ AfterConnected \cup AfterPipes \subseteq {"connected", "timing", "version_rsp", "pipes"}
  BY DEF AfterConnected, AfterPipes
<1>17. CommandsFit'
  <2> SUFFICES ASSUME Heard'
               PROVE  /\ AtMostOne(AfterConnected)' /\ AtMostOne(AfterPipes)'
                      /\ link' = before' => ~ Has(AfterConnected \cup AfterPipes)'
                      /\ \E kind \in [1..Len(tx') -> Kind] : KindsOf(kind)'
    BY DEF CommandsFit
  <2>1. /\ AtMostOne(AfterConnected) /\ AtMostOne(AfterPipes)
        /\ link = before => ~ Has(AfterConnected \cup AfterPipes)
    BY <1>8 DEF Inv, CommandsFit
  <2>2. PICK kind \in [1..Len(tx) -> Kind] : KindsOf(kind)
    BY <1>8 DEF Inv, CommandsFit
  <2>3. (Has(AfterConnected)' => Has(AfterConnected)) /\ (Has(AfterPipes)' => Has(AfterPipes))
    BY <1>15, <1>16
  <2>4. KindsOf(kind)'
    BY <1>1, <2>2, <2>3 DEF KindsOf
  <2> QED BY <1>1, <1>15, <1>16, <2>1, <2>2, <2>4
<1>18. OneVersion'
  <2>1. ~ Asking' /\ (Asked("device_version")' <=> Asked("device_version"))
        /\ mode' # "advertising"
    BY <1>1, <1>8 DEF Asked
  <2>2. /\ AtMostOne(AfterConnected) => AtMostOne(AfterConnected)'
        /\ AtMostOne(AfterPipes) => AtMostOne(AfterPipes)'
        /\ AtMostOne({"connected"}) => AtMostOne({"connected"})'
        /\ AtMostOne({"version_rsp"}) => AtMostOne({"version_rsp"})'
        /\ Has(AfterConnected)' => Has(AfterConnected)
        /\ Has({"connected", "pipes"})' => Has({"connected", "pipes"})
        /\ Has({"version_rsp"})' => Has({"version_rsp"})
        /\ Has({"timing"})' => Has({"timing"})
    BY <1>15, <1>16
  <2> QED BY <1>1, <1>8, <2>1, <2>2 DEF Inv, OneVersion
<1>19. TypeOK'
  BY TypesKept DEF Inv, Next
<1> QED BY <1>8, <1>10, <1>12, <1>14, <1>17, <1>18, <1>19 DEF Inv

-----------------------------------------------------------------------------
(* bluetooth_poll, when there is an event.                                 *)

First == Pending[1].type

Shrinks ==
    /\ Len(Pending') \in Nat /\ Len(Pending) = Len(Pending') + 1
    /\ 1 \in 1..Len(Pending)
    /\ \A i \in 1..Len(Pending') :
          i + 1 \in 1..Len(Pending) /\ i + 1 > 1 /\ Pending'[i] = Pending[i + 1]
    /\ \A i \in 1..Len(Pending) :
          i # 1 => i - 1 \in 1..Len(Pending') /\ Pending'[i - 1] = Pending[i]

(* At most one command is sent, and it depends on the event.               *)
Replying ==
    /\ Extends(Replies) /\ Len(tx') <= Len(tx) + 1
    /\ tx' = tx \/ Len(tx') = Len(tx) + 1
    /\ \A i \in 1..Len(tx') : i > Len(tx) =>
          \/ tx'[i] = "device_version" /\ First = "connected"
          \/ tx'[i] = "change_timing" /\ First = "pipes"
          \/ tx'[i] = "set_local_data" /\ First \in {"version_rsp", "timing"}

Receives ==
    /\ First = "data" => hasMessage' = TRUE /\ buffer' \in Message
                         /\ buffer'.link = Pending[1].link /\ buffer'.number = Pending[1].number
    /\ First # "data" => UNCHANGED <<hasMessage, buffer>>

Polls ==
    /\ Shrinks /\ Replying /\ Receives
    /\ UNCHANGED <<mode, link, spoken, before, taken>>
    /\ status' = CASE First \in {"started", "wakeup_rsp", "disconnected"} -> "STANDBY"
                   [] First = "connect_rsp"                               -> "ADVERTISING"
                   [] First = "connected"                                 -> "CONNECTED"
                   [] OTHER                                               -> status
    /\ \/ pc \in {"wake", "hangup"} /\ status # "STANDBY" /\ pc' = pc
       \/ pc = "advertise" /\ status # "ADVERTISING" /\ pc' = pc
       \/ pc = "receive" /\ pc' = "received"

LEMMA PollEffect ==
    ASSUME Inv, Poll, HandleEvent
    PROVE  Polls
<1> DEFINE e == Head(rx)
<1>1. /\ rx # <<>> /\ rx' = Tail(rx) /\ TypeOK
      /\ UNCHANGED <<waiting, mode, link, spoken, before, taken>>
  BY DEF Poll, HandleEvent, radio, phone, Inv
<1>2. /\ Len(Pending) = Len(Pending') + 1 /\ Len(Pending') \in Nat
      /\ e = Pending[1] /\ e \in Event
      /\ \A i \in 1..Len(Pending') : Pending'[i] = Pending[i + 1]
  BY <1>1, TakesOldest
<1>3. Shrinks
  <2>1. \A i \in 1..Len(Pending) : i = 1 \/ i - 1 \in 1..Len(Pending')
    BY <1>2
  <2>2. \A i \in 1..Len(Pending) : i \in Nat /\ (i - 1) + 1 = i
    BY <1>2
  <2>3. \A i \in 1..Len(Pending') : i + 1 \in 1..Len(Pending) /\ i + 1 > 1
    BY <1>2
  <2>4. ASSUME NEW i \in 1..Len(Pending), i # 1 PROVE Pending'[i - 1] = Pending[i]
    <3> DEFINE k == i - 1
    <3>1. k \in 1..Len(Pending') /\ k + 1 = i
      BY <2>1, <2>2, <2>4
    <3> HIDE DEF k
    <3>2. Pending'[k] = Pending[i]
      BY <1>2, <3>1
    <3> QED BY <3>2 DEF k
  <2>5. 1 \in 1..Len(Pending)
    BY <1>2
  <2> QED BY <1>2, <2>1, <2>3, <2>4, <2>5 DEF Shrinks
<1>4. First = e.type
  BY <1>2 DEF First
<1> HIDE DEF e
<1>5. Send(Reply(e)) /\ status' = StatusAfter(e)
      /\ hasMessage' = (hasMessage \/ e.type = "data")
      /\ buffer' = IF e.type = "data" THEN [link |-> e.link, number |-> e.number] ELSE buffer
  BY DEF HandleEvent, e
<1>6. Replying
  <2>1. Len(tx) \in Nat /\ QueueSize \in Nat /\ Len(tx) <= QueueSize
    BY <1>1, Types DEF TypeOK
  <2>2. CASE Reply(e) = <<>>
    <3>1. tx' = tx
      BY <1>1, <1>5, <2>2, SendsNone
    <3> QED BY <2>1, <3>1 DEF Replying, Extends
  <2>3. ASSUME NEW c \in Replies, Reply(e) = <<c>> PROVE Replying
    <3>1. c \in Command
      BY DEF Replies, Command
    <3>2. \/ c = "device_version" /\ e.type = "connected"
          \/ c = "change_timing" /\ e.type = "pipes"
          \/ c = "set_local_data" /\ e.type \in {"version_rsp", "timing"}
      BY <2>3 DEF Reply, Replies
    <3>3. /\ \A i \in 1..Len(tx) : tx'[i] = tx[i]
          /\ IF Len(tx) < QueueSize
             THEN Len(tx') = Len(tx) + 1 /\ tx'[Len(tx) + 1] = c
             ELSE tx' = tx
      BY <1>1, <1>5, <2>3, <3>1, SendsOne
    <3>4. CASE Len(tx) < QueueSize
      <4>1. \A i \in 1..Len(tx') : i > Len(tx) => i = Len(tx) + 1
        BY <2>1, <3>3, <3>4
      <4>2. \A i \in 1..Len(tx') : i > Len(tx) => tx'[i] = c
        BY <3>3, <3>4, <4>1
      <4>3. Extends(Replies)
        BY <2>1, <3>3, <3>4, <4>2 DEF Extends
      <4> QED BY <1>4, <2>1, <3>2, <3>3, <3>4, <4>2, <4>3 DEF Replying
    <3>5. CASE ~ (Len(tx) < QueueSize)
      BY <2>1, <3>3, <3>5 DEF Replying, Extends
    <3> QED BY <3>4, <3>5
  <2> QED BY <1>2, <2>2, <2>3, ReplyIsCommands
<1>7. Receives
  <2>1. hasMessage \in BOOLEAN
    BY <1>1 DEF TypeOK
  <2>2. CASE e.type = "data"
    <3>1. e.link >= 1 /\ e.number >= 1
      BY <1>2, <1>3, <2>2 DEF Inv, LinksInOrder, Shrinks
    <3>2. e.link \in 0..MaxLinks /\ e.number \in 0..Length /\ MaxLinks \in Nat /\ Length \in Nat
      BY <1>2, ParametersAssumption DEF Event, Length
    <3>3. [link |-> e.link, number |-> e.number] \in Message
      BY <3>1, <3>2 DEF Message
    <3> HIDE DEF Message
    <3> QED BY <1>2, <1>4, <1>5, <2>2, <3>3 DEF Receives
  <2>3. CASE e.type # "data"
    BY <1>4, <1>5, <2>1, <2>3 DEF Receives
  <2> QED BY <2>2, <2>3
<1>8. status' = CASE First \in {"started", "wakeup_rsp", "disconnected"} -> "STANDBY"
                  [] First = "connect_rsp"                               -> "ADVERTISING"
                  [] First = "connected"                                 -> "CONNECTED"
                  [] OTHER                                               -> status
  BY <1>4, <1>5 DEF StatusAfter
<1>9. \/ pc \in {"wake", "hangup"} /\ status # "STANDBY" /\ pc' = pc
      \/ pc = "advertise" /\ status # "ADVERTISING" /\ pc' = pc
      \/ pc = "receive" /\ pc' = "received"
  BY DEF Poll
<1> QED BY <1>1, <1>3, <1>6, <1>7, <1>8, <1>9 DEF Polls

(* Where a session is after a poll.                                        *)
LEMMA PollPhases ==
    ASSUME Inv, Polls
    PROVE  /\ \A types : Has(types)' => Has(types)
           /\ \A types : AtMostOne(types) => AtMostOne(types)'
           /\ \A types : First \in types => Has(types)
           /\ \A types : First \in types /\ AtMostOne(types) => ~ Has(types)'
           /\ \A types : Has(types) /\ First \notin types => Has(types)'
           /\ Idle' => Idle /\ pc = "wake" /\ pc' = "wake"
           /\ Asking' => Asking
           /\ Answered' => Answered /\ First # "connect_rsp" /\ First \notin Reports
           /\ First = "connect_rsp" => Answered /\ ~ Answered'
           /\ Heard' /\ ~ Heard => Answered /\ First = "connect_rsp" /\ pc' = "advertise"
           /\ Heard /\ Heard' => ~ Answered /\ First \notin Woken \cup {"connect_rsp"}
           /\ Heard => pc \in {"hangup", "receive"}
           /\ Idle => First # "connect_rsp"
<1>1. Shrinks
  BY DEF Polls
<1>2. \A types : Has(types)' => Has(types)
  BY <1>1 DEF Has, Shrinks
<1>3. \A types : AtMostOne(types) => AtMostOne(types)'
  <2>1. ASSUME NEW types, AtMostOne(types),
               NEW i \in 1..Len(Pending'), NEW j \in 1..Len(Pending'),
               Pending'[i].type \in types, Pending'[j].type \in types
        PROVE  i = j
    <3>1. i + 1 = j + 1
      BY <1>1, <2>1 DEF Shrinks, AtMostOne
    <3> QED BY <1>1, <3>1 DEF Shrinks
  <2> QED BY <2>1 DEF AtMostOne
<1>4. \A types : First \in types => Has(types)
  BY <1>1 DEF Has, Shrinks, First
<1>5. \A types : First \in types /\ AtMostOne(types) => ~ Has(types)'
  <2>1. ASSUME NEW types, First \in types, AtMostOne(types), Has(types)' PROVE FALSE
    <3>1. PICK i \in 1..Len(Pending') : Pending'[i].type \in types
      BY <2>1 DEF Has
    <3>2. i + 1 = 1
      BY <1>1, <2>1, <3>1 DEF AtMostOne, Shrinks, First
    <3> QED BY <1>1, <3>2 DEF Shrinks
  <2> QED BY <2>1
<1>6. \A types : Has(types) /\ First \notin types => Has(types)'
  BY <1>1 DEF Has, Shrinks, First
<1>7. Idle' => Idle /\ pc = "wake" /\ pc' = "wake"
  BY DEF Idle, Polls
<1>8. First = "connect_rsp" => Answered /\ ~ Answered'
  <2>1. AtMostOne({"connect_rsp"})
    BY DEF Inv, OneConnect, AtMostOne
  <2> QED BY <1>4, <1>5, <2>1 DEF Answered
<1>9. Answered => pc = "advertise" /\ status # "ADVERTISING"
  BY DEF Inv, OneConnect
<1>10. Answered' => Answered /\ First # "connect_rsp" /\ First \notin Reports
  <2> SUFFICES ASSUME Answered' PROVE Answered /\ First # "connect_rsp" /\ First \notin Reports
    OBVIOUS
  <2>1. Answered /\ First # "connect_rsp"
    BY <1>2, <1>8 DEF Answered
  <2>2. PICK i \in 1..Len(Pending') : Pending'[i].type = "connect_rsp"
    BY DEF Answered, Has
  <2>3. First \notin Reports
    BY <1>1, <2>2 DEF Inv, OnlyReplies, Shrinks, First
  <2> QED BY <2>1, <2>3
<1>11. Asking' => Asking
  <2> SUFFICES ASSUME Asking' PROVE Asking
    OBVIOUS
  <2>1. pc = "advertise" /\ status # "ADVERTISING" /\ status' # "ADVERTISING" /\ ~ Answered'
    BY DEF Asking, Polls
  <2>2. First # "connect_rsp"
    BY <2>1 DEF Polls
  <2>3. ~ Answered
    BY <1>6, <2>1, <2>2 DEF Answered
  <2> QED BY <2>1, <2>3 DEF Asking
<1>12. Heard' /\ ~ Heard => Answered /\ First = "connect_rsp" /\ pc' = "advertise"
  <2> SUFFICES ASSUME Heard', ~ Heard
               PROVE  Answered /\ First = "connect_rsp" /\ pc' = "advertise"
    OBVIOUS
  <2>1. pc = "advertise" /\ pc' = "advertise" /\ status # "ADVERTISING" /\ status' = "ADVERTISING"
    BY DEF Heard, Polls
  <2>2. First = "connect_rsp"
    BY <2>1 DEF Polls
  <2> QED BY <1>8, <2>1, <2>2
<1>13. Heard => pc \in {"hangup", "receive"}
  BY DEF Heard, Polls
<1>14. Heard /\ Heard' => ~ Answered /\ First \notin Woken \cup {"connect_rsp"}
  <2>1. Heard => ~ Answered /\ ~ Has(Woken)
    BY <1>9, <1>13 DEF Inv, OnlyReplies
  <2> QED BY <1>4, <1>8, <2>1
<1>15. Idle => First # "connect_rsp"
  BY <1>8, <1>9 DEF Idle
<1> QED BY <1>2, <1>3, <1>4, <1>5, <1>6, <1>7, <1>8, <1>10, <1>11, <1>12, <1>13, <1>14, <1>15

LEMMA PollKeepsControl ==
    ASSUME Inv, Polls
    PROVE  OneConnect' /\ StatusInPhase' /\ NothingTaken' /\ MessagesInOrder'
           /\ OneStaleAtMost' /\ LinksInOrder' /\ ReportsAreFresh'
<1>1. Shrinks /\ Extends(Replies) /\ UNCHANGED <<mode, link, spoken, before, taken>>
  BY DEF Polls, Replying
<1>2. OneConnect'
  <2>1. \A i \in 1..Len(tx') : tx'[i] = "connect" => i \in 1..Len(tx) /\ tx[i] = tx'[i]
    <3>1. \A i \in 1..Len(tx') : tx'[i] \notin Replies => i \in 1..Len(tx) /\ tx[i] = tx'[i]
      BY <1>1, AskedBefore DEF Inv
    <3> QED BY <3>1 DEF Replies
  <2>2. AtMostOne({"connect_rsp"})'
    <3>1. AtMostOne({"connect_rsp"})
      BY DEF Inv, OneConnect, AtMostOne
    <3> QED BY <3>1, PollPhases
  <2>3. Asked("connect")' => Asked("connect")
    BY <2>1 DEF Asked
  <2>4. Answered' \/ Asked("connect")' => pc' = "advertise" /\ status' # "ADVERTISING"
    <3> SUFFICES ASSUME Answered' \/ Asked("connect")'
                 PROVE  pc' = "advertise" /\ status' # "ADVERTISING"
      OBVIOUS
    <3>1. Answered \/ Asked("connect")
      BY <2>3, PollPhases
    <3>2. pc = "advertise" /\ status # "ADVERTISING"
      BY <3>1 DEF Inv, OneConnect
    <3>3. First # "connect_rsp"
      BY <2>3, PollPhases DEF Inv, OneConnect
    <3> QED BY <3>2, <3>3 DEF Polls
  <2>5. Answered' => ~ Asked("connect")'
    BY <2>3, PollPhases DEF Inv, OneConnect
  <2> QED BY <2>1, <2>2, <2>4, <2>5 DEF Inv, OneConnect, AtMostOne
<1>3. StatusInPhase'
  <2>1. First = "connect_rsp" => pc = "advertise"
    BY PollPhases DEF Inv, OneConnect
  <2>2. ~ Idle' => ~ Idle
    BY DEF Idle, Polls
  <2> QED BY <2>1, <2>2 DEF Inv, StatusInPhase, Polls
<1>4. NothingTaken' /\ MessagesInOrder' /\ OneStaleAtMost'
  BY <1>1 DEF Inv, NothingTaken, MessagesInOrder, OneStaleAtMost, Polls
<1>5. LinksInOrder'
  <2>1. /\ link \in before..before + 1
        /\ mode = "advertising" => link = before
        /\ mode = "connected" => link >= 1
        /\ \A i \in 1..Len(taken) : taken[i].link <= link
        /\ \A i, j \in 1..Len(taken) : i <= j => taken[i].link <= taken[j].link
    BY DEF Inv, LinksInOrder
  <2>2. /\ \A i \in 1..Len(Pending') : Pending'[i].link <= link
        /\ \A i \in 1..Len(Pending') :
              Pending'[i].type = "data" => Pending'[i].link >= 1 /\ Pending'[i].number >= 1
        /\ \A i \in 1..Len(taken) : \A j \in 1..Len(Pending') : taken[i].link <= Pending'[j].link
    <3>1. LinksInOrder
      BY DEF Inv
    <3>2. \A i \in 1..Len(Pending') : i + 1 \in 1..Len(Pending) /\ Pending'[i] = Pending[i + 1]
      BY <1>1 DEF Shrinks
    <3> QED BY <3>1, <3>2 DEF LinksInOrder
  <2>3. \A i, j \in 1..Len(Pending') : i <= j => Pending'[i].link <= Pending'[j].link
    <3>1. \A i, j \in 1..Len(Pending') : i <= j => i + 1 <= j + 1
      BY <1>1 DEF Shrinks
    <3> QED BY <1>1, <3>1 DEF Inv, LinksInOrder, Shrinks
  <2>4. CASE First = "data"
    <3>1. /\ hasMessage' = TRUE /\ buffer' \in Message
          /\ buffer'.link = Pending[1].link
      BY <2>4 DEF Polls, Receives
    <3>2. /\ Pending[1].link <= link
          /\ \A i \in 1..Len(taken) : taken[i].link <= Pending[1].link
      BY <1>1 DEF Shrinks, Inv, LinksInOrder
    <3>3. \A j \in 1..Len(Pending') : Pending[1].link <= Pending'[j].link
      <4>1. \A j \in 1..Len(Pending') : 1 <= j + 1
        BY <1>1 DEF Shrinks
      <4> QED BY <1>1, <4>1 DEF Shrinks, Inv, LinksInOrder
    <3> QED BY <1>1, <2>1, <2>2, <2>3, <3>1, <3>2, <3>3 DEF LinksInOrder
  <2>5. CASE First # "data"
    <3>1. UNCHANGED <<hasMessage, buffer>>
      BY <2>5 DEF Polls, Receives
    <3>2. /\ hasMessage => \A j \in 1..Len(Pending') : buffer.link <= Pending'[j].link
          /\ \A i \in 1..Len(taken) : hasMessage => taken[i].link <= buffer.link
          /\ hasMessage => buffer \in Message /\ buffer.link <= link
      BY <1>1 DEF Inv, LinksInOrder, Shrinks
    <3> QED BY <1>1, <2>1, <2>2, <2>3, <3>1, <3>2 DEF LinksInOrder
  <2> QED BY <2>4, <2>5
<1>6. ReportsAreFresh'
  <2> SUFFICES ASSUME Heard' \/ Answered' PROVE ReportsAreFresh'
    BY DEF ReportsAreFresh
  <2>1. Heard \/ Answered
    BY PollPhases
  <2>2. /\ mode = "connected" => link > before
        /\ \A i \in 1..Len(Pending) :
              Pending[i].type \in Reports => Pending[i].link > before
        /\ hasMessage /\ taken # <<>> => buffer.link > before
    BY <2>1 DEF Inv, ReportsAreFresh
  <2>3. hasMessage' /\ taken # <<>> => buffer'.link > before
    <3>1. First = "data" => Pending[1].link > before
      BY <1>1, <2>2 DEF Shrinks, First, Reports, OfLink
    <3> QED BY <2>2, <3>1 DEF Polls, Receives
  <2>4. \A i \in 1..Len(Pending') :
            Pending'[i].type \in Reports => Pending'[i].link > before
    BY <1>1, <2>2 DEF Shrinks
  <2> QED BY <1>1, <2>2, <2>3, <2>4 DEF ReportsAreFresh
<1> QED BY <1>2, <1>3, <1>4, <1>5, <1>6

LEMMA PollKeepsRadio ==
    ASSUME Inv, Polls
    PROVE  EndIsLast' /\ ResetIsAhead' /\ OnlyReplies' /\ StatusFollows'
<1>1. Shrinks /\ Replying /\ Extends(Replies)
      /\ UNCHANGED <<mode, link, spoken, before, taken>>
  BY DEF Polls, Replying
<1>2. /\ \A i \in 1..Len(tx') : tx'[i] \notin Replies => i \in 1..Len(tx) /\ tx[i] = tx'[i]
      /\ \A i \in 1..Len(tx') : i \in 1..Len(tx) \/ i > Len(tx)
      /\ \A i \in 1..Len(tx) : i \in 1..Len(tx') /\ tx'[i] = tx[i]
  <2>1. \A i \in 1..Len(tx) : i \in 1..Len(tx')
    BY <1>1, Types DEF Inv, Extends
  <2> QED BY <1>1, <2>1, AskedBefore, Types DEF Inv, Extends
<1>3. /\ \A i, j \in 1..Len(Pending') : i < j => i + 1 < j + 1
      /\ \A i, j \in 1..Len(Pending') : i + 1 < j + 1 => i < j
      /\ \A i, j \in 1..Len(Pending') : i + 1 <= j + 1 => i <= j
  BY <1>1 DEF Shrinks
<1>4. EndIsLast'
  <2>1. \A i, j \in 1..Len(Pending') :
            Pending'[i].type = "disconnected" /\ Pending'[j].type \in Reports => j <= i
    BY <1>1, <1>3 DEF Inv, EndIsLast, Shrinks
  <2>2. /\ Has({"disconnected"})' => mode' \in {"standby", "asleep"}
        /\ mode' = "advertising" => ~ Has(Reports)'
    BY <1>1, PollPhases DEF Inv, EndIsLast
  <2>3. ASSUME NEW i \in 1..Len(Pending'), Pending'[i].type \in OfLink,
               mode \in {"standby", "asleep"}
        PROVE  Has({"disconnected"})'
    <3>1. Has({"disconnected"}) /\ i + 1 \in 1..Len(Pending) /\ Pending[i + 1].type \in Reports
      BY <1>1, <2>3 DEF Inv, EndIsLast, Shrinks, Reports
    <3>2. First # "disconnected"
      <4>1. ASSUME First = "disconnected" PROVE FALSE
        <5>1. i + 1 <= 1
          BY <1>1, <3>1, <4>1 DEF Inv, EndIsLast, Shrinks, First
        <5> QED BY <5>1
      <4> QED BY <4>1
    <3> QED BY <3>1, <3>2, PollPhases
  <2> QED BY <1>1, <2>1, <2>2, <2>3 DEF EndIsLast
<1>5. Idle' /\ mode \in {"advertising", "connected"} => status' # "STANDBY"
  <2> SUFFICES ASSUME Idle', mode \in {"advertising", "connected"} PROVE status' # "STANDBY"
    OBVIOUS
  <2>1. status # "STANDBY" /\ ~ Has(Woken)
    BY PollPhases DEF Inv, ResetIsAhead
  <2>2. First # "disconnected"
    BY PollPhases DEF Inv, EndIsLast
  <2>3. First \notin Woken
    BY <2>1, PollPhases
  <2> QED BY <2>1, <2>2, <2>3 DEF Polls, Woken
<1>6. ResetIsAhead'
  <2>1. ASSUME Idle', mode \in {"advertising", "connected"}
        PROVE  \E r \in 1..Len(tx') :
                  tx'[r] = "radio_reset" /\ \A w \in 1..r : tx'[w] # "wakeup"
    <3>1. PICK r \in 1..Len(tx) :
              tx[r] = "radio_reset" /\ \A w \in 1..r : tx[w] # "wakeup"
      BY <2>1, PollPhases DEF Inv, ResetIsAhead
    <3>2. \A w \in 1..r : w \in 1..Len(tx)
      BY Types DEF Inv
    <3> QED BY <1>2, <3>1, <3>2
  <2>2. Idle' /\ mode \in {"advertising", "connected"} => ~ Has(Woken)'
    BY PollPhases DEF Inv, ResetIsAhead
  <2>3. Idle' => \A i, j \in 1..Len(Pending') :
                    Pending'[i].type \in Woken /\ Pending'[j].type \in Reports => j < i
    <3> SUFFICES ASSUME Idle', NEW i \in 1..Len(Pending'), NEW j \in 1..Len(Pending'),
                        Pending'[i].type \in Woken, Pending'[j].type \in Reports
                 PROVE  j < i
      OBVIOUS
    <3>1. j + 1 < i + 1
      BY <1>1, PollPhases DEF Inv, ResetIsAhead, Shrinks
    <3> QED BY <1>3, <3>1
  <2>4. ASSUME pc' = "wake", status' = "STANDBY", Has(Reports)' PROVE FALSE
    <3>1. pc = "wake" /\ status # "STANDBY" /\ Idle
      BY <2>4 DEF Polls, Idle
    <3>2. PICK j \in 1..Len(Pending') : Pending'[j].type \in Reports
      BY <2>4 DEF Has
    <3>3. j + 1 \in 1..Len(Pending) /\ Pending[j + 1].type \in Reports /\ j + 1 > 1
      BY <1>1, <3>2 DEF Shrinks
    <3>4. First \in Woken \cup {"disconnected"}
      BY <2>4, <3>1 DEF Polls, Woken
    <3>5. CASE First \in Woken
      <4>1. j + 1 < 1
        BY <1>1, <3>1, <3>3, <3>5 DEF Inv, ResetIsAhead, Shrinks, First
      <4> QED BY <4>1
    <3>6. CASE First = "disconnected"
      <4>1. j + 1 <= 1
        BY <1>1, <3>3, <3>6 DEF Inv, EndIsLast, Shrinks, First
      <4> QED BY <3>3, <4>1
    <3> QED BY <3>4, <3>5, <3>6
  <2>5. Asking' => mode' \in {"standby", "asleep"} /\ ~ Has(Reports)'
    BY <1>1, PollPhases DEF Inv, ResetIsAhead
  <2> QED BY <1>1, <1>5, <2>1, <2>2, <2>3, <2>4, <2>5 DEF ResetIsAhead
<1>7. OnlyReplies'
  <2>1. ASSUME Heard', NEW i \in 1..Len(tx')
        PROVE  tx'[i] \in Replies \/ (pc' = "hangup" /\ tx'[i] = "disconnect")
    <3>1. pc = "hangup" => pc' = "hangup"
      BY DEF Polls
    <3>2. CASE tx'[i] \in Replies
      BY <3>2
    <3>3. CASE tx'[i] \notin Replies
      <4>1. i \in 1..Len(tx) /\ tx[i] = tx'[i]
        BY <1>2, <3>3
      <4>2. CASE Heard
        BY <3>1, <3>3, <4>1, <4>2 DEF Inv, OnlyReplies
      <4>3. CASE ~ Heard
        <5>1. Answered
          BY <2>1, <4>3, PollPhases
        <5> QED BY <3>3, <4>1, <5>1 DEF Inv, OnlyReplies, Replies
      <4> QED BY <4>2, <4>3
    <3> QED BY <3>2, <3>3
  <2>2. Heard' => ~ Has(Woken)'
    <3>1. CASE Heard
      BY <3>1, PollPhases DEF Inv, OnlyReplies
    <3>2. ASSUME ~ Heard, Heard', Has(Woken)' PROVE FALSE
      <4>1. First = "connect_rsp"
        BY <3>2, PollPhases
      <4>2. PICK i \in 1..Len(Pending') : Pending'[i].type \in Woken
        BY <3>2 DEF Has
      <4>3. i + 1 \in 1..Len(Pending) /\ Pending[i + 1].type \in Woken /\ 1 < i + 1
        BY <1>1, <4>2 DEF Shrinks
      <4> QED BY <1>1, <4>1, <4>3 DEF Inv, OnlyReplies, Shrinks, First
    <3> QED BY <3>1, <3>2
  <2>3. ASSUME NEW i \in 1..Len(tx'), NEW j \in 1..Len(tx'), tx'[i] = "connect", i < j
        PROVE  tx'[j] = "set_local_data"
    <3>1. i \in 1..Len(tx) /\ tx[i] = "connect"
      BY <1>2, <2>3 DEF Replies
    <3>2. CASE j \in 1..Len(tx)
      BY <1>2, <2>3, <3>1, <3>2 DEF Inv, OnlyReplies
    <3>3. CASE j > Len(tx)
      <4>1. Asking
        BY <3>1 DEF Inv, OneConnect, Asked, Asking
      <4>2. First \notin Reports
        BY <4>1, PollPhases DEF Inv, ResetIsAhead
      <4> QED BY <1>1, <3>3, <4>2 DEF Replying, Reports, OfLink
    <3> QED BY <1>2, <3>2, <3>3
  <2>4. Answered' => \A i \in 1..Len(tx') : tx'[i] = "set_local_data"
    <3> SUFFICES ASSUME Answered', NEW i \in 1..Len(tx') PROVE tx'[i] = "set_local_data"
      OBVIOUS
    <3>1. Answered /\ First \notin Reports
      BY PollPhases
    <3>2. CASE i \in 1..Len(tx)
      BY <1>2, <3>1, <3>2 DEF Inv, OnlyReplies
    <3>3. CASE i > Len(tx)
      BY <1>1, <3>1, <3>3 DEF Replying, Reports, OfLink
    <3> QED BY <1>2, <3>2, <3>3
  <2>5. \A i, j \in 1..Len(Pending') :
            Pending'[i].type = "connect_rsp" /\ i < j
                => Pending'[j].type \notin Woken \cup {"version_rsp", "timing"}
    BY <1>1, <1>3 DEF Inv, OnlyReplies, Shrinks
  <2>6. \A i, j \in 1..Len(Pending') :
            Pending'[i].type = "connect_rsp" /\ j < i => Pending'[j].type \notin Reports
    BY <1>1, <1>3 DEF Inv, OnlyReplies, Shrinks
  <2> QED BY <2>1, <2>2, <2>3, <2>4, <2>5, <2>6 DEF OnlyReplies
<1>8. StatusFollows'
  <2>1. ASSUME Follows("ADVERTISING"), First \notin {"connected", "disconnected"}
        PROVE  \/ mode = "advertising" /\ ~ Has({"connected", "disconnected"})'
               \/ mode = "connected" /\ Has({"connected"})' /\ ~ Has({"disconnected"})'
               \/ /\ mode = "standby"
                  /\ \E i, j \in 1..Len(Pending') :
                        i < j /\ Pending'[i].type = "connected"
                        /\ Pending'[j].type = "disconnected"
    <3>1. CASE mode = "advertising" /\ ~ Has({"connected", "disconnected"})
      BY <3>1, PollPhases
    <3>2. CASE mode = "connected" /\ Has({"connected"}) /\ ~ Has({"disconnected"})
      BY <2>1, <3>2, PollPhases
    <3>3. ASSUME mode = "standby",
                 NEW i \in 1..Len(Pending), NEW j \in 1..Len(Pending), i < j,
                 Pending[i].type = "connected", Pending[j].type = "disconnected"
          PROVE  \E k, l \in 1..Len(Pending') :
                     k < l /\ Pending'[k].type = "connected" /\ Pending'[l].type = "disconnected"
      <4>1. i # 1 /\ j # 1
        BY <2>1, <3>3 DEF First
      <4> DEFINE k == i - 1
                 l == j - 1
      <4>2. k \in 1..Len(Pending') /\ Pending'[k] = Pending[i]
            /\ l \in 1..Len(Pending') /\ Pending'[l] = Pending[j]
        BY <1>1, <4>1 DEF Shrinks
      <4>3. k < l
        BY <3>3, Types DEF Inv
      <4> HIDE DEF k, l
      <4> QED BY <3>3, <4>2, <4>3
    <3> QED BY <2>1, <3>1, <3>2, <3>3 DEF Follows
  <2>2. Answered' => Follows("ADVERTISING")'
    <3> SUFFICES ASSUME Answered' PROVE Follows("ADVERTISING")'
      OBVIOUS
    <3>1. Answered /\ First \notin {"connected", "disconnected"}
      BY PollPhases DEF Reports, OfLink
    <3>2. Follows("ADVERTISING")
      BY <3>1 DEF Inv, StatusFollows
    <3> QED BY <1>1, <2>1, <3>1, <3>2 DEF Follows
  <2>3. ASSUME Heard', ~ Heard PROVE Follows(status)'
    <3>1. Answered /\ First = "connect_rsp" /\ status' = "ADVERTISING"
      BY <2>3, PollPhases DEF Polls
    <3>2. Follows("ADVERTISING")
      BY <3>1 DEF Inv, StatusFollows
    <3> QED BY <1>1, <2>1, <3>1, <3>2 DEF Follows
  <2>4. ASSUME Heard', Heard PROVE Follows(status)'
    <3>1. Follows(status) /\ First \notin Woken \cup {"connect_rsp"}
      BY <2>4, PollPhases DEF Inv, StatusFollows
    <3>2. CASE First = "connected"
      <4>1. status' = "CONNECTED" /\ Has({"connected"})
        BY <3>2, PollPhases DEF Polls
      <4>2. ~ Has({"connected"})'
        <5>1. AtMostOne({"connected"})
          BY <2>4 DEF Inv, CommandsFit, AtMostOne, AfterConnected
        <5> QED BY <3>2, <5>1, PollPhases
      <4>3. \/ mode = "connected" /\ ~ Has({"disconnected"})
            \/ mode = "standby" /\ Has({"disconnected"})
        BY <3>1, <4>1 DEF Follows, Has
      <4>4. \/ mode = "connected" /\ ~ Has({"disconnected"})'
            \/ mode = "standby" /\ Has({"disconnected"})'
        BY <3>2, <4>3, PollPhases
      <4> QED BY <1>1, <4>1, <4>2, <4>4 DEF Follows
    <3>3. CASE First = "disconnected"
      <4>1. status' = "STANDBY" /\ Has({"disconnected"})
        BY <3>3, PollPhases DEF Polls
      <4>2. AtMostOne({"disconnected"})
        <5>1. \A i \in 1..Len(Pending) : i \in Nat
          BY Types DEF Inv
        <5>2. \A i, j \in 1..Len(Pending) :
                  Pending[i].type = "disconnected" /\ Pending[j].type = "disconnected"
                      => i <= j /\ j <= i
          BY DEF Inv, EndIsLast, Reports
        <5> QED BY <5>1, <5>2 DEF AtMostOne
      <4>3. ~ Has({"disconnected"})'
        BY <3>3, <4>2, PollPhases
      <4>4. ~ Has({"connected"})
        <5>1. ASSUME Has({"connected"}) PROVE FALSE
          <6>1. PICK i, j \in 1..Len(Pending) :
                    i < j /\ Pending[i].type = "connected" /\ Pending[j].type = "disconnected"
            BY <3>1, <4>1, <5>1 DEF Follows, Has
          <6>2. j = 1
            BY <1>1, <3>3, <4>2, <6>1 DEF AtMostOne, Shrinks, First
          <6> QED BY <6>1, <6>2, Types DEF Inv
        <5> QED BY <5>1
      <4>5. mode = "standby"
        BY <3>1, <4>1 DEF Follows, Has
      <4>6. ~ Has({"connected"})'
        BY <4>4, PollPhases
      <4> QED BY <1>1, <4>1, <4>3, <4>5, <4>6 DEF Follows, Has
    <3>4. CASE First \notin {"connected", "disconnected"}
      <4>1. status' = status
        BY <3>1, <3>4 DEF Polls, Woken
      <4>2. CASE status = "ADVERTISING"
        BY <1>1, <2>1, <3>1, <3>4, <4>1, <4>2 DEF Follows
      <4>3. CASE status = "CONNECTED"
        BY <1>1, <3>1, <3>4, <4>1, <4>3, PollPhases DEF Follows
      <4>4. CASE status = "STANDBY"
        BY <1>1, <3>1, <3>4, <4>1, <4>4, PollPhases DEF Follows
      <4> QED BY <3>1, <4>2, <4>3, <4>4 DEF Follows
    <3> QED BY <3>2, <3>3, <3>4
  <2> QED BY <2>2, <2>3, <2>4 DEF StatusFollows
<1> QED BY <1>4, <1>6, <1>7, <1>8

LEMMA PollKeepsNumbers ==
    ASSUME Inv, Polls
    PROVE  NumbersInOrder'
<1>1. Shrinks /\ UNCHANGED <<mode, link, spoken, before, taken>>
  BY DEF Polls
<1> SUFFICES ASSUME Heard' \/ Answered', pc' \notin {"sleep", "hangup"}
             PROVE  NumbersInOrder'
  <2>1. Heard' /\ pc' \in {"sleep", "hangup"} => NumbersInOrder'
    BY DEF NumbersInOrder
  <2>2. Answered' => pc' = "advertise"
    BY PollKeepsControl DEF OneConnect
  <2> QED BY <2>1, <2>2 DEF NumbersInOrder
<1>2. (Heard \/ Answered) /\ pc \in {"receive", "advertise"}
  <2>1. Heard \/ Answered
    BY PollPhases
  <2>2. pc \in {"receive", "advertise"}
    BY <2>1, PollPhases DEF Polls, Inv, OneConnect
  <2> QED BY <2>1, <2>2
<1>3. ~ FreshBuffer
  BY <1>2 DEF Inv, NumbersInOrder
<1>4. /\ Got = Given /\ Given' = Given
  BY <1>1, <1>3 DEF Got, Given
<1>5. /\ link > before => Got <= spoken
      /\ \A i \in 1..Len(Pending) :
            FreshData(Pending[i]) => Pending[i].number \in Got + 1..spoken
      /\ \A i, j \in 1..Len(Pending) :
            FreshData(Pending[i]) /\ FreshData(Pending[j]) /\ i < j
                => Pending[i].number < Pending[j].number
      /\ link > before =>
            \A n \in Got + 1..spoken :
                \E i \in 1..Len(Pending) :
                    FreshData(Pending[i]) /\ Pending[i].number = n
  BY <1>2 DEF Inv, NumbersInOrder
<1>6. /\ spoken \in Nat /\ before \in Nat /\ link \in Nat /\ Got \in Nat
      /\ \A i \in 1..Len(Pending) : Pending[i].link \in Nat /\ Pending[i].link <= link
      /\ \A i \in 1..Len(Pending) : Pending[i].number \in Nat
  <2>1. \A m \in Message : m.number \in Nat
    BY ParametersAssumption DEF Message, Length
  <2>2. taken # <<>> => taken[Len(taken)] \in Message
    <3>1. taken # <<>> => Len(taken) \in 1..Len(taken)
      BY Types, EmptySeq DEF Inv
    <3> QED BY <3>1, Types DEF Inv
  <2>3. Got \in Nat
    BY <1>4, <2>1, <2>2 DEF Given
  <2>4. Length \in Nat /\ MaxLinks \in Nat
    BY ParametersAssumption DEF Length
  <2>5. TypeOK /\ \A i \in 1..Len(Pending) : Pending[i].link <= link
    BY DEF Inv, LinksInOrder
  <2>6. \A i \in 1..Len(Pending) : Pending[i].link \in Nat /\ Pending[i].number \in Nat
    <3>1. \A i \in 1..Len(Pending) : Pending[i] \in Event
      BY <2>5, Types
    <3>2. \A e \in Event : e.link \in Nat /\ e.number \in Nat
      BY <2>4 DEF Event
    <3> QED BY <3>1, <3>2
  <2> QED BY <2>3, <2>5, <2>6, Types
<1>7. /\ \A i \in 1..Len(Pending') : i + 1 \in 1..Len(Pending) /\ Pending'[i] = Pending[i + 1]
      /\ \A i, j \in 1..Len(Pending') : i < j => i + 1 < j + 1
  BY <1>1 DEF Shrinks
<1>8. \A i, j \in 1..Len(Pending') :
          FreshData(Pending'[i]) /\ FreshData(Pending'[j]) /\ i < j
              => Pending'[i].number < Pending'[j].number
  BY <1>5, <1>7
<1>9. CASE FreshData(Pending[1])
  <2>1. First = "data" /\ Pending[1].link > before /\ link > before
    BY <1>1, <1>6, <1>9 DEF FreshData, First, Shrinks
  <2>2. pc = "receive" /\ pc' = "received"
    <3>1. ASSUME pc = "advertise" PROVE FALSE
      <4>1. Answered /\ ~ Heard
        BY <1>2, <3>1 DEF Heard, Polls
      <4>2. Answered' \/ First = "connect_rsp"
        BY <4>1, PollPhases
      <4> QED BY <2>1, <4>2, PollPhases DEF Reports, OfLink
    <3> QED BY <1>2, <3>1 DEF Polls
  <2>3. /\ hasMessage' = TRUE
        /\ buffer'.link = Pending[1].link /\ buffer'.number = Pending[1].number
    BY <2>1 DEF Polls, Receives
  <2>4. FreshBuffer'
    BY <1>1, <2>1, <2>3 DEF FreshBuffer
  <2>5. Pending[1].number = Got + 1
    <3>1. Pending[1].number \in Got + 1..spoken
      BY <1>1, <1>5, <1>9 DEF Shrinks
    <3>2. Got + 1 \in Got + 1..spoken
      BY <1>6, <3>1
    <3>3. PICK i \in 1..Len(Pending) : FreshData(Pending[i]) /\ Pending[i].number = Got + 1
      BY <1>5, <2>1, <3>2
    <3>4. CASE i = 1
      BY <3>3, <3>4
    <3>5. CASE i # 1
      <4>1. 1 < i /\ 1 \in 1..Len(Pending)
        BY <1>1, <3>5, Types DEF Shrinks, Inv
      <4>2. Pending[1].number < Got + 1
        BY <1>5, <1>9, <3>3, <4>1
      <4> QED BY <1>6, <3>1, <4>2
    <3> QED BY <3>4, <3>5
  <2>6. Got' = Got + 1 /\ buffer'.number = Given' + 1
    BY <1>4, <2>3, <2>4, <2>5 DEF Got
  <2>7. \A i \in 1..Len(Pending') :
            FreshData(Pending'[i]) => Pending'[i].number \in Got + 2..spoken
    <3> SUFFICES ASSUME NEW i \in 1..Len(Pending'), FreshData(Pending'[i])
                 PROVE  Pending'[i].number \in Got + 2..spoken
      OBVIOUS
    <3>1. 1 < i + 1 /\ FreshData(Pending[i + 1]) /\ Pending'[i] = Pending[i + 1]
          /\ i + 1 \in 1..Len(Pending) /\ 1 \in 1..Len(Pending)
      BY <1>1 DEF Shrinks
    <3>2. Pending[1].number < Pending'[i].number /\ Pending'[i].number \in Got + 1..spoken
      BY <1>5, <1>9, <3>1
    <3> QED BY <1>6, <2>5, <3>2
  <2>8. \A n \in Got + 2..spoken :
            \E i \in 1..Len(Pending') : FreshData(Pending'[i]) /\ Pending'[i].number = n
    <3> SUFFICES ASSUME NEW n \in Got + 2..spoken
                 PROVE  \E i \in 1..Len(Pending') :
                            FreshData(Pending'[i]) /\ Pending'[i].number = n
      OBVIOUS
    <3>1. n \in Got + 1..spoken /\ n # Got + 1
      BY <1>6
    <3>2. PICK i \in 1..Len(Pending) : FreshData(Pending[i]) /\ Pending[i].number = n
      BY <1>5, <2>1, <3>1
    <3>3. i # 1
      BY <2>5, <3>1, <3>2
    <3> QED BY <1>1, <3>2, <3>3 DEF Shrinks
  <2>9. Got + 1 <= spoken
    <3>1. Pending[1].number \in Got + 1..spoken
      BY <1>1, <1>5, <1>9 DEF Shrinks
    <3> QED BY <1>6, <3>1
  <2>10. (Got + 1) + 1 = Got + 2
    BY <1>6
  <2> QED BY <1>1, <1>8, <2>1, <2>2, <2>4, <2>6, <2>7, <2>8, <2>9, <2>10
          DEF NumbersInOrder, FreshData
<1>10. CASE ~ FreshData(Pending[1])
  <2>1. ~ FreshBuffer'
    <3>1. CASE First = "data"
      BY <1>1, <1>10, <3>1 DEF FreshBuffer, FreshData, First, Polls, Receives
    <3>2. CASE First # "data"
      BY <1>1, <1>3, <3>2 DEF FreshBuffer, Polls, Receives
    <3> QED BY <3>1, <3>2
  <2>2. Got' = Got
    BY <1>4, <2>1 DEF Got
  <2>3. \A i \in 1..Len(Pending') :
            FreshData(Pending'[i]) => Pending'[i].number \in Got + 1..spoken
    BY <1>5, <1>7
  <2>4. link > before =>
            \A n \in Got + 1..spoken :
                \E i \in 1..Len(Pending') : FreshData(Pending'[i]) /\ Pending'[i].number = n
    <3> SUFFICES ASSUME link > before, NEW n \in Got + 1..spoken
                 PROVE  \E i \in 1..Len(Pending') :
                            FreshData(Pending'[i]) /\ Pending'[i].number = n
      OBVIOUS
    <3>1. PICK i \in 1..Len(Pending) : FreshData(Pending[i]) /\ Pending[i].number = n
      BY <1>5
    <3>2. i # 1
      BY <1>10, <3>1
    <3> QED BY <1>1, <3>1, <3>2 DEF Shrinks
  <2> QED BY <1>1, <1>5, <1>8, <2>1, <2>2, <2>3, <2>4
          DEF NumbersInOrder, FreshData
<1> QED BY <1>9, <1>10

LEMMA PollKeepsKinds ==
    ASSUME Inv, Polls
    PROVE  CommandsFit'
<1>1. Replying /\ Extends(Replies) /\ UNCHANGED <<mode, link, spoken, before, taken>>
  BY DEF Polls, Replying
<1>2. /\ \A i \in 1..Len(tx') : i \in 1..Len(tx) \/ i > Len(tx)
      /\ \A i \in 1..Len(tx) : i \in 1..Len(tx') /\ tx'[i] = tx[i]
      /\ \A i, j \in 1..Len(tx') : i > Len(tx) /\ j > Len(tx) => i = j
      /\ \A i \in 1..Len(tx') : ~ (i \in 1..Len(tx) /\ i > Len(tx))
  <2>1. Len(tx) \in Nat /\ Len(tx') \in Nat /\ Len(tx') <= Len(tx) + 1
    BY <1>1, Types DEF Inv, Extends, Replying
  <2> QED BY <1>1, <2>1 DEF Extends
<1> SUFFICES ASSUME Heard'
             PROVE  /\ AtMostOne(AfterConnected)' /\ AtMostOne(AfterPipes)'
                    /\ link' = before' => ~ Has(AfterConnected \cup AfterPipes)'
                    /\ \E kind \in [1..Len(tx') -> Kind] : KindsOf(kind)'
  BY DEF CommandsFit
<1>3. CASE Heard
  <2>1. /\ AtMostOne(AfterConnected) /\ AtMostOne(AfterPipes)
        /\ link = before => ~ Has(AfterConnected \cup AfterPipes)
    BY <1>3 DEF Inv, CommandsFit
  <2>2. PICK kind \in [1..Len(tx) -> Kind] : KindsOf(kind)
    BY <1>3 DEF Inv, CommandsFit
  <2>3. /\ First \in AfterConnected => link > before /\ Has(AfterConnected) /\ ~ Has(AfterConnected)'
        /\ First \in AfterPipes => link > before /\ Has(AfterPipes) /\ ~ Has(AfterPipes)'
        /\ Has(AfterConnected)' => Has(AfterConnected)
        /\ Has(AfterPipes)' => Has(AfterPipes)
    <3>1. First \in AfterConnected \cup AfterPipes => link > before
      <4>1. First \in AfterConnected \cup AfterPipes => link # before
        BY <2>1, PollPhases
      <4>2. link \in before..before + 1 /\ link \in Nat /\ before \in Nat
        BY Types DEF Inv, LinksInOrder
      <4> QED BY <4>1, <4>2
    <3> QED BY <2>1, <3>1, PollPhases
  <2> DEFINE new == IF First \in AfterConnected THEN "chain of connected" ELSE "chain of pipes"
             next == [i \in 1..Len(tx') |-> IF i \in 1..Len(tx) THEN kind[i] ELSE new]
  <2>4. next \in [1..Len(tx') -> Kind]
    BY <2>2 DEF Kind
  <2>5. \A i \in 1..Len(tx') :
          /\ i \in 1..Len(tx) => next[i] = kind[i]
          /\ i > Len(tx) => next[i] = new
    BY <1>2
  <2> HIDE DEF next
  <2>6. \A i \in 1..Len(tx) : \A j \in 1..Len(tx') : j > Len(tx) => kind[i] # new
    <3>1. ASSUME NEW i \in 1..Len(tx), NEW j \in 1..Len(tx'), j > Len(tx) PROVE kind[i] # new
      <4>1. First \in AfterConnected \/ First \in AfterPipes
        BY <1>1, <3>1 DEF Replying, AfterConnected, AfterPipes
      <4>2. CASE First \in AfterConnected
        BY <2>2, <2>3, <4>2 DEF KindsOf
      <4>3. CASE First \notin AfterConnected
        BY <2>2, <2>3, <4>1, <4>3 DEF KindsOf
      <4> QED BY <4>2, <4>3
    <3> QED BY <3>1
  <2>7. \A i, j \in 1..Len(tx') : next[i] = next[j] => i = j
    <3> SUFFICES ASSUME NEW i \in 1..Len(tx'), NEW j \in 1..Len(tx'), next[i] = next[j]
                 PROVE  i = j
      OBVIOUS
    <3> HIDE DEF new
    <3>1. CASE i \in 1..Len(tx) /\ j \in 1..Len(tx)
      BY <2>2, <2>5, <3>1 DEF KindsOf
    <3>2. CASE i > Len(tx) \/ j > Len(tx)
      BY <1>2, <2>5, <2>6, <3>2
    <3> QED BY <1>2, <3>1, <3>2
  <2>8. ASSUME NEW i \in 1..Len(tx')
        PROVE  /\ tx'[i] = "device_version" => next[i] = "chain of connected"
               /\ tx'[i] = "change_timing" => next[i] = "chain of pipes"
               /\ tx'[i] = "disconnect" <=> next[i] = "disconnect"
               /\ next[i] = "chain of connected" => link > before /\ ~ Has(AfterConnected)'
               /\ next[i] = "chain of pipes" => link > before /\ ~ Has(AfterPipes)'
    <3>1. CASE i \in 1..Len(tx)
      <4>1. tx'[i] = tx[i] /\ next[i] = kind[i]
        BY <1>2, <2>5, <3>1
      <4> QED BY <2>2, <2>3, <3>1, <4>1 DEF KindsOf
    <3>2. CASE i > Len(tx)
      <4>1. next[i] = new
        BY <2>5, <3>2
      <4>2. \/ tx'[i] = "device_version" /\ First = "connected"
            \/ tx'[i] = "change_timing" /\ First = "pipes"
            \/ tx'[i] = "set_local_data" /\ First \in {"version_rsp", "timing"}
        BY <1>1, <3>2 DEF Replying
      <4>3. First \in AfterConnected \/ First \in AfterPipes
        BY <4>2 DEF AfterConnected, AfterPipes
      <4>4. First = "connected" => First \in AfterConnected
        BY DEF AfterConnected
      <4>5. First = "pipes" => First \notin AfterConnected
        BY DEF AfterConnected
      <4> QED BY <2>3, <4>1, <4>2, <4>3, <4>4, <4>5
    <3> QED BY <1>2, <3>1, <3>2
  <2>9. \E k \in [1..Len(tx') -> Kind] :
          /\ \A i, j \in 1..Len(tx') : k[i] = k[j] => i = j
          /\ \A i \in 1..Len(tx') :
                /\ tx'[i] = "device_version" => k[i] = "chain of connected"
                /\ tx'[i] = "change_timing" => k[i] = "chain of pipes"
                /\ tx'[i] = "disconnect" <=> k[i] = "disconnect"
                /\ k[i] = "chain of connected" => link' > before' /\ ~ Has(AfterConnected)'
                /\ k[i] = "chain of pipes" => link' > before' /\ ~ Has(AfterPipes)'
    BY <1>1, <2>4, <2>7, <2>8
  <2>10. link = before => ~ Has(AfterConnected \cup AfterPipes)'
    BY <2>1, PollPhases
  <2> QED BY <1>1, <2>1, <2>9, <2>10, PollPhases DEF KindsOf
<1>4. CASE ~ Heard
  <2>1. Answered /\ First = "connect_rsp" /\ ~ Answered'
    BY <1>4, PollPhases
  <2>2. tx' = tx
    <3>1. \A i \in 1..Len(tx') : ~ (i > Len(tx))
      BY <1>1, <2>1 DEF Replying
    <3>2. Len(tx') # Len(tx) + 1
      <4>1. Len(tx) + 1 \in 1..Len(tx) + 1 /\ Len(tx) + 1 > Len(tx)
        BY Types DEF Inv
      <4> QED BY <3>1, <4>1
    <3> QED BY <1>1, <3>2 DEF Replying
  <2>3. ~ Has({"version_rsp", "timing"})'
    <3>1. ASSUME Has({"version_rsp", "timing"})' PROVE FALSE
      <4>1. PICK i \in 1..Len(Pending') : Pending'[i].type \in {"version_rsp", "timing"}
        BY <3>1 DEF Has
      <4>2. /\ i + 1 \in 1..Len(Pending) /\ 1 \in 1..Len(Pending) /\ 1 < i + 1
            /\ Pending[i + 1].type \in {"version_rsp", "timing"}
        BY <4>1 DEF Polls, Shrinks
      <4> QED BY <2>1, <4>2 DEF Inv, OnlyReplies, First
    <3> QED BY <3>1
  <2>4. AtMostOne(AfterConnected)' /\ AtMostOne(AfterPipes)'
    <3>1. AtMostOne({"connected"})' /\ AtMostOne(AfterPipes)'
      BY <2>1, PollPhases DEF Inv, OneVersion
    <3>2. AtMostOne(AfterConnected)'
      BY <2>3, <3>1 DEF AtMostOne, AfterConnected, Has
    <3> QED BY <3>1, <3>2
  <2>5. link = before => ~ Has(AfterConnected \cup AfterPipes)'
    <3>1. link = before => ~ Has({"connected", "pipes"})'
      BY <2>1, PollPhases DEF Inv, OneVersion
    <3> QED BY <2>3, <3>1 DEF Has, AfterConnected, AfterPipes
  <2> DEFINE kind == [i \in 1..Len(tx) |-> "stale"]
  <2>6. kind \in [1..Len(tx) -> Kind]
    BY DEF Kind
  <2>7. /\ \A i, j \in 1..Len(tx) : i = j
        /\ \A i \in 1..Len(tx) : tx[i] = "set_local_data" /\ kind[i] = "stale"
    <3>1. Len(tx) <= 1
      BY <2>1 DEF Inv, OneVersion
    <3>2. \A i \in 1..Len(tx) : tx[i] = "set_local_data"
      BY <2>1 DEF Inv, OnlyReplies
    <3> QED BY <3>1, <3>2, Types DEF Inv
  <2> HIDE DEF kind
  <2>8. \E k \in [1..Len(tx') -> Kind] :
          /\ \A i, j \in 1..Len(tx') : k[i] = k[j] => i = j
          /\ \A i \in 1..Len(tx') :
                /\ tx'[i] = "device_version" => k[i] = "chain of connected"
                /\ tx'[i] = "change_timing" => k[i] = "chain of pipes"
                /\ tx'[i] = "disconnect" <=> k[i] = "disconnect"
                /\ k[i] = "chain of connected" => link' > before' /\ ~ Has(AfterConnected)'
                /\ k[i] = "chain of pipes" => link' > before' /\ ~ Has(AfterPipes)'
    BY <2>2, <2>6, <2>7
  <2> QED BY <1>1, <2>4, <2>5, <2>8 DEF KindsOf
<1> QED BY <1>3, <1>4

LEMMA PollKeepsVersion ==
    ASSUME Inv, Polls
    PROVE  OneVersion'
<1>1. Replying /\ Extends(Replies) /\ UNCHANGED <<mode, link, spoken, before, taken>>
  BY DEF Polls, Replying
<1>2. /\ \A i \in 1..Len(tx') : i \in 1..Len(tx) \/ i > Len(tx)
      /\ \A i \in 1..Len(tx) : i \in 1..Len(tx') /\ tx'[i] = tx[i]
      /\ \A i, j \in 1..Len(tx') : i > Len(tx) /\ j > Len(tx) => i = j
      /\ Len(tx) \in Nat /\ Len(tx') \in Nat /\ Len(tx') <= Len(tx) + 1
  <2>1. Len(tx) \in Nat /\ Len(tx') \in Nat /\ Len(tx') <= Len(tx) + 1
    BY <1>1, Types DEF Inv, Extends, Replying
  <2> QED BY <1>1, <2>1 DEF Extends
<1>3. \A i \in 1..Len(tx') :
          tx'[i] = "device_version" => \/ i \in 1..Len(tx) /\ tx[i] = "device_version"
                                       \/ i > Len(tx) /\ First = "connected"
  BY <1>1, <1>2 DEF Replying
<1>4. ASSUME AtMostOne(AfterConnected), Has(AfterConnected) => ~ Asked("device_version")
      PROVE  Has(AfterConnected)' => ~ Asked("device_version")'
  <2> SUFFICES ASSUME Has(AfterConnected)' PROVE ~ Asked("device_version")'
    OBVIOUS
  <2>1. Has(AfterConnected) /\ First # "connected"
    BY <1>4, PollPhases DEF AfterConnected
  <2> QED BY <1>3, <1>4, <2>1 DEF Asked
<1>5. ASSUME Idle' \/ Asking'
      PROVE  /\ AtMostOne(AfterConnected)'
             /\ \A i, j \in 1..Len(tx') :
                   tx'[i] = "device_version" /\ tx'[j] = "device_version" => i = j
             /\ Has(AfterConnected)' => ~ Asked("device_version")'
  <2>1. /\ AtMostOne(AfterConnected)
        /\ \A i, j \in 1..Len(tx) :
              tx[i] = "device_version" /\ tx[j] = "device_version" => i = j
        /\ Has(AfterConnected) => ~ Asked("device_version")
    BY <1>5, PollPhases DEF Inv, OneVersion
  <2>2. First = "connected" => ~ Asked("device_version")
    BY <2>1, PollPhases DEF AfterConnected
  <2>3. \A i, j \in 1..Len(tx') :
            tx'[i] = "device_version" /\ tx'[j] = "device_version" => i = j
    BY <1>2, <1>3, <2>1, <2>2 DEF Asked
  <2> QED BY <1>4, <2>1, <2>3, PollPhases
<1>6. ASSUME Idle', mode = "advertising"
      PROVE  ~ Has(AfterConnected)' /\ ~ Asked("device_version")'
  <2>1. ~ Has(AfterConnected) /\ ~ Asked("device_version")
    BY <1>6, PollPhases DEF Inv, OneVersion
  <2>2. First # "connected"
    BY <2>1, PollPhases DEF AfterConnected
  <2> QED BY <1>3, <2>1, <2>2, PollPhases DEF Asked
<1>7. ASSUME NEW c \in 1..Len(tx'), tx'[c] = "connect", c < Len(tx')
      PROVE  Len(tx') = c + 1 /\ ~ Has(AfterConnected)' /\ ~ Asked("device_version")'
  <2>1. c \in 1..Len(tx) /\ tx[c] = "connect"
    BY <1>1, <1>2, <1>7 DEF Replying
  <2>2. Asking
    BY <2>1 DEF Inv, OneConnect, Asked, Asking
  <2>3. First \notin {"connected", "pipes", "timing"}
    BY <2>2, PollPhases DEF Inv, ResetIsAhead, Reports, OfLink
  <2>4. /\ AtMostOne(AfterConnected)
        /\ Has(AfterConnected) => ~ Asked("device_version")
    BY <2>2 DEF Inv, OneVersion
  <2>5. CASE c < Len(tx)
    <3>1. Len(tx) = c + 1 /\ ~ Has(AfterConnected) /\ ~ Asked("device_version")
      BY <2>1, <2>5 DEF Inv, OneVersion
    <3>2. First # "version_rsp"
      BY <3>1, PollPhases DEF AfterConnected
    <3>3. \A i \in 1..Len(tx') : ~ (i > Len(tx))
      BY <1>1, <2>3, <3>2 DEF Replying
    <3>4. Len(tx') = Len(tx)
      BY <1>1, <1>2, <3>3 DEF Replying
    <3> QED BY <1>3, <2>3, <3>1, <3>4, PollPhases DEF Asked
  <2>6. CASE ~ (c < Len(tx))
    <3>1. c = Len(tx) /\ Len(tx') = c + 1
      BY <1>2, <1>7, <2>1, <2>6
    <3>2. First = "version_rsp"
      <4>1. c + 1 \in 1..Len(tx') /\ c + 1 > Len(tx)
        BY <1>2, <3>1
      <4> QED BY <1>1, <2>3, <4>1 DEF Replying
    <3>3. Has(AfterConnected) /\ ~ Has(AfterConnected)'
      BY <2>4, <3>2, PollPhases DEF AfterConnected
    <3> QED BY <1>3, <2>3, <2>4, <3>1, <3>3 DEF Asked
  <2> QED BY <2>5, <2>6
<1>8. ASSUME Answered'
      PROVE  /\ Len(tx') <= 1 /\ AtMostOne(AfterPipes)'
             /\ link' = before' => ~ Has({"connected", "pipes"})'
             /\ AtMostOne({"connected"})' /\ AtMostOne({"version_rsp"})'
             /\ Has({"version_rsp"})' => tx' = <<>>
             /\ ~ Has({"timing"})'
  <2>1. Answered /\ First # "connect_rsp" /\ First \notin Reports
    BY <1>8, PollPhases
  <2>2. /\ Len(tx) <= 1 /\ AtMostOne(AfterPipes)
        /\ link = before => ~ Has({"connected", "pipes"})
        /\ AtMostOne({"connected"}) /\ AtMostOne({"version_rsp"})
        /\ Has({"version_rsp"}) => tx = <<>>
        /\ ~ Has({"timing"})
    BY <2>1 DEF Inv, OneVersion
  <2>3. tx' = tx \/ First = "version_rsp"
    <3>1. CASE Len(tx') = Len(tx) + 1
      <4>1. Len(tx) + 1 \in 1..Len(tx') /\ Len(tx) + 1 > Len(tx)
        BY <1>2, <3>1
      <4> QED BY <1>1, <2>1, <4>1 DEF Replying, Reports, OfLink
    <3> QED BY <1>1, <3>1 DEF Replying
  <2>4. Len(tx') <= 1
    <3>1. First = "version_rsp" => Len(tx) = 0
      BY <2>2, PollPhases, EmptySeq
    <3> QED BY <1>2, <2>2, <2>3, <3>1
  <2>5. Has({"version_rsp"})' => tx' = <<>>
    <3> SUFFICES ASSUME Has({"version_rsp"})' PROVE tx' = <<>>
      OBVIOUS
    <3>1. Has({"version_rsp"}) /\ First # "version_rsp"
      BY <2>2, PollPhases
    <3> QED BY <2>2, <2>3, <3>1
  <2> QED BY <1>1, <2>2, <2>4, <2>5, PollPhases
<1> QED BY <1>1, <1>5, <1>6, <1>7, <1>8 DEF OneVersion

LEMMA PollKeeps ==
    ASSUME Inv, Poll, HandleEvent
    PROVE  Inv'
<1>1. Polls
  BY PollEffect
<1>2. TypeOK'
  BY TypesKept DEF Inv, Next, Program
<1> QED BY <1>1, <1>2, PollKeepsControl, PollKeepsRadio, PollKeepsNumbers, PollKeepsKinds,
           PollKeepsVersion DEF Inv

-----------------------------------------------------------------------------
(* Transfers that give the radio a command.                                *)

Told == tx[1]

Advances ==
    /\ Len(tx') \in Nat /\ Len(tx) = Len(tx') + 1
    /\ 1 \in 1..Len(tx)
    /\ \A i \in 1..Len(tx') :
          i + 1 \in 1..Len(tx) /\ i + 1 > 1 /\ tx'[i] = tx[i + 1]
    /\ \A i \in 1..Len(tx) :
          i # 1 => i - 1 \in 1..Len(tx') /\ tx'[i - 1] = tx[i]

(* Which command is answered by which events.                              *)
AnswersTo(c, type) ==
    \/ type \in Woken /\ c = "wakeup"
    \/ type = "connect_rsp" /\ c = "connect" /\ mode # "asleep"
    \/ type = "version_rsp" /\ c = "device_version"
    \/ type = "timing" /\ c = "change_timing" /\ mode = "connected"
    \/ type = "disconnected" /\ c \in {"disconnect", "radio_reset"} /\ mode = "connected"
    \/ type = "other_rsp"

LEMMA AnswerFacts ==
    ASSUME NEW c \in Command, NEW i \in 1..Len(Answer(c))
    PROVE  /\ AnswersTo(c, Answer(c)[i])
           /\ Answer(c)[i] \in {"connect_rsp", "disconnected"} => i = Len(Answer(c))
           /\ \A j \in 1..Len(Answer(c)) : Answer(c)[i] = Answer(c)[j] => i = j
           /\ Answer(c)[i] # "data"
<1>1. Answer(c) # <<>>
  OBVIOUS
<1>2. CASE c = "wakeup"
  <2>1. Answer(c) = <<"started", "wakeup_rsp">> \/ Answer(c) = <<"wakeup_rsp">>
    BY <1>2 DEF Answer
  <2> QED BY <1>2, <2>1 DEF AnswersTo, Woken
<1>3. CASE c = "connect"
  <2>1. Answer(c) = <<"connect_rsp">> /\ mode # "asleep"
    BY <1>1, <1>3 DEF Answer
  <2>2. i = 1 /\ Answer(c)[1] = "connect_rsp" /\ Len(Answer(c)) = 1
    BY <2>1
  <2> QED BY <1>3, <2>1, <2>2 DEF AnswersTo
<1>4. CASE c = "device_version"
  <2>1. Answer(c) = <<"version_rsp">>
    BY <1>1, <1>4 DEF Answer
  <2> QED BY <1>4, <2>1 DEF AnswersTo
<1>5. CASE c \notin {"wakeup", "connect", "device_version"}
  <2>1. \/ Answer(c) = <<"other_rsp">>
        \/ Answer(c) = <<"other_rsp", "timing">> /\ c = "change_timing" /\ mode = "connected"
        \/ /\ Answer(c) = <<"other_rsp", "disconnected">>
           /\ c \in {"disconnect", "radio_reset"} /\ mode = "connected"
    BY <1>1, <1>5 DEF Answer
  <2>2. CASE Answer(c) = <<"other_rsp">>
    BY <2>2 DEF AnswersTo
  <2>3. CASE Answer(c) = <<"other_rsp", "timing">> /\ c = "change_timing" /\ mode = "connected"
    BY <2>3 DEF AnswersTo
  <2>4. CASE /\ Answer(c) = <<"other_rsp", "disconnected">>
             /\ c \in {"disconnect", "radio_reset"} /\ mode = "connected"
    BY <2>4 DEF AnswersTo
  <2> QED BY <2>1, <2>2, <2>3, <2>4
<1> QED BY <1>2, <1>3, <1>4, <1>5

(* What is added to what the program has not been told.                    *)
Adding ==
    /\ Grows(EventType \ {"data"})
    /\ \A i \in 1..Len(Pending') : i > Len(Pending) =>
          /\ AnswersTo(Told, Pending'[i].type)
          /\ Pending'[i].type \in {"connect_rsp", "disconnected"} => i = Len(Pending')
          /\ \A j \in 1..Len(Pending') :
                j > Len(Pending) /\ Pending'[i].type = Pending'[j].type => i = j
    /\ Told = "connect" /\ mode # "asleep" => Has({"connect_rsp"})'
    /\ Told \in {"disconnect", "radio_reset"} /\ mode = "connected" =>
          /\ Len(Pending') \in 1..Len(Pending') /\ Len(Pending') > Len(Pending)
          /\ Pending'[Len(Pending')].type = "disconnected"

Serves ==
    /\ Advances /\ Adding
    /\ mode' = ModeAfter(Told)
    /\ before' = IF Told = "connect" THEN link ELSE before
    /\ UNCHANGED <<pc, status, link, spoken, hasMessage, buffer, taken>>

LEMMA TransferEffect ==
    ASSUME Inv, Transfer, tx # <<>>
    PROVE  Serves
<1> DEFINE a == Answer(Told)
           events == Report(Answer(Told))
<1>1. TypeOK /\ tx \in Seq(Command) /\ Len(tx) \in Nat \ {0} /\ Head(tx) = Told
      /\ Told \in Command
  <2>1. tx \in Seq(Command) /\ TypeOK
    BY DEF Inv, TypeOK
  <2> HIDE DEF Command
  <2> QED BY <2>1 DEF Told
<1>2. Advances
  <2>1. /\ tx' = Tail(tx)
    BY DEF Transfer, Rest
  <2> HIDE DEF Command
  <2>2. /\ Len(tx') \in Nat /\ Len(tx) = Len(tx') + 1
        /\ \A i \in 1..Len(tx') : tx'[i] = tx[i + 1]
    BY <1>1, <2>1
  <2>3. \A i \in 1..Len(tx') : i + 1 \in 1..Len(tx) /\ i + 1 > 1
    BY <2>2
  <2>4. ASSUME NEW i \in 1..Len(tx), i # 1
        PROVE  i - 1 \in 1..Len(tx') /\ tx'[i - 1] = tx[i]
    <3> DEFINE k == i - 1
    <3>1. k \in 1..Len(tx') /\ k + 1 = i
      BY <2>2, <2>4
    <3> HIDE DEF k
    <3>2. tx'[k] = tx[i]
      BY <2>2, <3>1
    <3> QED BY <3>1, <3>2 DEF k
  <2> QED BY <2>2, <2>3, <2>4 DEF Advances
<1>3. /\ events \in Seq(Event) /\ a \in Seq(EventType) /\ Len(events) = Len(a)
      /\ Len(a) \in 0..2
      /\ \A i \in 1..Len(a) : events[i].type = a[i] /\ events[i].link = link
  BY <1>1, AnswersAreEvents
<1>4. Adds(events)
  <2>1. /\ rx' = IF waiting = <<>> THEN rx ELSE Append(rx, Head(waiting))
        /\ waiting' = Rest(waiting) \o events
    BY <1>1 DEF Transfer
  <2> HIDE DEF events
  <2> QED BY <1>1, <1>3, <2>1, AddsInTransfer
<1>5. UNCHANGED <<pc, status, link, spoken, hasMessage, buffer, taken>>
  BY DEF Transfer, driver, phone
<1>6. /\ mode' = ModeAfter(Told)
      /\ before' = IF Told = "connect" THEN link ELSE before
  BY <1>1 DEF Transfer
<1> HIDE DEF events, a
<1>7. /\ Len(Pending) \in Nat /\ Len(Pending') = Len(Pending) + Len(a)
      /\ \A i \in 1..Len(a) : Pending'[Len(Pending) + i].type = a[i]
      /\ \A i \in 1..Len(a) : Pending'[Len(Pending) + i].link = link
      /\ Len(a) \in Nat
  <2>1. Len(Pending) \in Nat /\ Len(a) \in Nat
    BY <1>1, <1>3, Types
  <2>2. Len(Pending') = Len(Pending) + Len(a)
        /\ \A i \in 1..Len(a) : Pending'[Len(Pending) + i] = events[i]
    BY <1>3, <1>4 DEF Adds
  <2> QED BY <1>3, <2>1, <2>2
<1>8. ASSUME NEW i \in 1..Len(Pending'), i > Len(Pending)
      PROVE  i - Len(Pending) \in 1..Len(a) /\ Pending'[i].type = a[i - Len(Pending)]
  <2> DEFINE k == i - Len(Pending)
  <2>1. k \in 1..Len(a) /\ Len(Pending) + k = i
    BY <1>7, <1>8
  <2> HIDE DEF k
  <2>2. Pending'[i].type = a[k]
    BY <1>7, <2>1
  <2> QED BY <2>1, <2>2 DEF k
<1>9. Grows(EventType \ {"data"})
  <2>1. \A i \in 1..Len(a) : a[i] # "data" /\ a[i] \in EventType
    BY <1>1, <1>3, AnswerFacts DEF a
  <2>2. \A i \in 1..Len(events) : events[i].type \in EventType \ {"data"} /\ events[i].link = link'
    BY <1>3, <1>5, <2>1
  <2> QED BY <1>1, <1>3, <1>4, <2>2, AddsGrows
<1>10. ASSUME NEW i \in 1..Len(Pending'), i > Len(Pending)
       PROVE  /\ AnswersTo(Told, Pending'[i].type)
              /\ Pending'[i].type \in {"connect_rsp", "disconnected"} => i = Len(Pending')
              /\ \A j \in 1..Len(Pending') :
                    j > Len(Pending) /\ Pending'[i].type = Pending'[j].type => i = j
  <2> DEFINE k == i - Len(Pending)
  <2>1. k \in 1..Len(a) /\ Pending'[i].type = a[k] /\ i = Len(Pending) + k
    BY <1>7, <1>8, <1>10
  <2> HIDE DEF k
  <2>2. /\ AnswersTo(Told, a[k])
        /\ a[k] \in {"connect_rsp", "disconnected"} => k = Len(a)
        /\ \A j \in 1..Len(a) : a[k] = a[j] => k = j
    BY <1>1, <2>1, AnswerFacts DEF a
  <2>3. ASSUME NEW j \in 1..Len(Pending'), j > Len(Pending), Pending'[i].type = Pending'[j].type
        PROVE  i = j
    <3> DEFINE l == j - Len(Pending)
    <3>1. l \in 1..Len(a) /\ Pending'[j].type = a[l] /\ j = Len(Pending) + l
      BY <1>7, <1>8, <2>3
    <3> HIDE DEF l
    <3>2. k = l
      BY <2>1, <2>2, <2>3, <3>1
    <3> QED BY <2>1, <3>1, <3>2
  <2> QED BY <1>7, <2>1, <2>2, <2>3
<1>11. Told = "connect" /\ mode # "asleep" => Has({"connect_rsp"})'
  <2> SUFFICES ASSUME Told = "connect", mode # "asleep" PROVE Has({"connect_rsp"})'
    OBVIOUS
  <2>1. a = <<"connect_rsp">>
    BY DEF a, Answer
  <2>2. 1 \in 1..Len(a) /\ a[1] = "connect_rsp" /\ Len(a) = 1
    BY <2>1
  <2> DEFINE n == Len(Pending) + 1
  <2>3. n \in 1..Len(Pending') /\ Pending'[n].type = "connect_rsp"
    BY <1>7, <2>2
  <2> HIDE DEF n
  <2> QED BY <2>3 DEF Has
<1>12. Told \in {"disconnect", "radio_reset"} /\ mode = "connected" =>
          /\ Len(Pending') \in 1..Len(Pending') /\ Len(Pending') > Len(Pending)
          /\ Pending'[Len(Pending')].type = "disconnected"
  <2> SUFFICES ASSUME Told \in {"disconnect", "radio_reset"}, mode = "connected"
               PROVE  /\ Len(Pending') \in 1..Len(Pending') /\ Len(Pending') > Len(Pending)
                      /\ Pending'[Len(Pending')].type = "disconnected"
    OBVIOUS
  <2>1. a = <<"other_rsp", "disconnected">>
    BY DEF a, Answer
  <2>2. 2 \in 1..Len(a) /\ a[2] = "disconnected" /\ Len(a) = 2
    BY <2>1
  <2> QED BY <1>7, <2>2
<1>13. Adding
  BY <1>9, <1>10, <1>11, <1>12 DEF Adding
<1> QED BY <1>2, <1>5, <1>6, <1>13 DEF Serves

(* With no command to give, a transfer only brings an event nearer.        *)
LEMMA EmptyTransferKeeps ==
    ASSUME Inv, Transfer, tx = <<>>
    PROVE  Quiet /\ Moves
<1>1. TypeOK
  BY DEF Inv
<1>2. /\ rx' = IF waiting = <<>> THEN rx ELSE Append(rx, Head(waiting))
      /\ waiting' = Rest(waiting) \o <<>>
      /\ UNCHANGED <<pc, status, hasMessage, buffer, taken, mode, before, link, spoken>>
      /\ tx' = tx
  BY DEF Transfer, driver, phone, Rest
<1>3. <<>> \in Seq(Event)
  BY EmptySeq
<1>4. Adds(<<>>) /\ waiting' \in Seq(Event) /\ rx' \in Seq(Event)
  BY <1>1, <1>2, <1>3, AddsInTransfer
<1>5. Pending' = Pending
  <2>1. Len(Pending') = Len(Pending) /\ \A i \in 1..Len(Pending) : Pending'[i] = Pending[i]
    <3>1. Len(<<>>) = 0
      BY EmptySeq
    <3> QED BY <1>1, <1>4, <3>1, Types DEF Adds
  <2>2. Pending \in Seq(Event)
    BY <1>1, Types
  <2>3. Pending' \in Seq(Event)
    <3> HIDE DEF Event
    <3> QED BY <1>4 DEF Pending
  <2> HIDE DEF Event
  <2> DEFINE p == Pending'
  <2>4. p \in Seq(Event) /\ Len(p) = Len(Pending) /\ \A i \in 1..Len(p) : p[i] = Pending[i]
    BY <2>1, <2>3
  <2> HIDE DEF p
  <2>5. p = Pending
    BY <2>2, <2>4, SeqEqual
  <2> QED BY <2>5 DEF p
<1> QED BY <1>2, <1>5 DEF Quiet, Moves

(* Where a session is after such a transfer.                               *)
LEMMA ServePhases ==
    ASSUME Inv, Serves
    PROVE  /\ (Heard' <=> Heard) /\ (Idle' <=> Idle)
           /\ Told = "connect" =>
                 /\ Asking /\ ~ Answered /\ ~ Heard /\ ~ Idle /\ pc = "advertise"
                 /\ mode \in {"standby", "asleep"} /\ ~ Has(Reports) /\ taken = <<>>
           /\ Answered' <=> Answered \/ (Told = "connect" /\ mode = "standby")
           /\ Heard => Told \in Replies \/ (pc = "hangup" /\ Told = "disconnect")
           /\ Answered => Told = "set_local_data"
           /\ Asking' => Asking /\ ~ (Told = "connect" /\ mode = "standby")
           /\ \A types : Has(types) => Has(types)'
           /\ \A i \in 1..Len(Pending') :
                 \/ i \in 1..Len(Pending) /\ Pending'[i] = Pending[i]
                 \/ i > Len(Pending) /\ AnswersTo(Told, Pending'[i].type)
                    /\ Pending'[i].type # "data" /\ Pending'[i].link = link
           /\ \A i \in 1..Len(Pending) : i \in 1..Len(Pending') /\ Pending'[i] = Pending[i]
           /\ Told \in Replies => mode' = mode
           /\ Told # "connect" => before' = before
<1>1. UNCHANGED <<pc, status, link, taken>> /\ Advances /\ Adding
  BY DEF Serves
<1>2. (Heard' <=> Heard) /\ (Idle' <=> Idle)
  BY <1>1 DEF Heard, Idle
<1>3. ASSUME Told = "connect"
      PROVE  /\ Asking /\ ~ Answered /\ ~ Heard /\ ~ Idle /\ pc = "advertise"
             /\ mode \in {"standby", "asleep"} /\ ~ Has(Reports) /\ taken = <<>>
  <2>1. Asked("connect")
    BY <1>1, <1>3 DEF Asked, Told, Advances
  <2>2. pc = "advertise" /\ status # "ADVERTISING" /\ ~ Answered
    BY <2>1 DEF Inv, OneConnect
  <2>3. Asking /\ ~ Heard /\ ~ Idle
    BY <2>2 DEF Asking, Heard, Idle
  <2> QED BY <2>2, <2>3 DEF Inv, ResetIsAhead, NothingTaken
<1>4. /\ \A i \in 1..Len(Pending') :
            \/ i \in 1..Len(Pending) /\ Pending'[i] = Pending[i]
            \/ i > Len(Pending) /\ AnswersTo(Told, Pending'[i].type)
               /\ Pending'[i].type # "data" /\ Pending'[i].link = link
      /\ \A i \in 1..Len(Pending) : i \in 1..Len(Pending') /\ Pending'[i] = Pending[i]
  BY <1>1 DEF Adding, Grows
<1>5. \A types : Has(types) => Has(types)'
  BY <1>4 DEF Has
<1>6. Answered' <=> Answered \/ (Told = "connect" /\ mode = "standby")
  <2>1. ASSUME Answered' PROVE Answered \/ (Told = "connect" /\ mode = "standby")
    <3>1. PICK i \in 1..Len(Pending') : Pending'[i].type = "connect_rsp"
      BY <2>1 DEF Answered, Has
    <3>2. CASE i \in 1..Len(Pending)
      BY <1>4, <3>1, <3>2 DEF Answered, Has
    <3>3. CASE i > Len(Pending)
      <4>1. Told = "connect" /\ mode # "asleep"
        BY <1>1, <3>1, <3>3 DEF Adding, AnswersTo, Woken
      <4> QED BY <1>3, <4>1
    <3> QED BY <1>4, <3>2, <3>3
  <2>2. Answered => Answered'
    BY <1>5 DEF Answered
  <2>3. Told = "connect" /\ mode = "standby" => Answered'
    BY <1>1 DEF Adding, Answered
  <2> QED BY <2>1, <2>2, <2>3
<1>7. Heard => Told \in Replies \/ (pc = "hangup" /\ Told = "disconnect")
  BY <1>1 DEF Inv, OnlyReplies, Told, Advances
<1>8. Answered => Told = "set_local_data"
  BY <1>1 DEF Inv, OnlyReplies, Told, Advances
<1>9. Asking' => Asking /\ ~ (Told = "connect" /\ mode = "standby")
  BY <1>1, <1>6 DEF Asking
<1>10. Told \in Replies => mode' = mode
  BY DEF Serves, ModeAfter, Replies
<1>11. Told # "connect" => before' = before
  BY DEF Serves
<1> QED BY <1>2, <1>3, <1>4, <1>5, <1>6, <1>7, <1>8, <1>9, <1>10, <1>11

LEMMA ServeKeepsControl ==
    ASSUME Inv, Serves
    PROVE  OneConnect' /\ StatusInPhase' /\ NothingTaken' /\ MessagesInOrder'
           /\ OneStaleAtMost' /\ LinksInOrder' /\ ReportsAreFresh'
<1>1. UNCHANGED <<pc, status, link, spoken, hasMessage, buffer, taken>> /\ Advances /\ Adding
  BY DEF Serves
<1>2. taken = <<>> => \A i \in 1..Len(taken) : FALSE
  BY EmptySeq
<1>3. OneConnect'
  <2>1. \A i, j \in 1..Len(tx') : tx'[i] = "connect" /\ tx'[j] = "connect" => i = j
    <3>1. \A i, j \in 1..Len(tx') : i + 1 = j + 1 => i = j
      BY <1>1 DEF Advances
    <3>2. \A i, j \in 1..Len(tx) : tx[i] = "connect" /\ tx[j] = "connect" => i = j
      BY DEF Inv, OneConnect
    <3>3. \A i \in 1..Len(tx') : i + 1 \in 1..Len(tx) /\ tx'[i] = tx[i + 1]
      BY <1>1 DEF Advances
    <3> QED BY <3>1, <3>2, <3>3
  <2>2. Asked("connect")' => Asked("connect") /\ Told # "connect"
    <3>1. ASSUME Asked("connect")' PROVE Asked("connect") /\ Told # "connect"
      <4>1. PICK i \in 1..Len(tx') : tx'[i] = "connect"
        BY <3>1 DEF Asked
      <4>2. i + 1 \in 1..Len(tx) /\ tx[i + 1] = "connect" /\ i + 1 # 1
        BY <1>1, <4>1 DEF Advances
      <4>3. Told # "connect"
        BY <1>1, <4>2 DEF Inv, OneConnect, Told, Advances
      <4> QED BY <4>2, <4>3 DEF Asked
    <3> QED BY <3>1
  <2>3. Answered' => ~ Asked("connect")'
    BY <2>2, ServePhases DEF Inv, OneConnect
  <2>4. Answered' \/ Asked("connect")' => pc = "advertise" /\ status # "ADVERTISING"
    <3>1. Told = "connect" => Asked("connect")
      BY <1>1 DEF Asked, Told, Advances
    <3> QED BY <2>2, <3>1, ServePhases DEF Inv, OneConnect
  <2>5. \A i, j \in 1..Len(Pending') :
            Pending'[i].type = "connect_rsp" /\ Pending'[j].type = "connect_rsp" => i = j
    <3> SUFFICES ASSUME NEW i \in 1..Len(Pending'), NEW j \in 1..Len(Pending'),
                        Pending'[i].type = "connect_rsp", Pending'[j].type = "connect_rsp"
                 PROVE  i = j
      OBVIOUS
    <3>1. CASE Told = "connect"
      <4>1. i > Len(Pending) /\ j > Len(Pending)
        BY <3>1, ServePhases DEF Answered, Has
      <4> QED BY <1>1, <4>1 DEF Adding
    <3>2. CASE Told # "connect"
      <4>1. /\ i \in 1..Len(Pending) /\ Pending[i].type = "connect_rsp"
            /\ j \in 1..Len(Pending) /\ Pending[j].type = "connect_rsp"
        BY <3>2, ServePhases DEF AnswersTo, Woken
      <4> QED BY <4>1 DEF Inv, OneConnect
    <3> QED BY <3>1, <3>2
  <2> QED BY <1>1, <2>1, <2>3, <2>4, <2>5 DEF OneConnect
<1>4. StatusInPhase' /\ NothingTaken'
  BY <1>1 DEF Inv, StatusInPhase, NothingTaken, Idle
<1>5. MessagesInOrder' /\ OneStaleAtMost'
  <2>1. CASE Told = "connect"
    <3>1. \A i \in 1..Len(taken) : FALSE
      BY <1>2, <2>1, ServePhases
    <3>2. taken = <<>> => Len(taken) = 0
      BY EmptySeq
    <3> QED BY <1>1, <2>1, <3>1, <3>2, ServePhases DEF MessagesInOrder, OneStaleAtMost
  <2>2. CASE Told # "connect"
    BY <1>1, <2>2, ServePhases DEF Inv, MessagesInOrder, OneStaleAtMost
  <2> QED BY <2>1, <2>2
<1>6. LinksInOrder'
  <2>1. /\ link \in Nat /\ before \in Nat /\ link \in before..before + 1
        /\ \A i \in 1..Len(Pending) : Pending[i].link <= link
    BY Types DEF Inv, LinksInOrder
  <2>2. link \in before'..before' + 1
    BY <2>1 DEF Serves
  <2>3. mode' = "advertising" => link = before'
    BY DEF Serves, ModeAfter, Inv, LinksInOrder
  <2>4. mode' = "connected" => link >= 1
    BY DEF Serves, ModeAfter, Inv, LinksInOrder
  <2>5. /\ \A i \in 1..Len(Pending') : Pending'[i].link <= link
        /\ \A i \in 1..Len(Pending') :
              Pending'[i].type = "data" => Pending'[i].link >= 1 /\ Pending'[i].number >= 1
    BY <2>1, ServePhases DEF Inv, LinksInOrder
  <2>6. \A i, j \in 1..Len(Pending') : i <= j => Pending'[i].link <= Pending'[j].link
    <3> SUFFICES ASSUME NEW i \in 1..Len(Pending'), NEW j \in 1..Len(Pending'), i <= j
                 PROVE  Pending'[i].link <= Pending'[j].link
      OBVIOUS
    <3>1. CASE j \in 1..Len(Pending)
      <4>1. i \in 1..Len(Pending) /\ Pending'[i] = Pending[i] /\ Pending'[j] = Pending[j]
        BY <3>1, ServePhases, Types DEF Inv
      <4> QED BY <3>1, <4>1 DEF Inv, LinksInOrder
    <3>2. CASE ~ (j \in 1..Len(Pending))
      <4>1. Pending'[j].link = link
        BY <3>2, ServePhases
      <4> QED BY <2>5, <4>1
    <3> QED BY <3>1, <3>2
  <2>7. /\ \A i \in 1..Len(taken) : taken[i].link <= link
        /\ \A i \in 1..Len(taken) : \A j \in 1..Len(Pending') : taken[i].link <= Pending'[j].link
        /\ \A i, j \in 1..Len(taken) : i <= j => taken[i].link <= taken[j].link
        /\ \A i \in 1..Len(taken) : hasMessage => taken[i].link <= buffer.link
    BY ServePhases DEF Inv, LinksInOrder
  <2>8. hasMessage => /\ buffer \in Message /\ buffer.link <= link
                      /\ \A j \in 1..Len(Pending') : buffer.link <= Pending'[j].link
    BY ServePhases DEF Inv, LinksInOrder
  <2> QED BY <1>1, <2>2, <2>3, <2>4, <2>5, <2>6, <2>7, <2>8 DEF LinksInOrder
<1>7. ReportsAreFresh'
  <2> SUFFICES ASSUME Heard' \/ Answered' PROVE ReportsAreFresh'
    BY DEF ReportsAreFresh
  <2>1. CASE Told = "connect"
    <3>1. mode' # "connected"
      BY <2>1, ServePhases DEF Serves, ModeAfter
    <3>2. \A i \in 1..Len(Pending') : Pending'[i].type \notin Reports
      BY <2>1, ServePhases DEF AnswersTo, Woken, Reports, OfLink, Has
    <3> QED BY <1>1, <2>1, <3>1, <3>2, ServePhases DEF ReportsAreFresh
  <2>2. CASE Told # "connect"
    <3>1. /\ mode = "connected" => link > before
          /\ \A i \in 1..Len(Pending) :
                Pending[i].type \in Reports => Pending[i].link > before
          /\ hasMessage /\ taken # <<>> => buffer.link > before
      BY <2>2, ServePhases DEF Inv, ReportsAreFresh
    <3>2. mode' = "connected" => mode = "connected"
      BY <2>2 DEF Serves, ModeAfter
    <3>3. \A i \in 1..Len(Pending') :
              Pending'[i].type \in Reports => Pending'[i].link > before
      BY <2>2, <3>1, ServePhases DEF AnswersTo, Woken, Reports, OfLink
    <3> QED BY <1>1, <2>2, <3>1, <3>2, <3>3, ServePhases DEF ReportsAreFresh
  <2> QED BY <2>1, <2>2
<1> QED BY <1>3, <1>4, <1>5, <1>6, <1>7

LEMMA ServeKeepsRadio ==
    ASSUME Inv, Serves
    PROVE  EndIsLast' /\ ResetIsAhead' /\ OnlyReplies' /\ StatusFollows'
<1>1. UNCHANGED <<pc, status, link, spoken, hasMessage, buffer, taken>> /\ Advances /\ Adding
      /\ mode' = ModeAfter(Told)
      /\ mode \in {"asleep", "standby", "advertising", "connected"}
  BY DEF Serves, Inv, TypeOK
<1>2. /\ \A i \in 1..Len(Pending') : i \in 1..Len(Pending) \/ i > Len(Pending)
      /\ \A i \in 1..Len(Pending) : \A j \in 1..Len(Pending') : j > Len(Pending) => i < j
      /\ \A i \in 1..Len(Pending') : i <= Len(Pending')
      /\ \A i \in 1..Len(Pending) : i \in Nat
      /\ \A i, j \in 1..Len(tx') : i < j => i + 1 < j + 1
  BY <1>1, ServePhases, Types DEF Inv, Advances, Adding, Grows
(* A connection ends with the radio's answer.                              *)
<1>3. ASSUME mode = "connected", Told \in {"disconnect", "radio_reset"}
      PROVE  /\ mode' = "standby" /\ ~ Has({"disconnected"}) /\ Has({"disconnected"})'
             /\ \A i \in 1..Len(Pending') :
                   Pending'[i].type = "disconnected" => i = Len(Pending')
             /\ Len(Pending') \in 1..Len(Pending') /\ Len(Pending') > Len(Pending)
             /\ Pending'[Len(Pending')].type = "disconnected"
  <2>1. mode' = "standby"
    BY <1>1, <1>3 DEF ModeAfter
  <2>2. ~ Has({"disconnected"})
    BY <1>3 DEF Inv, EndIsLast
  <2>3. /\ Len(Pending') \in 1..Len(Pending') /\ Len(Pending') > Len(Pending)
        /\ Pending'[Len(Pending')].type = "disconnected"
    BY <1>1, <1>3 DEF Adding
  <2>4. \A i \in 1..Len(Pending') : Pending'[i].type = "disconnected" => i = Len(Pending')
    BY <1>1, <1>2, <2>2, ServePhases DEF Has, Adding
  <2> QED BY <2>1, <2>2, <2>3, <2>4 DEF Has
(* Otherwise nothing is added about the end of one.                        *)
<1>4. ASSUME ~ (mode = "connected" /\ Told \in {"disconnect", "radio_reset"})
      PROVE  /\ \A i \in 1..Len(Pending') : Pending'[i].type \in Reports =>
                   \/ i \in 1..Len(Pending) /\ Pending'[i] = Pending[i]
                   \/ i > Len(Pending) /\ Pending'[i].type = "timing" /\ mode = "connected"
             /\ Has({"disconnected"})' <=> Has({"disconnected"})
             /\ Has({"connected"})' <=> Has({"connected"})
             /\ mode # "connected" => (Has(Reports)' => Has(Reports))
  <2>1. \A i \in 1..Len(Pending') : Pending'[i].type \in Reports =>
                   \/ i \in 1..Len(Pending) /\ Pending'[i] = Pending[i]
                   \/ i > Len(Pending) /\ Pending'[i].type = "timing" /\ mode = "connected"
    BY <1>4, ServePhases DEF AnswersTo, Woken, Reports, OfLink
  <2>2. "disconnected" \in Reports /\ "connected" \in Reports
    BY DEF Reports, OfLink
  <2> QED BY <2>1, <2>2, ServePhases DEF Has
<1>5. EndIsLast'
  <2>1. CASE mode = "connected" /\ Told \in {"disconnect", "radio_reset"}
    <3>1. \A i, j \in 1..Len(Pending') :
              Pending'[i].type = "disconnected" /\ Pending'[j].type \in Reports => j <= i
      BY <1>2, <1>3, <2>1
    <3> QED BY <1>3, <2>1, <3>1 DEF EndIsLast
  <2>2. CASE ~ (mode = "connected" /\ Told \in {"disconnect", "radio_reset"})
    <3>1. mode = "connected" => ~ Has({"disconnected"})'
      BY <1>4, <2>2 DEF Inv, EndIsLast
    <3>2. \A i, j \in 1..Len(Pending') :
              Pending'[i].type = "disconnected" /\ Pending'[j].type \in Reports => j <= i
      <4> SUFFICES ASSUME NEW i \in 1..Len(Pending'), NEW j \in 1..Len(Pending'),
                          Pending'[i].type = "disconnected", Pending'[j].type \in Reports
                   PROVE  j <= i
        OBVIOUS
      <4>1. mode # "connected"
        BY <3>1 DEF Has
      <4>2. i \in 1..Len(Pending) /\ Pending'[i] = Pending[i]
            /\ j \in 1..Len(Pending) /\ Pending'[j] = Pending[j]
        BY <1>4, <2>2, <4>1 DEF Reports
      <4> QED BY <4>2 DEF Inv, EndIsLast
    <3>3. Has({"disconnected"})' => mode' \in {"standby", "asleep"}
      <4>1. Has({"disconnected"}) => mode \in {"standby", "asleep"} /\ Has(Reports)
        BY DEF Inv, EndIsLast, Has, Reports
      <4>2. Has({"disconnected"}) => Told # "connect"
        BY <4>1, ServePhases
      <4> QED BY <1>1, <1>4, <2>2, <4>1, <4>2 DEF ModeAfter
    <3>4. ASSUME NEW i \in 1..Len(Pending'), Pending'[i].type \in OfLink,
                 mode' \in {"standby", "asleep"}
          PROVE  Has({"disconnected"})'
      <4>1. mode # "connected"
        BY <1>1, <2>2, <3>4 DEF ModeAfter
      <4>2. i \in 1..Len(Pending) /\ Pending[i].type \in OfLink /\ Has(Reports)
        BY <1>4, <2>2, <3>4, <4>1 DEF Reports, Has
      <4>3. mode \in {"standby", "asleep"}
        BY <1>1, <4>1, <4>2 DEF Inv, EndIsLast
      <4> QED BY <1>4, <2>2, <4>2, <4>3 DEF Inv, EndIsLast
    <3>5. mode' = "advertising" => ~ Has(Reports)'
      <4> SUFFICES ASSUME mode' = "advertising" PROVE ~ Has(Reports)'
        OBVIOUS
      <4>1. mode = "advertising" \/ (Told = "connect" /\ mode = "standby")
        BY <1>1 DEF ModeAfter
      <4>2. ~ Has(Reports)
        BY <4>1, ServePhases DEF Inv, EndIsLast
      <4> QED BY <1>4, <2>2, <4>1, <4>2
    <3> QED BY <3>2, <3>3, <3>4, <3>5 DEF EndIsLast
  <2> QED BY <2>1, <2>2
<1>6. ResetIsAhead'
  <2>1. ASSUME Idle', mode' \in {"advertising", "connected"}
        PROVE  /\ status' # "STANDBY" /\ ~ Has(Woken)'
               /\ \E r \in 1..Len(tx') :
                     tx'[r] = "radio_reset" /\ \A w \in 1..r : tx'[w] # "wakeup"
    <3>1. Idle /\ Told # "connect"
      BY <2>1, ServePhases
    <3>2. mode \in {"advertising", "connected"} /\ Told # "radio_reset"
      BY <1>1, <2>1, <3>1 DEF ModeAfter
    <3>3. PICK r \in 1..Len(tx) :
              tx[r] = "radio_reset" /\ \A w \in 1..r : tx[w] # "wakeup"
      BY <3>1, <3>2 DEF Inv, ResetIsAhead
    <3> DEFINE s == r - 1
    <3>4. r # 1 /\ s \in 1..Len(tx') /\ tx'[s] = "radio_reset" /\ s + 1 = r
      BY <1>1, <3>2, <3>3 DEF Told, Advances
    <3>5. \A w \in 1..s : w \in 1..Len(tx') /\ w + 1 \in 1..r
      BY <1>1, <3>4 DEF Advances
    <3> HIDE DEF s
    <3>6. \A w \in 1..s : tx'[w] # "wakeup"
      BY <1>1, <3>3, <3>5 DEF Advances
    <3>7. Told # "wakeup"
      BY <3>3 DEF Told
    <3>8. ~ Has(Woken)'
      <4>1. ~ Has(Woken)
        BY <3>1, <3>2 DEF Inv, ResetIsAhead
      <4> QED BY <3>7, <4>1, ServePhases DEF Has, AnswersTo, Woken
    <3>9. status' # "STANDBY"
      BY <1>1, <3>1, <3>2 DEF Inv, ResetIsAhead
    <3> QED BY <3>4, <3>6, <3>8, <3>9
  <2>2. ASSUME Idle', NEW i \in 1..Len(Pending'), NEW j \in 1..Len(Pending'),
               Pending'[i].type \in Woken, Pending'[j].type \in Reports
        PROVE  j < i
    <3>1. Idle
      BY <2>2, ServePhases
    <3>2. mode = "connected" => ~ Has(Woken)
      BY <3>1 DEF Inv, ResetIsAhead
    <3>3. CASE j \in 1..Len(Pending)
      <4>1. CASE i \in 1..Len(Pending)
        BY <2>2, <3>1, <3>3, <4>1, ServePhases DEF Inv, ResetIsAhead
      <4> QED BY <1>2, <3>3, <4>1
    <3>4. CASE j > Len(Pending)
      <4>1. mode = "connected" /\ Told # "wakeup"
        <5>1. AnswersTo(Told, Pending'[j].type)
          BY <1>2, <2>2, <3>4, ServePhases
        <5> QED BY <2>2, <5>1 DEF AnswersTo, Woken, Reports, OfLink
      <4>2. i \in 1..Len(Pending) /\ Pending[i].type \in Woken
        BY <2>2, <4>1, ServePhases DEF AnswersTo, Woken
      <4> QED BY <3>2, <4>1, <4>2 DEF Has
    <3> QED BY <1>2, <3>3, <3>4
  <2>3. pc' = "wake" /\ status' = "STANDBY" => ~ Has(Reports)'
    <3> SUFFICES ASSUME pc = "wake", status = "STANDBY" PROVE ~ Has(Reports)'
      BY <1>1
    <3>1. ~ Has(Reports) /\ mode # "connected"
      BY DEF Inv, ResetIsAhead, Idle
    <3> QED BY <1>4, <3>1
  <2>4. Asking' => mode' \in {"standby", "asleep"} /\ ~ Has(Reports)'
    <3> SUFFICES ASSUME Asking' PROVE mode' \in {"standby", "asleep"} /\ ~ Has(Reports)'
      OBVIOUS
    <3>1. Asking /\ ~ (Told = "connect" /\ mode = "standby")
      BY ServePhases
    <3>2. mode \in {"standby", "asleep"} /\ ~ Has(Reports)
      BY <3>1 DEF Inv, ResetIsAhead
    <3> QED BY <1>1, <1>4, <3>1, <3>2 DEF ModeAfter
  <2> QED BY <2>1, <2>2, <2>3, <2>4 DEF ResetIsAhead
<1>7. OnlyReplies'
  <2>1. Heard' => \A i \in 1..Len(tx') :
            tx'[i] \in Replies \/ (pc' = "hangup" /\ tx'[i] = "disconnect")
    <3>1. Heard' => OnlyReplies /\ Heard
      BY ServePhases DEF Inv
    <3>2. pc' = pc /\ \A i \in 1..Len(tx') : i + 1 \in 1..Len(tx) /\ tx'[i] = tx[i + 1]
      BY <1>1 DEF Advances
    <3> QED BY <3>1, <3>2 DEF OnlyReplies
  <2>2. Heard' => ~ Has(Woken)'
    <3> SUFFICES ASSUME Heard PROVE ~ Has(Woken)'
      BY ServePhases
    <3>1. ~ Has(Woken) /\ Told # "wakeup"
      BY ServePhases DEF Inv, OnlyReplies, Replies
    <3> QED BY <3>1, ServePhases DEF AnswersTo, Woken, Has
  <2>3. \A i, j \in 1..Len(tx') : tx'[i] = "connect" /\ i < j => tx'[j] = "set_local_data"
    <3>1. \A i, j \in 1..Len(tx) : tx[i] = "connect" /\ i < j => tx[j] = "set_local_data"
      BY DEF Inv, OnlyReplies
    <3>2. \A i \in 1..Len(tx') : i + 1 \in 1..Len(tx) /\ tx'[i] = tx[i + 1]
      BY <1>1 DEF Advances
    <3> QED BY <1>2, <3>1, <3>2
  <2>4. Answered' => \A i \in 1..Len(tx') : tx'[i] = "set_local_data"
    <3>1. CASE Answered
      BY <1>1, <3>1 DEF Inv, OnlyReplies, Advances
    <3>2. CASE Told = "connect"
      <4>1. \A i \in 1..Len(tx') : 1 < i + 1 /\ i + 1 \in 1..Len(tx) /\ 1 \in 1..Len(tx)
        BY <1>1 DEF Advances
      <4>2. \A i \in 1..Len(tx') : tx[i + 1] = "set_local_data"
        BY <3>2, <4>1 DEF Inv, OnlyReplies, Told
      <4> QED BY <1>1, <4>2 DEF Advances
    <3> QED BY <3>1, <3>2, ServePhases
  <2>5. ASSUME NEW i \in 1..Len(Pending'), NEW j \in 1..Len(Pending'),
               Pending'[i].type = "connect_rsp", i < j
        PROVE  Pending'[j].type \notin Woken \cup {"version_rsp", "timing"}
    <3>1. CASE i > Len(Pending)
      <4>1. i = Len(Pending')
        BY <1>1, <2>5, <3>1 DEF Adding
      <4>2. j <= Len(Pending')
        BY <1>2
      <4>3. FALSE
        BY <1>1, <2>5, <4>1, <4>2, ServePhases DEF Adding, Grows
      <4> QED BY <4>3
    <3>2. CASE i \in 1..Len(Pending)
      <4>1. Pending[i].type = "connect_rsp" /\ Answered
        BY <2>5, <3>2, ServePhases DEF Answered, Has
      <4>2. CASE j \in 1..Len(Pending)
        BY <2>5, <3>2, <4>1, <4>2, ServePhases DEF Inv, OnlyReplies
      <4>3. CASE j > Len(Pending)
        <5>1. AnswersTo("set_local_data", Pending'[j].type)
          BY <1>2, <4>1, <4>3, ServePhases
        <5> QED BY <5>1 DEF AnswersTo, Woken
      <4> QED BY <1>2, <4>2, <4>3
    <3> QED BY <1>2, <3>1, <3>2
  <2>6. ASSUME NEW i \in 1..Len(Pending'), NEW j \in 1..Len(Pending'),
               Pending'[i].type = "connect_rsp", j < i
        PROVE  Pending'[j].type \notin Reports
    <3>1. CASE i > Len(Pending)
      <4>1. Told = "connect"
        <5>1. AnswersTo(Told, "connect_rsp")
          BY <1>2, <2>6, <3>1, ServePhases
        <5> QED BY <5>1 DEF AnswersTo, Woken
      <4>2. ~ Has(Reports) /\ mode # "connected"
        BY <4>1, ServePhases
      <4>3. ~ Has(Reports)'
        BY <1>4, <4>2
      <4> QED BY <4>3 DEF Has
    <3>2. CASE i \in 1..Len(Pending)
      <4>1. Pending[i].type = "connect_rsp"
        BY <2>6, <3>2, ServePhases
      <4>2. j \in 1..Len(Pending)
        BY <2>6, <3>2, Types DEF Inv
      <4> QED BY <2>6, <3>2, <4>1, <4>2, ServePhases DEF Inv, OnlyReplies
    <3> QED BY <1>2, <3>1, <3>2
  <2> QED BY <2>1, <2>2, <2>3, <2>4, <2>5, <2>6 DEF OnlyReplies
<1>8. StatusFollows'
  <2>1. ASSUME NEW now, Follows(now),
               ~ (mode = "connected" /\ Told \in {"disconnect", "radio_reset"}), mode' = mode
        PROVE  \/ /\ now = "ADVERTISING"
                  /\ \/ mode = "advertising" /\ ~ Has({"connected", "disconnected"})'
                     \/ mode = "connected" /\ Has({"connected"})' /\ ~ Has({"disconnected"})'
                     \/ /\ mode = "standby"
                        /\ \E i, j \in 1..Len(Pending') :
                              i < j /\ Pending'[i].type = "connected"
                              /\ Pending'[j].type = "disconnected"
               \/ /\ now = "CONNECTED" /\ ~ Has({"connected"})'
                  /\ \/ mode = "connected" /\ ~ Has({"disconnected"})'
                     \/ mode = "standby" /\ Has({"disconnected"})'
               \/ /\ now = "STANDBY" /\ mode = "standby"
                  /\ ~ Has({"connected", "disconnected"})'
    <3>1. /\ Has({"disconnected"})' <=> Has({"disconnected"})
          /\ Has({"connected"})' <=> Has({"connected"})
      BY <1>4, <2>1
    <3>2. ~ Has({"connected", "disconnected"}) => ~ Has({"connected", "disconnected"})'
      BY <3>1 DEF Has
    <3>3. (\E i, j \in 1..Len(Pending) :
              i < j /\ Pending[i].type = "connected" /\ Pending[j].type = "disconnected")
          => \E i, j \in 1..Len(Pending') :
                i < j /\ Pending'[i].type = "connected" /\ Pending'[j].type = "disconnected"
      BY ServePhases
    <3> QED BY <2>1, <3>1, <3>2, <3>3 DEF Follows
  <2>2. ASSUME Heard PROVE Follows(status)'
    <3>1. Follows(status) /\ status' = status
      BY <1>1, <2>2 DEF Inv, StatusFollows
    <3>2. CASE mode = "connected" /\ Told \in {"disconnect", "radio_reset"}
      <4>1. \/ status = "ADVERTISING" /\ Has({"connected"})
            \/ status = "CONNECTED" /\ ~ Has({"connected"})
        BY <3>1, <3>2 DEF Follows
      <4>2. Has({"connected"}) =>
              \E i, j \in 1..Len(Pending') :
                  i < j /\ Pending'[i].type = "connected" /\ Pending'[j].type = "disconnected"
        BY <1>2, <1>3, <3>2, ServePhases DEF Has
      <4>3. ~ Has({"connected"}) => ~ Has({"connected"})'
        BY ServePhases DEF Has, AnswersTo, Woken
      <4> QED BY <1>3, <3>1, <3>2, <4>1, <4>2, <4>3 DEF Follows
    <3>3. CASE ~ (mode = "connected" /\ Told \in {"disconnect", "radio_reset"})
      <4>1. mode' = mode
        BY <1>1, <2>2, <3>3, ServePhases DEF ModeAfter, Replies
      <4> QED BY <2>1, <3>1, <3>3, <4>1 DEF Follows
    <3> QED BY <3>2, <3>3
  <2>3. ASSUME Answered PROVE Follows("ADVERTISING")'
    <3>1. Follows("ADVERTISING") /\ Told = "set_local_data"
      BY <2>3, ServePhases DEF Inv, StatusFollows
    <3>2. mode' = mode
      BY <3>1, ServePhases DEF Replies
    <3> QED BY <2>1, <3>1, <3>2 DEF Follows
  <2>4. ASSUME Told = "connect", mode = "standby" PROVE Follows("ADVERTISING")'
    <3>1. mode' = "advertising" /\ ~ Has(Reports)
      BY <1>1, <2>4, ServePhases DEF ModeAfter
    <3>2. ~ Has(Reports)'
      BY <1>4, <2>4, <3>1
    <3>3. ~ Has({"connected", "disconnected"})'
      BY <3>2 DEF Has, Reports, OfLink
    <3> QED BY <3>1, <3>3 DEF Follows
  <2> QED BY <2>2, <2>3, <2>4, ServePhases DEF StatusFollows
<1> QED BY <1>5, <1>6, <1>7, <1>8

LEMMA ServeKeepsNumbers ==
    ASSUME Inv, Serves
    PROVE  NumbersInOrder'
<1>1. UNCHANGED <<pc, status, link, spoken, hasMessage, buffer, taken>>
  BY DEF Serves
<1>2. \A i \in 1..Len(Pending') :
          Pending'[i].type = "data" => i \in 1..Len(Pending) /\ Pending'[i] = Pending[i]
  BY ServePhases
<1>3. CASE Told = "connect"
  <2>1. /\ link \in Nat /\ before' = link /\ taken = <<>>
        /\ \A i \in 1..Len(Pending) : Pending[i].link \in Nat /\ Pending[i].link <= link
        /\ hasMessage => buffer.link \in Nat /\ buffer.link <= link
    <3>1. MaxLinks \in Nat
      BY ParametersAssumption
    <3>2. \A i \in 1..Len(Pending) : Pending[i].link \in Nat
      BY <3>1, Types DEF Inv, Event
    <3>3. hasMessage => buffer.link \in Nat
      BY <3>1 DEF Inv, LinksInOrder, Message
    <3>4. before' = link
      BY <1>3 DEF Serves
    <3> QED BY <1>3, <3>2, <3>3, <3>4, ServePhases, Types DEF Inv, LinksInOrder
  <2>2. ~ FreshBuffer' /\ ~ (link' > before')
    BY <1>1, <2>1 DEF FreshBuffer
  <2>3. \A i \in 1..Len(Pending') : ~ (Pending'[i].type = "data" /\ Pending'[i].link > before')
    BY <1>2, <2>1
  <2> QED BY <1>1, <2>2, <2>3 DEF NumbersInOrder, FreshData
<1>4. CASE Told # "connect"
  <2>1. before' = before /\ (Heard' <=> Heard) /\ (Answered' <=> Answered)
    BY <1>4, ServePhases
  <2>2. Got' = Got /\ Given' = Given /\ (FreshBuffer' <=> FreshBuffer)
    BY <1>1, <2>1 DEF Got, Given, FreshBuffer
  <2> SUFFICES ASSUME Heard \/ Answered PROVE NumbersInOrder'
    BY <2>1 DEF NumbersInOrder
  <2>3. CASE pc \in {"sleep", "hangup"}
    BY <1>1, <2>3 DEF NumbersInOrder
  <2>4. CASE pc \notin {"sleep", "hangup"}
    <3>1. /\ FreshBuffer => pc = "received" /\ buffer.number = Given + 1
          /\ link > before => Got <= spoken
          /\ \A i \in 1..Len(Pending) :
                FreshData(Pending[i]) => Pending[i].number \in Got + 1..spoken
          /\ \A i, j \in 1..Len(Pending) :
                FreshData(Pending[i]) /\ FreshData(Pending[j]) /\ i < j
                    => Pending[i].number < Pending[j].number
          /\ link > before =>
                \A n \in Got + 1..spoken :
                    \E i \in 1..Len(Pending) :
                        FreshData(Pending[i]) /\ Pending[i].number = n
      BY <2>4 DEF Inv, NumbersInOrder
    <3>2. \A i \in 1..Len(Pending') :
              FreshData(Pending'[i]) => i \in 1..Len(Pending) /\ Pending'[i] = Pending[i]
      BY <1>2 DEF FreshData
    <3>3. /\ \A i \in 1..Len(Pending') :
                FreshData(Pending'[i]) => Pending'[i].number \in Got + 1..spoken
          /\ \A i, j \in 1..Len(Pending') :
                FreshData(Pending'[i]) /\ FreshData(Pending'[j]) /\ i < j
                    => Pending'[i].number < Pending'[j].number
      BY <3>1, <3>2
    <3>4. link > before =>
              \A n \in Got + 1..spoken :
                  \E i \in 1..Len(Pending') :
                      FreshData(Pending'[i]) /\ Pending'[i].number = n
      BY <3>1, ServePhases
    <3> QED BY <1>1, <2>1, <2>2, <3>1, <3>3, <3>4 DEF NumbersInOrder, FreshData
  <2> QED BY <2>3, <2>4
<1> QED BY <1>3, <1>4

(* The radio answers device_version and change_timing when they are given  *)
(* to it: then their chains are at an event.                               *)
LEMMA ServeKeepsKinds ==
    ASSUME Inv, Serves
    PROVE  CommandsFit'
<1>1. UNCHANGED <<pc, status, link>> /\ Advances /\ Adding
  BY DEF Serves
<1> SUFFICES ASSUME Heard
             PROVE  /\ AtMostOne(AfterConnected)' /\ AtMostOne(AfterPipes)'
                    /\ link' = before' => ~ Has(AfterConnected \cup AfterPipes)'
                    /\ \E kind \in [1..Len(tx') -> Kind] : KindsOf(kind)'
  BY ServePhases DEF CommandsFit
<1>2. /\ AtMostOne(AfterConnected) /\ AtMostOne(AfterPipes)
      /\ link = before => ~ Has(AfterConnected \cup AfterPipes)
  BY DEF Inv, CommandsFit
<1>3. PICK kind \in [1..Len(tx) -> Kind] : KindsOf(kind)
  BY DEF Inv, CommandsFit
<1>4. before' = before /\ Told \in Replies \cup {"disconnect"}
  BY ServePhases DEF Replies
<1>5. 1 \in 1..Len(tx) /\ Told = tx[1]
  BY <1>1 DEF Advances, Told
<1>6. /\ Told = "device_version" =>
            link > before /\ ~ Has(AfterConnected) /\ kind[1] = "chain of connected"
      /\ Told = "change_timing" =>
            link > before /\ ~ Has(AfterPipes) /\ kind[1] = "chain of pipes"
  BY <1>3, <1>5 DEF KindsOf
(* What is added is of the chain whose command was given.                  *)
<1>7. \A i \in 1..Len(Pending') :
          /\ Pending'[i].type \in AfterConnected =>
                \/ i \in 1..Len(Pending) /\ Pending'[i] = Pending[i]
                \/ /\ i > Len(Pending) /\ Pending'[i].type = "version_rsp"
                   /\ Told = "device_version"
          /\ Pending'[i].type \in AfterPipes =>
                \/ i \in 1..Len(Pending) /\ Pending'[i] = Pending[i]
                \/ /\ i > Len(Pending) /\ Pending'[i].type = "timing"
                   /\ Told = "change_timing"
  BY ServePhases DEF AnswersTo, Woken, AfterConnected, AfterPipes
<1>8. /\ Has(AfterConnected)' => Has(AfterConnected) \/ Told = "device_version"
      /\ Has(AfterPipes)' => Has(AfterPipes) \/ Told = "change_timing"
  BY <1>7 DEF Has
<1>9. AtMostOne(AfterConnected)'
  <2>1. ASSUME NEW i \in 1..Len(Pending'), NEW j \in 1..Len(Pending'),
               Pending'[i].type \in AfterConnected, Pending'[j].type \in AfterConnected
        PROVE  i = j
    <3>1. CASE Told = "device_version"
      <4>1. /\ i > Len(Pending) /\ Pending'[i].type = "version_rsp"
            /\ j > Len(Pending) /\ Pending'[j].type = "version_rsp"
        BY <1>6, <1>7, <2>1, <3>1 DEF Has
      <4> QED BY <1>1, <4>1 DEF Adding
    <3>2. CASE Told # "device_version"
      BY <1>2, <1>7, <2>1, <3>2 DEF AtMostOne
    <3> QED BY <3>1, <3>2
  <2> QED BY <2>1 DEF AtMostOne
<1>10. AtMostOne(AfterPipes)'
  <2>1. ASSUME NEW i \in 1..Len(Pending'), NEW j \in 1..Len(Pending'),
               Pending'[i].type \in AfterPipes, Pending'[j].type \in AfterPipes
        PROVE  i = j
    <3>1. CASE Told = "change_timing"
      <4>1. /\ i > Len(Pending) /\ Pending'[i].type = "timing"
            /\ j > Len(Pending) /\ Pending'[j].type = "timing"
        BY <1>6, <1>7, <2>1, <3>1 DEF Has
      <4> QED BY <1>1, <4>1 DEF Adding
    <3>2. CASE Told # "change_timing"
      BY <1>2, <1>7, <2>1, <3>2 DEF AtMostOne
    <3> QED BY <3>1, <3>2
  <2> QED BY <2>1 DEF AtMostOne
<1>11. link' = before' => ~ Has(AfterConnected \cup AfterPipes)'
  <2>1. link = before => ~ (link > before)
    BY Types DEF Inv
  <2> SUFFICES ASSUME link = before PROVE ~ Has(AfterConnected \cup AfterPipes)'
    BY <1>1, <1>4
  <2>2. ~ Has(AfterConnected) /\ ~ Has(AfterPipes)
    BY <1>2 DEF Has
  <2>3. ~ Has(AfterConnected)' /\ ~ Has(AfterPipes)'
    BY <1>6, <1>8, <2>1, <2>2
  <2> QED BY <2>3 DEF Has
<1> DEFINE next == [i \in 1..Len(tx') |-> kind[i + 1]]
<1>12. \A i \in 1..Len(tx') :
           /\ next[i] = kind[i + 1] /\ i + 1 \in 1..Len(tx) /\ tx'[i] = tx[i + 1]
           /\ i + 1 # 1
  BY <1>1 DEF Advances
<1>13. next \in [1..Len(tx') -> Kind]
  BY <1>3, <1>12
<1> HIDE DEF next
<1>14. \A i, j \in 1..Len(tx') : next[i] = next[j] => i = j
  <2> SUFFICES ASSUME NEW i \in 1..Len(tx'), NEW j \in 1..Len(tx'), next[i] = next[j]
               PROVE  i = j
    OBVIOUS
  <2> DEFINE k == i + 1
             l == j + 1
  <2>1. k \in 1..Len(tx) /\ l \in 1..Len(tx) /\ kind[k] = kind[l]
    BY <1>12
  <2>2. k = l => i = j
    BY <1>1 DEF Advances
  <2> HIDE DEF k, l
  <2>3. k = l
    BY <1>3, <2>1 DEF KindsOf
  <2> QED BY <2>2, <2>3
<1>15. ASSUME NEW i \in 1..Len(tx')
       PROVE  /\ tx'[i] = "device_version" => next[i] = "chain of connected"
              /\ tx'[i] = "change_timing" => next[i] = "chain of pipes"
              /\ tx'[i] = "disconnect" <=> next[i] = "disconnect"
              /\ next[i] = "chain of connected" => link > before /\ ~ Has(AfterConnected)'
              /\ next[i] = "chain of pipes" => link > before /\ ~ Has(AfterPipes)'
  <2> DEFINE k == i + 1
  <2>1. k \in 1..Len(tx) /\ k # 1 /\ next[i] = kind[k] /\ tx'[i] = tx[k]
    BY <1>12
  <2> HIDE DEF k
  <2>2. kind[k] # kind[1]
    BY <1>3, <1>5, <2>1 DEF KindsOf
  <2>3. /\ tx[k] = "device_version" => kind[k] = "chain of connected"
        /\ tx[k] = "change_timing" => kind[k] = "chain of pipes"
        /\ tx[k] = "disconnect" <=> kind[k] = "disconnect"
        /\ kind[k] = "chain of connected" => link > before /\ ~ Has(AfterConnected)
        /\ kind[k] = "chain of pipes" => link > before /\ ~ Has(AfterPipes)
    BY <1>3, <2>1 DEF KindsOf
  <2> QED BY <1>6, <1>8, <2>1, <2>2, <2>3
<1>16. \E k \in [1..Len(tx') -> Kind] :
           /\ \A i, j \in 1..Len(tx') : k[i] = k[j] => i = j
           /\ \A i \in 1..Len(tx') :
                 /\ tx'[i] = "device_version" => k[i] = "chain of connected"
                 /\ tx'[i] = "change_timing" => k[i] = "chain of pipes"
                 /\ tx'[i] = "disconnect" <=> k[i] = "disconnect"
                 /\ k[i] = "chain of connected" => link' > before' /\ ~ Has(AfterConnected)'
                 /\ k[i] = "chain of pipes" => link' > before' /\ ~ Has(AfterPipes)'
  BY <1>1, <1>4, <1>13, <1>14, <1>15
<1> QED BY <1>9, <1>10, <1>11, <1>16 DEF KindsOf

LEMMA ServeKeepsVersion ==
    ASSUME Inv, Serves, tx' \in Seq(Command)
    PROVE  OneVersion'
<1>1. UNCHANGED <<pc, status, link>> /\ Advances /\ Adding
  BY DEF Serves
<1>2. Asked("device_version")' => Asked("device_version")
  BY <1>1 DEF Asked, Advances
<1>3. Told = "device_version" => Asked("device_version")
  BY <1>1 DEF Asked, Advances, Told
<1>4. \A i \in 1..Len(Pending') :
          /\ Pending'[i].type \in AfterConnected =>
                \/ i \in 1..Len(Pending) /\ Pending'[i] = Pending[i]
                \/ /\ i > Len(Pending) /\ Pending'[i].type = "version_rsp"
                   /\ Told = "device_version"
          /\ Pending'[i].type \in {"connected", "pipes", "timing"} =>
                \/ i \in 1..Len(Pending) /\ Pending'[i] = Pending[i]
                \/ Pending'[i].type = "timing" /\ Told = "change_timing"
  BY ServePhases DEF AnswersTo, Woken, AfterConnected
<1>5. Has(AfterConnected)' => Has(AfterConnected) \/ Told = "device_version"
  BY <1>4 DEF Has
<1>6. ASSUME Idle' \/ Asking'
      PROVE  /\ AtMostOne(AfterConnected)'
             /\ \A i, j \in 1..Len(tx') :
                   tx'[i] = "device_version" /\ tx'[j] = "device_version" => i = j
             /\ Has(AfterConnected)' => ~ Asked("device_version")'
  <2>1. /\ AtMostOne(AfterConnected)
        /\ \A i, j \in 1..Len(tx) :
              tx[i] = "device_version" /\ tx[j] = "device_version" => i = j
        /\ Has(AfterConnected) => ~ Asked("device_version")
    BY <1>6, ServePhases DEF Inv, OneVersion
  <2>2. ASSUME NEW i \in 1..Len(Pending'), NEW j \in 1..Len(Pending'),
               Pending'[i].type \in AfterConnected, Pending'[j].type \in AfterConnected
        PROVE  i = j
    <3>1. CASE Told = "device_version"
      <4>1. /\ i > Len(Pending) /\ Pending'[i].type = "version_rsp"
            /\ j > Len(Pending) /\ Pending'[j].type = "version_rsp"
        BY <1>3, <1>4, <2>1, <2>2, <3>1 DEF Has
      <4> QED BY <1>1, <4>1 DEF Adding
    <3>2. CASE Told # "device_version"
      BY <1>4, <2>1, <2>2, <3>2 DEF AtMostOne
    <3> QED BY <3>1, <3>2
  <2>3. ASSUME NEW i \in 1..Len(tx'), NEW j \in 1..Len(tx'),
               tx'[i] = "device_version", tx'[j] = "device_version"
        PROVE  i = j
    <3> DEFINE k == i + 1
               l == j + 1
    <3>1. /\ k \in 1..Len(tx) /\ tx[k] = "device_version"
          /\ l \in 1..Len(tx) /\ tx[l] = "device_version"
      BY <1>1, <2>3 DEF Advances
    <3>2. k = l => i = j
      BY <1>1 DEF Advances
    <3> HIDE DEF k, l
    <3> QED BY <2>1, <3>1, <3>2
  <2>4. Told = "device_version" => ~ Asked("device_version")'
    <3> SUFFICES ASSUME Told = "device_version", NEW i \in 1..Len(tx'), tx'[i] = "device_version"
                 PROVE  FALSE
      BY DEF Asked
    <3> DEFINE k == i + 1
    <3>1. k \in 1..Len(tx) /\ tx[k] = "device_version" /\ k # 1
          /\ 1 \in 1..Len(tx) /\ tx[1] = "device_version"
      BY <1>1 DEF Advances, Told
    <3> HIDE DEF k
    <3> QED BY <2>1, <3>1
  <2> QED BY <1>2, <1>5, <2>1, <2>2, <2>3, <2>4 DEF AtMostOne
<1>7. ASSUME Idle', mode' = "advertising"
      PROVE  ~ Has(AfterConnected)' /\ ~ Asked("device_version")'
  <2>1. Idle /\ mode = "advertising"
    BY <1>7, ServePhases DEF Serves, ModeAfter
  <2>2. ~ Has(AfterConnected) /\ ~ Asked("device_version")
    BY <2>1 DEF Inv, OneVersion
  <2> QED BY <1>2, <1>3, <1>5, <2>2
<1>8. ASSUME NEW c \in 1..Len(tx'), tx'[c] = "connect", c < Len(tx')
      PROVE  Len(tx') = c + 1 /\ ~ Has(AfterConnected)' /\ ~ Asked("device_version")'
  <2> DEFINE k == c + 1
  <2>1. k \in 1..Len(tx) /\ tx[k] = "connect" /\ k < Len(tx)
    BY <1>1, <1>8 DEF Advances
  <2>2. Len(tx) = k + 1 => Len(tx') = c + 1
    BY <1>1 DEF Advances
  <2> HIDE DEF k
  <2>3. Len(tx) = k + 1 /\ ~ Has(AfterConnected) /\ ~ Asked("device_version")
    BY <2>1 DEF Inv, OneVersion
  <2> QED BY <1>2, <1>3, <1>5, <2>2, <2>3
<1>9. Len(tx') = 0 => tx' = <<>>
  <2> DEFINE t == tx'
  <2> HIDE DEF Command
  <2>1. t \in Seq(Command)
    OBVIOUS
  <2> HIDE DEF t
  <2>2. Len(t) = 0 => t = <<>>
    BY <2>1, EmptySeq
  <2> QED BY <2>2 DEF t
<1>10. ASSUME Answered'
       PROVE  /\ Len(tx') <= 1 /\ AtMostOne(AfterPipes)'
              /\ link' = before' => ~ Has({"connected", "pipes"})'
              /\ AtMostOne({"connected"})' /\ AtMostOne({"version_rsp"})'
              /\ Has({"version_rsp"})' => tx' = <<>>
              /\ ~ Has({"timing"})'
  <2>1. CASE Answered
    <3>1. Told = "set_local_data" /\ before' = before
      BY <2>1, ServePhases
    <3>2. /\ Len(tx) <= 1 /\ AtMostOne(AfterPipes)
          /\ link = before => ~ Has({"connected", "pipes"})
          /\ AtMostOne({"connected"}) /\ AtMostOne({"version_rsp"})
          /\ ~ Has({"timing"})
      BY <2>1 DEF Inv, OneVersion
    <3>3. Len(tx') = 0 /\ tx' = <<>>
      BY <1>1, <1>9, <3>2 DEF Advances
    <3>4. \A i \in 1..Len(Pending') :
              Pending'[i].type \in {"connected", "pipes", "timing", "version_rsp"} =>
                  i \in 1..Len(Pending) /\ Pending'[i] = Pending[i]
      BY <1>4, <3>1 DEF AfterConnected
    <3>5. /\ Has({"connected", "pipes"})' => Has({"connected", "pipes"})
          /\ Has({"timing"})' => Has({"timing"})
      BY <3>4 DEF Has
    <3>6. AtMostOne(AfterPipes)' /\ AtMostOne({"connected"})' /\ AtMostOne({"version_rsp"})'
      BY <3>2, <3>4 DEF AtMostOne, AfterPipes
    <3> QED BY <1>1, <3>1, <3>2, <3>3, <3>5, <3>6
  <2>2. CASE Told = "connect" /\ mode = "standby"
    <3>1. Asking /\ ~ Has(Reports)
      BY <2>2, ServePhases
    <3>2. AtMostOne(AfterConnected)
      BY <3>1 DEF Inv, OneVersion
    <3>3. \A i \in 1..Len(Pending') :
              Pending'[i].type \notin {"connected", "pipes", "timing"}
      BY <1>4, <2>2, <3>1 DEF Has, Reports, OfLink
    <3>4. \A i \in 1..Len(Pending') : Pending'[i].type = "version_rsp" =>
              i \in 1..Len(Pending) /\ Pending'[i] = Pending[i]
      BY <1>4, <2>2 DEF AfterConnected
    <3>5. AtMostOne(AfterPipes)' /\ AtMostOne({"connected"})' /\ AtMostOne({"version_rsp"})'
      BY <3>2, <3>3, <3>4 DEF AtMostOne, AfterPipes, AfterConnected
    <3>6. ~ Has({"connected", "pipes"})' /\ ~ Has({"timing"})'
      BY <3>3 DEF Has
    <3>7. 1 < Len(tx) => Len(tx) = 2 /\ ~ Has(AfterConnected)
      <4>1. 1 \in 1..Len(tx) /\ tx[1] = "connect"
        BY <1>1, <2>2 DEF Advances, Told
      <4>2. \A c \in 1..Len(tx) : tx[c] = "connect" /\ c < Len(tx) =>
                Len(tx) = c + 1 /\ ~ Has(AfterConnected)
        BY DEF Inv, OneVersion
      <4>3. 1 < Len(tx) => Len(tx) = 1 + 1 /\ ~ Has(AfterConnected)
        BY <4>1, <4>2
      <4> QED BY <4>3
    <3>8. Len(tx') <= 1 /\ (Len(tx') = 0 \/ ~ Has(AfterConnected))
      BY <1>1, <3>7 DEF Advances
    <3>9. Has({"version_rsp"})' => Has(AfterConnected)
      BY <3>4 DEF Has, AfterConnected
    <3> QED BY <1>9, <3>5, <3>6, <3>8, <3>9
  <2> QED BY <1>10, <2>1, <2>2, ServePhases
<1> QED BY <1>6, <1>7, <1>8, <1>10 DEF OneVersion

LEMMA TransferKeeps ==
    ASSUME Inv, Transfer
    PROVE  Inv'
<1>1. TypeOK'
  BY TypesKept DEF Inv, Next
<1>2. CASE tx = <<>>
  <2>1. Quiet /\ Moves
    BY <1>2, EmptyTransferKeeps
  <2> QED BY <1>1, <2>1, QuietKeeps, MovesKeepMessages DEF Inv
<1>3. CASE tx # <<>>
  <2>1. Serves
    BY <1>3, TransferEffect
  <2>2. tx' \in Seq(Command)
    BY <1>1 DEF TypeOK
  <2> QED BY <1>1, <2>1, <2>2, ServeKeepsControl, ServeKeepsRadio, ServeKeepsNumbers,
             ServeKeepsKinds, ServeKeepsVersion DEF Inv
<1> QED BY <1>2, <1>3

-----------------------------------------------------------------------------
(* The invariant.                                                          *)

LEMMA InitInv ==
    ASSUME QueueSize >= 4, Init
    PROVE  Inv
<1>1. /\ tx = <<"radio_reset", "sleep">> /\ rx = <<>> /\ waiting = <<>> /\ taken = <<>>
      /\ pc = "home" /\ status = "SLEEPING" /\ hasMessage = FALSE /\ mode = "standby"
      /\ link = 0 /\ before = 0 /\ spoken = 0
  BY DEF Init
<1>2. tx \in Seq(Command) /\ Len(tx) = 2 /\ tx[1] = "radio_reset" /\ tx[2] = "sleep"
  BY <1>1 DEF Command
<1>3. TypeOK
  <2>1. <<>> \in Seq(Event) /\ <<>> \in Seq(Message) /\ Len(<<>>) = 0
    BY EmptySeq
  <2>2. Store!TypeOK
    BY <2>1 DEF Init, Store!Init, Store!TypeOK
  <2>3. MaxLinks \in Nat /\ Length \in Nat /\ QueueSize \in Nat
    BY ParametersAssumption DEF Length
  <2>4. link \in 0..MaxLinks /\ before \in 0..MaxLinks /\ spoken \in 0..Length
    BY <1>1, <2>3
  <2>5. Len(tx) <= QueueSize /\ Len(rx) <= QueueSize
    BY <1>1, <1>2, <2>1, <2>3
  <2> HIDE DEF Event, Command, Message
  <2> QED BY <1>1, <1>2, <2>1, <2>2, <2>4, <2>5 DEF Init, TypeOK
<1>4. Pending = <<>> /\ Len(Pending) = 0 /\ Len(taken) = 0
  BY <1>1, EmptySeq DEF Pending
<1>5. /\ \A types : ~ Has(types)
      /\ \A i \in 1..Len(Pending) : FALSE
      /\ \A i \in 1..Len(taken) : FALSE
  BY <1>4 DEF Has
<1>6. /\ ~ Asked("connect") /\ ~ Asked("device_version")
      /\ \A i \in 1..Len(tx) : tx[i] \in {"radio_reset", "sleep"}
  BY <1>2 DEF Asked
<1>7. Idle /\ ~ Heard /\ ~ Answered /\ ~ Asking
  BY <1>1, <1>5 DEF Idle, Heard, Answered, Asking
<1>8. OneConnect /\ StatusInPhase /\ NothingTaken
  BY <1>1, <1>5, <1>6, <1>7 DEF OneConnect, StatusInPhase, NothingTaken
<1>9. LinksInOrder /\ MessagesInOrder /\ NumbersInOrder /\ OneStaleAtMost
  BY <1>1, <1>4, <1>5, <1>7 DEF LinksInOrder, MessagesInOrder, NumbersInOrder, OneStaleAtMost
<1>10. EndIsLast /\ ResetIsAhead /\ OnlyReplies /\ StatusFollows /\ ReportsAreFresh
  BY <1>1, <1>5, <1>6, <1>7
     DEF EndIsLast, ResetIsAhead, OnlyReplies, StatusFollows, ReportsAreFresh
<1>11. CommandsFit /\ OneVersion
  BY <1>1, <1>5, <1>6, <1>7 DEF CommandsFit, OneVersion, AtMostOne
<1> QED BY <1>3, <1>8, <1>9, <1>10, <1>11 DEF Inv

LEMMA NextInv ==
    ASSUME QueueSize >= 4, Inv, [Next]_vars
    PROVE  Inv'
<1>1. CASE Transfer
  BY <1>1, TransferKeeps
<1>2. CASE PhoneConnects \/ PhoneSends \/ PhoneHangsUp
  BY <1>2, PhoneConnectsKeeps, PhoneSendsKeeps, PhoneHangsUpKeeps
<1>3. CASE Wake \/ Advertise
  BY <1>3, WakeKeeps, AdvertiseKeeps
<1>4. CASE SleepDisconnects \/ SleepResets
  BY <1>4, SleepDisconnectsKeeps, SleepResetsKeeps
<1>5. CASE Poll /\ HandleEvent
  BY <1>5, PollKeeps
<1>6. CASE /\ ~ Transfer /\ ~ PhoneConnects /\ ~ PhoneSends /\ ~ PhoneHangsUp
           /\ ~ Wake /\ ~ Advertise /\ ~ SleepDisconnects /\ ~ SleepResets
           /\ ~ (Poll /\ HandleEvent)
  <2>1. Quiet /\ (Moves \/ Takes)
    BY <1>6, QuietSteps
  <2>2. TypeOK'
    BY TypesKept DEF Inv
  <2>3. /\ OneConnect' /\ StatusInPhase' /\ EndIsLast' /\ ResetIsAhead' /\ OnlyReplies'
        /\ StatusFollows' /\ CommandsFit' /\ OneVersion'
    BY <2>1, QuietKeeps
  <2>4. LinksInOrder' /\ NothingTaken' /\ MessagesInOrder' /\ NumbersInOrder'
        /\ ReportsAreFresh' /\ OneStaleAtMost'
    BY <2>1, MovesKeepMessages, TakesKeepMessages
  <2> QED BY <2>2, <2>3, <2>4 DEF Inv
<1> QED BY <1>1, <1>2, <1>3, <1>4, <1>5, <1>6

LEMMA InvHolds ==
    ASSUME QueueSize >= 4
    PROVE  Spec => []Inv
<1>1. Init => Inv
  BY InitInv
<1>2. Inv /\ [Next]_vars => Inv'
  BY NextInv
<1> QED BY <1>1, <1>2, PTL DEF Spec

-----------------------------------------------------------------------------
(* A session keeps to what AciLink provides.                               *)

LEMMA AddedBehind ==
    ASSUME NEW S, NEW s \in Seq(S), NEW t \in Seq(S)
    PROVE  Link!Extends(s \o t, s)
<1>1. /\ Len(s \o t) = Len(s) + Len(t) /\ Len(s) \in Nat /\ Len(t) \in Nat
      /\ \A i \in 1..Len(s) + Len(t) :
            (s \o t)[i] = IF i <= Len(s) THEN s[i] ELSE t[i - Len(s)]
  BY ConcatProperties, LenProperties
<1> DEFINE all == s \o t
<1>2. Len(s) <= Len(all) /\ \A i \in 1..Len(s) : all[i] = s[i]
  BY <1>1
<1> QED BY <1>2, Zenon DEF Link!Extends

LEMMA Queued ==
    ASSUME TypeOK, TypeOK',
           \/ tx' = tx
           \/ \E c \in Command : Send(<<c>>)
           \/ \E c, d \in Command : Send(<<c, d>>)
    PROVE  Link!QueuesCommands
<1>1. tx' \in Seq(Command) /\ Len(tx') <= QueueSize
  BY DEF TypeOK
<1> HIDE DEF Command
<1>2. Link!Extends(tx', tx)
  <2>1. CASE tx' = tx
    <3>1. Len(tx) \in Nat
      BY Types
    <3> QED BY <2>1, <3>1 DEF Link!Extends
  <2>2. ASSUME NEW new, Extends(new) PROVE Link!Extends(tx', tx)
    BY <2>2, Types DEF Extends, Link!Extends
  <2> QED BY <2>1, <2>2, SendExtends, SendTwoExtends
<1> QED BY <1>1, <1>2, Zenon DEF Link!QueuesCommands

LEMMA TransferIsLinks ==
    ASSUME TypeOK, Transfer
    PROVE  Link!Transfer
<1> DEFINE events == IF tx = <<>> THEN <<>> ELSE Report(Answer(Head(tx)))
<1>1. tx \in Seq(Command) /\ rx \in Seq(Event) /\ waiting \in Seq(Event)
  BY DEF TypeOK
<1>2. events \in Seq(Event)
  BY <1>1, AnswersAreEvents
<1>3. /\ Len(rx) < QueueSize /\ tx' = Rest(tx)
      /\ rx' = IF waiting = <<>> THEN rx ELSE Append(rx, Head(waiting))
      /\ waiting' = Rest(waiting) \o events
  BY DEF Transfer, CanTransfer
<1> HIDE DEF events, Event, Command
<1>4. Rest(tx) = Link!Rest(tx) /\ Rest(waiting) = Link!Rest(waiting)
  BY Zenon DEF Rest, Link!Rest
<1>5. rx' = rx \o Link!Oldest(waiting)
  <2>1. CASE waiting = <<>>
    <3>1. rx \o <<>> = rx
      BY <1>1, ConcatEmptySeq
    <3> QED BY <1>3, <2>1, <3>1, Zenon DEF Link!Oldest
  <2>2. CASE waiting # <<>>
    <3> DEFINE e == Head(waiting)
    <3>1. e \in Event
      BY <1>1, <2>2
    <3> HIDE DEF e
    <3>2. Append(rx, e) = rx \o <<e>>
      BY <1>1, <3>1
    <3> QED BY <1>3, <2>2, <3>2, Zenon DEF Link!Oldest, e
  <2> QED BY <2>1, <2>2
<1>6. Rest(waiting) \in Seq(Event)
  <2>1. waiting # <<>> => Tail(waiting) \in Seq(Event)
    BY <1>1
  <2> QED BY <1>1, <2>1, Zenon DEF Rest
<1>7. waiting' \in Seq(Event) /\ Link!Extends(waiting', Rest(waiting))
  BY <1>2, <1>3, <1>6, AddedBehind, ConcatProperties
<1> QED BY <1>3, <1>4, <1>5, <1>7, Zenon DEF Link!Transfer, Link!HasEvents

LEMMA PhoneIsReport ==
    ASSUME TypeOK, TypeOK', PhoneConnects \/ PhoneSends \/ PhoneHangsUp
    PROVE  Link!Report
<1>1. waiting \in Seq(Event) /\ waiting' \in Seq(Event)
  BY DEF TypeOK
<1>2. UNCHANGED <<tx, rx>>
  BY DEF PhoneConnects, PhoneSends, PhoneHangsUp
<1>3. /\ Len(waiting') >= Len(waiting)
      /\ \A i \in 1..Len(waiting) : waiting'[i] = waiting[i]
  <2>1. CASE PhoneConnects
    <3> DEFINE connected == [type |-> "connected", link |-> link + 1, number |-> 0]
               pipes == [type |-> "pipes", link |-> link + 1, number |-> 0]
    <3>1. waiting' = waiting \o <<connected, pipes>>
      BY <2>1 DEF PhoneConnects
    <3> HIDE DEF connected, pipes, Event
    <3> QED BY <1>1, <3>1
  <2>2. CASE PhoneSends
    <3> DEFINE e == [type |-> "data", link |-> link, number |-> spoken + 1]
    <3>1. waiting' = Append(waiting, e)
      BY <2>2 DEF PhoneSends
    <3> HIDE DEF e, Event
    <3> QED BY <1>1, <3>1
  <2>3. CASE PhoneHangsUp
    <3> DEFINE e == [type |-> "disconnected", link |-> link, number |-> 0]
    <3>1. waiting' = waiting \o <<e>>
      BY <2>3 DEF PhoneHangsUp, Report
    <3> HIDE DEF e, Event
    <3> QED BY <1>1, <3>1
  <2> QED BY <2>1, <2>2, <2>3
<1>4. Link!Extends(waiting', waiting)
  BY <1>3 DEF Link!Extends
<1> QED BY <1>1, <1>2, <1>4, Zenon DEF Link!Report, Link!HasEvents

LEMMA NextIsLinks ==
    ASSUME QueueSize >= 4, Inv, Inv', [Next]_vars
    PROVE  [Link!Next]_(Link!vars)
<1> USE DEF Link!Next
<1>1. TypeOK /\ TypeOK'
  BY DEF Inv
<1>2. CASE Transfer
  BY <1>1, <1>2, TransferIsLinks
<1>3. CASE PhoneConnects \/ PhoneSends \/ PhoneHangsUp
  BY <1>1, <1>3, PhoneIsReport
<1>4. CASE Wake \/ Advertise \/ SleepDisconnects \/ SleepResets
  <2>1. {"wakeup", "connect", "disconnect", "radio_reset", "sleep"} \subseteq Command
    BY DEF Command
  <2>2. \/ Send(<<"wakeup">>) \/ Send(<<"connect">>) \/ Send(<<"disconnect">>)
        \/ Send(<<"radio_reset", "sleep">>)
    BY <1>4 DEF Wake, Advertise, SleepDisconnects, SleepResets
  <2> HIDE DEF Command
  <2>3. Link!QueuesCommands
    BY <1>1, <2>1, <2>2, Queued
  <2>4. UNCHANGED <<rx, waiting>>
    BY <1>4 DEF Wake, Advertise, SleepDisconnects, SleepResets, radio
  <2> QED BY <2>3, <2>4 DEF Link!Send
<1>5. CASE Poll /\ HandleEvent
  <2> DEFINE e == Head(rx)
  <2>1. rx # <<>> /\ rx' = Tail(rx) /\ waiting' = waiting /\ Send(Reply(e))
    BY <1>5 DEF Poll, HandleEvent, radio
  <2>2. e \in Event
    BY <1>1, <2>1 DEF TypeOK
  <2> HIDE DEF e, Event
  <2>3. Replies \subseteq Command
    BY DEF Replies, Command
  <2>4. Reply(e) = <<>> \/ \E c \in Command : Reply(e) = <<c>>
    BY <2>2, <2>3, ReplyIsCommands
  <2>5. tx' = tx \/ \E c \in Command : Send(<<c>>)
    BY <1>1, <2>1, <2>4, SendsNone
  <2>6. Link!QueuesCommands
    BY <1>1, <2>5, Queued
  <2> QED BY <2>1, <2>6, Zenon DEF Link!Take
<1>6. CASE /\ ~ Transfer /\ ~ PhoneConnects /\ ~ PhoneSends /\ ~ PhoneHangsUp
           /\ ~ Wake /\ ~ Advertise /\ ~ SleepDisconnects /\ ~ SleepResets
           /\ ~ (Poll /\ HandleEvent)
  <2>1. UNCHANGED <<tx, rx, waiting>>
    <3>1. CASE PressBlue \/ UNCHANGED vars
      BY <3>1 DEF PressBlue, vars, radio
    <3>2. CASE StartReceiving \/ KeepWaiting \/ Succeed \/ Dismiss \/ Quit \/ LinkLost
               \/ TakeMessage
      BY <3>2 DEF StartReceiving, KeepWaiting, Succeed, Dismiss, Quit, LinkLost, TakeMessage,
                  radio
    <3>3. CASE Poll
      BY <1>6, <3>3 DEF Poll, NoEvent, radio
    <3> QED BY <1>6, <3>1, <3>2, <3>3 DEF Next, Program
  <2> QED BY <2>1 DEF Link!vars
<1> QED BY <1>2, <1>3, <1>4, <1>5, <1>6

-----------------------------------------------------------------------------
(* What a session stores.                                                  *)

(* What the writer has is what it was given: the count, then coordinates.  *)
Writing ==
    /\ pc \in {"home", "wake", "advertise", "sleep", "hangup", "result"} => expected = NoCount
    /\ pc \in {"receive", "received"} /\ expected = NoCount => taken = <<>>
    /\ expected # NoCount =>
          /\ taken # <<>> /\ expected = CountOf(taken[1])
          /\ Len(incoming) = Len(taken) - 1
          /\ \A i \in 1..Len(incoming) : incoming[i] = taken[i + 1]

(* A session that begins with its own phone's count has its messages from  *)
(* the first on.                                                           *)
FromTheFirst ==
    taken # <<>> /\ taken[1].link > before =>
        \A i \in 1..Len(taken) : taken[i] = [link |-> before + 1, number |-> i]

LEMMA CountIsNatural ==
    ASSUME NEW m \in Message
    PROVE  CountOf(m) \in Nat /\ CountOf(m) # NoCount
<1> DEFINE n == m.number
<1>1. n \in 1..1 + 2 * Points /\ Points \in Nat
  BY ParametersAssumption DEF Message, Length
<1>2. CountOf(m) = IF n = 1 THEN Points ELSE CoordinateCount[n]
  BY DEF CountOf
<1> HIDE DEF n
<1>3. n # 1 => CoordinateCount[n] \in 0..255
  <2>1. n # 1 => n \in 2..1 + 2 * Points
    BY <1>1
  <2> QED BY <2>1, ParametersAssumption
<1>4. CountOf(m) \in Nat
  BY <1>1, <1>2, <1>3
<1> QED BY <1>4, ParametersAssumption

LEMMA TakeMessageWrites ==
    ASSUME Inv, Writing, TakeMessage
    PROVE  Writing'
<1> DEFINE m == buffer
<1>1. m \in Message /\ taken' = Append(taken, m) /\ pc = "received"
  BY DEF TakeMessage, Inv, LinksInOrder
<1>2. taken \in Seq(Message) /\ Store!TypeOK
  BY DEF Inv, TypeOK
<1>3. WriteCount(m) \/ WriteCoordinate(m)
  BY DEF TakeMessage
<1> HIDE DEF m, Message
<1>4. /\ taken' \in Seq(Message) /\ taken' # <<>> /\ Len(taken') = Len(taken) + 1
      /\ taken'[Len(taken) + 1] = m /\ Len(taken) \in Nat
      /\ \A i \in 1..Len(taken) : taken'[i] = taken[i]
  BY <1>1, <1>2
<1>5. CASE WriteCount(m)
  <2>1. expected = NoCount /\ taken = <<>> /\ Len(taken) = 0
    BY <1>1, <1>5, EmptySeq DEF WriteCount, Writing
  <2>2. CASE CountOf(m) > MaxWaypoints
    BY <1>5, <2>1, <2>2 DEF WriteCount, EndFailed, Writing, storage
  <2>3. CASE ~ (CountOf(m) > MaxWaypoints)
    <3>1. expected' = CountOf(m) /\ incoming' = <<>> /\ pc' \in {"commit", "receive"}
      BY <1>5, <2>3 DEF WriteCount, Store!Begin
    <3>2. taken'[1] = m /\ expected' # NoCount /\ Len(incoming') = 0 /\ Len(taken') - 1 = 0
      BY <1>1, <1>4, <2>1, <3>1, CountIsNatural, EmptySeq
    <3>3. \A i \in 1..Len(incoming') : incoming'[i] = taken'[i + 1]
      BY <3>2
    <3> QED BY <1>4, <3>1, <3>2, <3>3 DEF Writing
  <2> QED BY <2>2, <2>3
<1>6. CASE WriteCoordinate(m)
  <2>1. /\ expected # NoCount /\ expected' = expected /\ incoming' = Append(incoming, m)
        /\ pc' \in {"commit", "receive"}
    BY <1>6 DEF WriteCoordinate, Store!Receive
  <2>2. /\ taken # <<>> /\ expected = CountOf(taken[1]) /\ Len(incoming) = Len(taken) - 1
        /\ \A i \in 1..Len(incoming) : incoming[i] = taken[i + 1]
    BY <2>1 DEF Writing
  <2>3. incoming \in Seq(Message) /\ Len(incoming) \in Nat
    BY <1>2 DEF Store!TypeOK
  <2>4. /\ Len(incoming') = Len(incoming) + 1 /\ incoming'[Len(incoming) + 1] = m
        /\ \A i \in 1..Len(incoming) : incoming'[i] = incoming[i]
    BY <1>1, <2>1, <2>3
  <2>5. taken'[1] = taken[1]
    BY <1>4, <2>2, <2>3
  <2>6. Len(incoming') = Len(taken') - 1
    BY <1>4, <2>2, <2>4
  <2>7. ASSUME NEW i \in 1..Len(incoming') PROVE incoming'[i] = taken'[i + 1]
    <3>1. CASE i <= Len(incoming)
      <4>1. i \in 1..Len(incoming) /\ i + 1 \in 1..Len(taken)
        BY <1>4, <2>2, <2>3, <3>1
      <4> QED BY <1>4, <2>2, <2>4, <4>1
    <3>2. CASE i = Len(incoming) + 1
      <4>1. i + 1 = Len(taken) + 1
        BY <1>4, <2>2, <2>3, <3>2
      <4> QED BY <1>4, <2>4, <3>2, <4>1
    <3> QED BY <2>3, <2>4, <3>1, <3>2
  <2> QED BY <1>4, <2>1, <2>2, <2>5, <2>6, <2>7 DEF Writing
<1> QED BY <1>3, <1>5, <1>6

LEMMA WritingKept ==
    ASSUME Inv, Writing, [Next]_vars
    PROVE  Writing'
<1>1. CASE TakeMessage
  BY <1>1, TakeMessageWrites
<1>2. CASE Transfer \/ PhoneConnects \/ PhoneSends \/ PhoneHangsUp \/ PressBlue \/ UNCHANGED vars
  <2>1. UNCHANGED <<pc, taken, expected, incoming>>
    BY <1>2 DEF Transfer, PhoneConnects, PhoneSends, PhoneHangsUp, PressBlue, vars, storage
  <2> QED BY <2>1 DEF Writing, CountOf
<1>3. CASE Wake
  BY <1>3 DEF Wake, Writing, storage
<1>4. CASE Advertise \/ Dismiss \/ SleepDisconnects \/ SleepResets \/ KeepWaiting \/ Poll
  <2>1. /\ UNCHANGED <<taken, expected, incoming>>
        /\ \/ pc' = pc
           \/ pc = "wake" /\ pc' = "advertise"
           \/ pc = "result" /\ pc' = "home"
           \/ pc \in {"sleep", "hangup"} /\ pc' \in {"hangup", "result"}
           \/ pc \in {"receive", "received"} /\ pc' \in {"receive", "received"}
    BY <1>4 DEF Advertise, Dismiss, SleepDisconnects, SleepResets, KeepWaiting, Poll, storage
  <2> QED BY <2>1 DEF Writing, CountOf
<1>5. CASE StartReceiving
  BY <1>5 DEF StartReceiving, Writing, Inv, NothingTaken, storage
<1>6. CASE Quit \/ LinkLost \/ Succeed
  <2>1. expected' = NoCount /\ pc' = "sleep"
    BY <1>6 DEF Quit, LinkLost, Succeed, EndFailed, Store!Abandon, Store!Commit, storage
  <2> QED BY <2>1 DEF Writing
<1> QED BY <1>1, <1>2, <1>3, <1>4, <1>5, <1>6 DEF Next, Program

LEMMA FromTheFirstKept ==
    ASSUME Inv, Inv', FromTheFirst, [Next]_vars
    PROVE  FromTheFirst'
<1>1. /\ taken \in Seq(Message) /\ taken' \in Seq(Message) /\ before' \in Nat
      /\ MaxLinks \in Nat /\ Length \in Nat
  BY ParametersAssumption DEF Inv, TypeOK, Length
<1> HIDE DEF Message
<1>2. CASE TakeMessage
  <2> DEFINE m == buffer
             n == Len(taken) + 1
  <2>1. taken' = Append(taken, m) /\ before' = before /\ m \in Message
    BY <1>2 DEF TakeMessage, Inv, LinksInOrder
  <2> HIDE DEF m
  <2>2. /\ Len(taken') = n /\ taken'[n] = m /\ Len(taken) \in Nat
        /\ \A i \in 1..Len(taken) : taken'[i] = taken[i]
    BY <1>1, <2>1
  <2>3. SUFFICES ASSUME taken'[1].link > before
                 PROVE  \A i \in 1..n : taken'[i] = [link |-> before + 1, number |-> i]
    BY <2>1, <2>2 DEF FromTheFirst
  <2>4. m.link \in 1..MaxLinks /\ m.number \in 1..Length
    BY <2>1 DEF Message
  <2>5. \A i \in 1..Len(taken) : taken[i] = [link |-> before + 1, number |-> i]
    <3>1. CASE taken = <<>>
      BY <3>1
    <3>2. CASE taken # <<>>
      <4>1. taken'[1] = taken[1]
        BY <1>1, <2>2, <3>2
      <4> QED BY <2>3, <3>2, <4>1 DEF FromTheFirst
    <3> QED BY <3>1, <3>2
  <2>6. m.link > before
    <3>1. CASE n = 1
      BY <2>2, <2>3, <3>1
    <3>2. CASE n # 1
      <4>1. n \in 2..Len(taken')
        BY <2>2, <3>2
      <4> QED BY <2>1, <2>2, <4>1 DEF Inv, OneStaleAtMost
    <3> QED BY <3>1, <3>2
  <2>7. /\ m.link = before + 1
        /\ IF m.number = 1
           THEN \A j \in 1..n - 1 : taken'[j].link <= before
           ELSE n > 1 /\ taken'[n - 1] = [link |-> before + 1, number |-> m.number - 1]
    <3>1. n \in 1..Len(taken')
      BY <2>2
    <3> HIDE DEF n
    <3>2. /\ taken'[n].link = before' + 1
          /\ IF taken'[n].number = 1
             THEN \A j \in 1..n - 1 : taken'[j].link <= before'
             ELSE n > 1 /\ taken'[n - 1] = [link |-> before' + 1, number |-> taken'[n].number - 1]
      BY <2>1, <2>2, <2>6, <3>1 DEF Inv, MessagesInOrder
    <3> QED BY <2>1, <2>2, <3>2
  <2>8. m.number = n
    <3>1. CASE n = 1
      BY <2>7, <3>1
    <3>2. CASE n # 1
      <4>1. 1 \in 1..n - 1 /\ n - 1 \in 1..Len(taken) /\ before \in Nat
        BY <1>1, <2>1, <2>2, <3>2
      <4>2. m.number # 1
        <5>1. ~ (taken'[1].link <= before)
          <6> DEFINE l == taken'[1].link
          <6>1. l \in 1..MaxLinks /\ l > before
            <7>1. taken'[1] \in Message
              BY <1>1, <2>2
            <7> QED BY <2>3, <7>1 DEF Message
          <6> HIDE DEF l
          <6>2. ~ (l <= before)
            BY <1>1, <4>1, <6>1
          <6> QED BY <6>2 DEF l
        <5> QED BY <2>7, <4>1, <5>1
      <4>3. taken'[n - 1] = [link |-> before + 1, number |-> n - 1]
        BY <2>2, <2>5, <4>1
      <4>4. m.number - 1 = n - 1
        BY <2>7, <4>2, <4>3
      <4> QED BY <2>2, <2>4, <4>4, <1>1
    <3> QED BY <3>1, <3>2
  <2>9. m = [link |-> before + 1, number |-> n]
    BY <2>1, <2>7, <2>8 DEF Message
  <2>10. ASSUME NEW i \in 1..n PROVE taken'[i] = [link |-> before + 1, number |-> i]
    <3>1. CASE i = n
      BY <2>2, <2>9, <3>1
    <3>2. CASE i # n
      <4>1. i \in 1..Len(taken)
        BY <2>2, <3>2
      <4> QED BY <2>2, <2>5, <4>1
    <3> QED BY <3>1, <3>2
  <2> QED BY <2>10
<1>3. CASE Wake
  BY <1>3 DEF Wake, FromTheFirst
<1>4. CASE Transfer
  <2>1. taken' = taken
    BY <1>4 DEF Transfer
  <2>2. CASE before' = before
    BY <2>1, <2>2 DEF FromTheFirst
  <2>3. CASE before' # before
    <3>1. tx # <<>> /\ Head(tx) = "connect"
      BY <1>4, <2>3 DEF Transfer
    <3>2. Len(tx) \in Nat \ {0} /\ Head(tx) = tx[1]
      <4>1. tx \in Seq(Command)
        BY DEF Inv, TypeOK
      <4> QED BY <3>1, <4>1
    <3>3. Asked("connect")
      BY <3>1, <3>2 DEF Asked
    <3>4. taken = <<>>
      BY <3>3 DEF Inv, OneConnect, NothingTaken
    <3> QED BY <2>1, <3>4 DEF FromTheFirst
  <2> QED BY <2>2, <2>3
<1>5. CASE /\ ~ TakeMessage /\ ~ Wake /\ ~ Transfer
  <2>1. UNCHANGED <<taken, before>>
    BY <1>5 DEF Next, Program, Advertise, Dismiss, SleepDisconnects, SleepResets, KeepWaiting,
                Poll, StartReceiving, Quit, LinkLost, Succeed, PhoneConnects, PhoneSends,
                PhoneHangsUp, PressBlue, vars
  <2> QED BY <2>1 DEF FromTheFirst
<1> QED BY <1>2, <1>3, <1>4, <1>5

LEMMA SucceedStores ==
    ASSUME Inv, Writing, FromTheFirst, Succeed, taken[1].link > before
    PROVE  path' = PathOf(before + 1)
<1>1. /\ expected # NoCount /\ Len(incoming) = 2 * expected
      /\ path' = [i \in 1..expected |-> <<incoming[2 * i - 1], incoming[2 * i]>>]
  BY DEF Succeed, Store!Commit
<1>2. /\ taken # <<>> /\ expected = CountOf(taken[1])
      /\ \A i \in 1..Len(incoming) : incoming[i] = taken[i + 1]
      /\ Len(incoming) = Len(taken) - 1
  BY <1>1 DEF Writing
<1>3. \A i \in 1..Len(taken) : taken[i] = [link |-> before + 1, number |-> i]
  BY <1>2 DEF FromTheFirst
<1>4. Len(taken) \in Nat \ {0} /\ Points \in Nat
  BY <1>2, ParametersAssumption DEF Inv, TypeOK
<1>5. expected = Points
  <2>1. 1 \in 1..Len(taken)
    BY <1>4
  <2>2. taken[1] = [link |-> before + 1, number |-> 1]
    BY <1>3, <2>1
  <2>3. taken[1].number = 1
    BY <2>2
  <2> QED BY <1>2, <2>3 DEF CountOf
<1>6. ASSUME NEW i \in 1..Points
      PROVE  /\ incoming[2 * i - 1] = [link |-> before + 1, number |-> 2 * i]
             /\ incoming[2 * i] = [link |-> before + 1, number |-> 2 * i + 1]
  <2> DEFINE a == 2 * i - 1
             b == 2 * i
  <2>1. /\ a \in 1..Len(incoming) /\ b \in 1..Len(incoming)
        /\ a + 1 \in 1..Len(taken) /\ b + 1 \in 1..Len(taken)
        /\ a + 1 = 2 * i /\ b + 1 = 2 * i + 1
    BY <1>1, <1>2, <1>4, <1>5
  <2> HIDE DEF a, b
  <2>2. incoming[a] = taken[a + 1] /\ incoming[b] = taken[b + 1]
    BY <1>2, <2>1
  <2>3. /\ taken[a + 1] = [link |-> before + 1, number |-> a + 1]
        /\ taken[b + 1] = [link |-> before + 1, number |-> b + 1]
    BY <1>3, <2>1
  <2> QED BY <2>1, <2>2, <2>3 DEF a, b
<1> QED BY <1>1, <1>5, <1>6 DEF PathOf

-----------------------------------------------------------------------------
(* How much is on its way while no phone was early. A reset is dropped, or *)
(* never taken, if there is too much of it when a session ends.            *)

(* One if an event of these types is among the first n.                    *)
Some(types, n) == IF \E i \in 1..n : Pending[i].type \in types THEN 1 ELSE 0

(* Only a connected radio is asked to disconnect.                          *)
HangupStatus == pc = "hangup" => status \in {"CONNECTED", "STANDBY"}

(* A phone that has connected is early until its connection is read, and   *)
(* with a command queued from before no transfer has brought that nearer.  *)
Introduced ==
    link > before /\ (Answered \/ (Heard /\ status = "ADVERTISING")) =>
        /\ mode = "connected"
        /\ ~ Has({"version_rsp"})
        /\ \E i, j \in 1..Len(Pending) :
              i < j /\ Pending[i].type = "connected" /\ Pending[j].type = "pipes"
        /\ Len(tx) <= 1
        /\ \A i \in 1..Len(rx) : Pending[i].type = "connected" => Len(tx) = 0

(* What is left over once the answer to connect has been read: a command   *)
(* or an event from before, and the two events of a new connection.        *)
BehindAnswer ==
    \A i \in 1..Len(Pending) : Pending[i].type = "connect_rsp" =>
        Len(Pending) - i + Len(tx) + Some({"version_rsp"}, Len(Pending))
            <= IF link = before THEN 1 ELSE 3

Advertised ==
    Heard /\ status = "ADVERTISING" =>
        Len(Pending) + Len(tx) <= IF link = before THEN 1 ELSE 3

(* After that there is what the two chains of a connection and the command *)
(* to disconnect need.                                                     *)
Most == IF pc = "hangup" THEN 3 ELSE 2

InConnection ==
    Heard /\ status = "CONNECTED" /\ mode = "connected" =>
        Len(tx) + Some(AfterConnected, Len(Pending)) + Some(AfterPipes, Len(Pending)) <= Most

(* Of which the end of the connection leaves what is behind it, what is    *)
(* queued, and what events ahead of it make the program queue. With it a   *)
(* transfer has taken a command.                                           *)
Ending ==
    Heard => \A i \in 1..Len(Pending) : Pending[i].type = "disconnected" =>
        /\ Len(Pending) - i + Len(tx) + Some(AfterConnected, i - 1) + Some(AfterPipes, i - 1)
              <= Most
        /\ pc # "hangup" => i <= 2
        /\ i <= Len(rx) =>
              Len(tx) + Some(AfterConnected, i - 1) + Some(AfterPipes, i - 1) <= Most - 1

Ended ==
    Heard /\ status = "STANDBY" => Len(tx) <= 2 /\ Len(Pending) + Len(tx) <= Most

(* Outside a session each transfer takes a command and brings at most one  *)
(* event, so the commands are all taken if there is room for as many       *)
(* events, or for one less when at first there is none to bring.           *)
Fits ==
    \/ Len(rx) + Len(tx) <= QueueSize
    \/ /\ Len(Pending) = Len(rx) /\ Len(tx) >= 2 /\ Len(rx) + Len(tx) <= QueueSize + 1
       /\ mode \in {"standby", "asleep"} \/ Len(rx) >= 2

GoesToSleep ==
    \/ mode = "asleep"
    \/ Len(tx) = 1 /\ tx[1] = "sleep" /\ mode = "standby"
    \/ Len(tx) >= 2 /\ tx[Len(tx)] = "sleep" /\ tx[Len(tx) - 1] = "radio_reset"

AtRest == pc \in {"result", "home"} => Fits /\ GoesToSleep /\ ~ Asked("wakeup")

Counted ==
    /\ HangupStatus /\ Introduced /\ BehindAnswer /\ Advertised
    /\ InConnection /\ Ending /\ Ended /\ AtRest

FewOnTheWay == ~ early => Counted

LEMMA ReadIsPending ==
    ASSUME TypeOK
    PROVE  Len(rx) \in Nat /\ Len(rx) <= Len(Pending)
<1>1. rx \in Seq(Event) /\ waiting \in Seq(Event)
  BY DEF TypeOK
<1> HIDE DEF Event
<1>2. Len(Pending) = Len(rx) + Len(waiting)
  BY <1>1 DEF Pending
<1> QED BY <1>1, <1>2

LEMMA SomeCounts ==
    ASSUME NEW types, NEW n
    PROVE  /\ Some(types, n) \in {0, 1}
           /\ n = Len(Pending) => (Some(types, n) = 1 <=> Has(types))
  BY DEF Some, Has

(* At the second place at the latest there is one event ahead at most.     *)
LEMMA OneAhead ==
    ASSUME NEW i \in Nat
    PROVE  /\ Some(AfterConnected, i - 1) + Some(AfterPipes, i - 1) \in 0..2
           /\ i <= 2 => Some(AfterConnected, i - 1) + Some(AfterPipes, i - 1) <= 1
<1>1. Some(AfterConnected, i - 1) \in {0, 1} /\ Some(AfterPipes, i - 1) \in {0, 1}
  BY SomeCounts
<1>2. ASSUME i <= 2, Some(AfterConnected, i - 1) = 1 PROVE Some(AfterPipes, i - 1) = 0
  <2>1. \A j \in 1..i - 1 : j = 1
    BY <1>2
  <2>2. Pending[1].type \in AfterConnected
    BY <1>2, <2>1 DEF Some
  <2>3. Pending[1].type \notin AfterPipes
    BY <2>2 DEF AfterConnected, AfterPipes
  <2> QED BY <2>1, <2>3 DEF Some
<1> QED BY <1>1, <1>2

(* What the steps do to the numbers of packets: first those that leave the *)
(* queues as they are ...                                                  *)
LEMMA QuietCounts ==
    ASSUME [Next]_vars, ~ Transfer, ~ PhoneConnects, ~ PhoneSends, ~ PhoneHangsUp,
           ~ (Poll /\ HandleEvent), ~ Wake, ~ Advertise, ~ SleepDisconnects, ~ SleepResets
    PROVE  UNCHANGED <<rx, early>>
<1>1. CASE PressBlue \/ UNCHANGED vars
  BY <1>1 DEF PressBlue, vars, phone
<1>2. CASE StartReceiving \/ KeepWaiting \/ Succeed \/ Dismiss
  BY <1>2 DEF StartReceiving, KeepWaiting, Succeed, Dismiss, phone
<1>3. CASE Quit \/ LinkLost \/ TakeMessage
  BY <1>3 DEF Quit, LinkLost, TakeMessage, phone
<1>4. CASE Poll
  BY <1>4 DEF Poll, NoEvent, phone
<1> QED BY <1>1, <1>2, <1>3, <1>4 DEF Next, Program

LEMMA QuietKeepsCounts ==
    ASSUME Inv, Inv', Counted, Quiet, Moves \/ Takes,
           rx' = rx \/ tx = <<>>
    PROVE  Counted'
<1>1. /\ (Heard' <=> Heard) /\ (Answered' <=> Answered)
      /\ UNCHANGED <<tx, Pending, mode, link, before, status>>
      /\ pc' = "hangup" <=> pc = "hangup"
      /\ pc' \in {"result", "home"} <=> pc \in {"result", "home"}
  <2>1. (Heard' <=> Heard) /\ (Answered' <=> Answered)
    BY QuietKeeps
  <2>2. /\ pc' = "hangup" <=> pc = "hangup"
        /\ pc' \in {"result", "home"} <=> pc \in {"result", "home"}
    BY DEF Moves, Takes
  <2> QED BY <2>1, <2>2 DEF Quiet, Moves, Takes
<1>2. Most' = Most /\ \A types, n : Some(types, n)' = Some(types, n)
  BY <1>1 DEF Most, Some
<1>3. rx' # rx => Len(tx) = 0
  BY EmptySeq
<1>4. /\ HangupStatus' /\ BehindAnswer' /\ Advertised' /\ InConnection' /\ Ended'
  BY <1>1, <1>2 DEF Counted, HangupStatus, BehindAnswer, Advertised, InConnection, Ended
<1>5. Introduced'
  <2>1. \A types : Has(types)' <=> Has(types)
    BY <1>1 DEF Has
  <2> QED BY <1>1, <1>3, <2>1 DEF Counted, Introduced
<1>6. Ending'
  <2> SUFFICES ASSUME Heard, NEW i \in 1..Len(Pending), Pending[i].type = "disconnected",
                      rx' # rx
               PROVE  Len(tx) + Some(AfterConnected, i - 1) + Some(AfterPipes, i - 1)
                          <= Most - 1
    BY <1>1, <1>2 DEF Counted, Ending
  <2>1. i \in Nat /\ Len(tx) = 0 /\ (pc # "hangup" => i <= 2)
    BY <1>3 DEF Counted, Ending
  <2> DEFINE a == Some(AfterConnected, i - 1) + Some(AfterPipes, i - 1)
  <2>2. a \in 0..2 /\ (i <= 2 => a <= 1)
    BY <2>1, OneAhead
  <2>3. Some(AfterConnected, i - 1) \in {0, 1} /\ Some(AfterPipes, i - 1) \in {0, 1}
    BY SomeCounts
  <2> HIDE DEF a
  <2>4. a <= Most - 1
    BY <2>1, <2>2 DEF Most
  <2> QED BY <2>1, <2>3, <2>4 DEF a
<1>7. AtRest'
  <2> SUFFICES ASSUME pc \in {"result", "home"}
               PROVE  Fits' /\ GoesToSleep' /\ ~ Asked("wakeup")'
    BY <1>1 DEF AtRest
  <2>1. Fits /\ GoesToSleep /\ ~ Asked("wakeup")
    BY DEF Counted, AtRest
  <2>2. GoesToSleep' /\ ~ Asked("wakeup")'
    BY <1>1, <2>1 DEF GoesToSleep, Asked
  <2>3. CASE rx' = rx
    BY <1>1, <2>1, <2>2, <2>3 DEF Fits
  <2>4. CASE rx' # rx
    <3>1. rx' \in Seq(Event) /\ Len(rx') <= QueueSize /\ Len(tx') = 0 /\ Len(rx') \in Nat
      BY <1>1, <1>3, <2>4 DEF Inv, TypeOK
    <3>2. Len(rx') + Len(tx') <= QueueSize
      BY <3>1, Types DEF Inv
    <3> QED BY <2>2, <3>2 DEF Fits
  <2> QED BY <2>3, <2>4
<1> QED BY <1>4, <1>5, <1>6, <1>7 DEF Counted

(* ... then those that send commands ...                                   *)
LEMMA SendsTwo ==
    ASSUME TypeOK, NEW c \in Command, NEW d \in Command, Send(<<c, d>>),
           Len(tx) + 2 <= QueueSize
    PROVE  /\ Len(tx') = Len(tx) + 2
           /\ \A i \in 1..Len(tx) : tx'[i] = tx[i]
           /\ tx'[Len(tx) + 1] = c /\ tx'[Len(tx) + 2] = d
<1>1. tx \in Seq(Command)
  BY DEF TypeOK
<1> HIDE DEF Command
<1> DEFINE all == tx \o <<c, d>>
<1>2. /\ Len(all) = Len(tx) + 2
      /\ all[Len(tx) + 1] = c /\ all[Len(tx) + 2] = d
      /\ \A i \in 1..Len(tx) : all[i] = tx[i]
  BY <1>1
<1>3. tx' = all
  BY <1>2 DEF Send
<1> HIDE DEF all
<1> QED BY <1>2, <1>3

LEMMA WakeKeepsCounts ==
    ASSUME Inv, Inv', pc' = "wake" \/ (Advertise /\ pc = "wake")
    PROVE  Counted'
<1>1. ~ Heard' /\ ~ Answered' /\ pc' \notin {"hangup", "result", "home"}
  <2>1. CASE pc' = "wake"
    BY <2>1 DEF Heard, Inv, OneConnect
  <2>2. CASE Advertise
    <3>1. pc' = "advertise" /\ status' = "STANDBY" /\ Pending' = Pending /\ pc = "wake"
      BY <2>2 DEF Advertise, driver, radio, Pending
    <3>2. ~ Answered
      BY <3>1 DEF Inv, OneConnect
    <3> QED BY <3>1, <3>2 DEF Heard, Answered, Has
  <2> QED BY <2>1, <2>2
<1>2. BehindAnswer'
  BY <1>1 DEF BehindAnswer, Answered, Has
<1> QED BY <1>1, <1>2 DEF Counted, HangupStatus, Introduced, Advertised, InConnection, Ending,
                          Ended, AtRest

LEMMA SleepDisconnectsKeepsCounts ==
    ASSUME Inv, Inv', Counted, SleepDisconnects
    PROVE  Counted'
<1>1. /\ pc = "sleep" /\ pc' = "hangup" /\ status = "CONNECTED" /\ status' = "CONNECTED"
      /\ UNCHANGED <<rx, Pending, mode, link, before>>
      /\ Send(<<"disconnect">>)
  BY DEF SleepDisconnects, driver, radio, phone, Pending
<1>2. Len(tx') \in Nat /\ Len(tx') <= Len(tx) + 1 /\ Len(tx) \in Nat
  <2>1. TypeOK /\ "disconnect" \in Command
    BY DEF Inv, Command
  <2> QED BY <1>1, <2>1, SendExtends, Types DEF Extends
<1>3. Heard /\ Heard' /\ ~ Answered' /\ Most = 2 /\ Most' = 3
  BY <1>1 DEF Heard, Inv, OneConnect, Most
<1>4. \A types, n : Some(types, n)' = Some(types, n) /\ Some(types, n) \in {0, 1}
  BY <1>1 DEF Some
<1>5. InConnection'
  <2> SUFFICES ASSUME mode = "connected"
               PROVE  Len(tx') + Some(AfterConnected, Len(Pending))
                          + Some(AfterPipes, Len(Pending)) <= 3
    BY <1>1, <1>3, <1>4 DEF InConnection
  <2>1. Len(tx) + Some(AfterConnected, Len(Pending)) + Some(AfterPipes, Len(Pending)) <= 2
    BY <1>1, <1>3 DEF Counted, InConnection
  <2>2. Some(AfterConnected, Len(Pending)) \in {0, 1} /\ Some(AfterPipes, Len(Pending)) \in {0, 1}
    BY <1>4
  <2> QED BY <1>2, <2>1, <2>2
<1>6. Ending'
  <2> SUFFICES ASSUME NEW i \in 1..Len(Pending), Pending[i].type = "disconnected"
               PROVE  /\ Len(Pending) - i + Len(tx') + Some(AfterConnected, i - 1)
                             + Some(AfterPipes, i - 1) <= 3
                      /\ i <= Len(rx) => Len(tx') + Some(AfterConnected, i - 1)
                             + Some(AfterPipes, i - 1) <= 3 - 1
    BY <1>1, <1>3, <1>4 DEF Ending
  <2>1. /\ Len(Pending) - i + Len(tx) + Some(AfterConnected, i - 1)
               + Some(AfterPipes, i - 1) <= 2
        /\ i <= Len(rx) => Len(tx) + Some(AfterConnected, i - 1)
               + Some(AfterPipes, i - 1) <= 2 - 1
    BY <1>3 DEF Counted, Ending
  <2>2. Some(AfterConnected, i - 1) \in {0, 1} /\ Some(AfterPipes, i - 1) \in {0, 1}
        /\ Len(Pending) \in Nat
    BY <1>4, Types DEF Inv
  <2> DEFINE p == Len(Pending)
             r == Len(rx)
             t == Len(tx)
             u == Len(tx')
             a == Some(AfterConnected, i - 1)
             b == Some(AfterPipes, i - 1)
  <2>3. p \in Nat /\ i \in 1..p
    BY <2>2
  <2> HIDE DEF p, r, t, u, a, b
  <2>4. p - i + u + a + b <= 3 /\ (i <= r => u + a + b <= 3 - 1)
    <3>1. /\ p - i + t + a + b <= 2
          /\ i <= r => t + a + b <= 2 - 1
      BY <2>1 DEF p, r, t, a, b
    <3>2. u \in Nat /\ u <= t + 1 /\ t \in Nat
      BY <1>2 DEF t, u
    <3>3. a \in {0, 1} /\ b \in {0, 1}
      BY <2>2 DEF a, b
    <3> QED BY <2>3, <3>1, <3>2, <3>3
  <2> QED BY <2>4 DEF p, r, u, a, b
<1>7. BehindAnswer'
  BY <1>3 DEF BehindAnswer, Answered, Has
<1> QED BY <1>1, <1>3, <1>5, <1>6, <1>7 DEF Counted, HangupStatus, Introduced, Advertised, Ended,
                                            AtRest

LEMMA SleepResetsKeepsCounts ==
    ASSUME QueueSize >= 4, Inv, Inv', Counted, SleepResets
    PROVE  Counted'
<1> DEFINE p == Len(Pending)
           t == Len(tx)
           r == Len(rx)
<1>1. /\ pc \in {"sleep", "hangup"} /\ pc' = "result"
      /\ UNCHANGED <<rx, Pending, mode, link, before>>
      /\ Send(<<"radio_reset", "sleep">>)
      /\ pc = "sleep" => status # "CONNECTED" \/ t = QueueSize
      /\ pc = "hangup" => status = "STANDBY"
  BY DEF SleepResets, radio, phone, Pending
<1>2. Heard /\ ~ Heard' /\ ~ Answered'
  BY <1>1 DEF Heard, Inv, OneConnect
<1>3. p \in Nat /\ t \in Nat /\ r \in Nat /\ r <= p /\ QueueSize \in Nat
  BY ReadIsPending, Types DEF Inv
<1>4. t <= 2 /\ p + t <= 3 /\ (mode \notin {"standby", "asleep"} => p + t <= 2 \/ p >= 2)
  <2>1. CASE status = "STANDBY"
    <3>1. t <= 2 /\ p + t <= Most /\ mode = "standby"
      BY <1>2, <2>1 DEF Counted, Ended, Inv, StatusFollows, Follows
    <3> QED BY <1>3, <3>1 DEF Most
  <2>2. CASE status = "ADVERTISING"
    <3>1. p + t <= IF link = before THEN 1 ELSE 3
      BY <1>2, <2>2 DEF Counted, Advertised
    <3>2. CASE link = before
      BY <1>3, <3>1, <3>2
    <3>3. CASE link # before
      <4>1. link > before
        <5>1. link >= before /\ link \in Nat /\ before \in Nat
          BY Types DEF Inv, LinksInOrder
        <5> QED BY <3>3, <5>1
      <4>2. t <= 1 /\ \E i, j \in 1..p : i < j
        BY <1>2, <2>2, <4>1 DEF Counted, Introduced
      <4>3. p >= 2
        BY <1>3, <4>2
      <4> QED BY <1>3, <3>1, <3>3, <4>2, <4>3
    <3> QED BY <3>2, <3>3
  <2>3. status # "CONNECTED"
    <3> SUFFICES ASSUME status = "CONNECTED" PROVE FALSE
      OBVIOUS
    <3>1. pc = "sleep" /\ t >= 4
      BY <1>1
    <3>2. Len(tx) <= 3
      BY <1>2, <3>1, RoomForReset
    <3> QED BY <1>3, <3>1, <3>2
  <2>4. status \in {"STANDBY", "ADVERTISING"}
    BY <1>2, <2>3 DEF Inv, StatusFollows, Follows
  <2> QED BY <2>1, <2>2, <2>4
<1>5. /\ Len(tx') = t + 2 /\ \A i \in 1..t : tx'[i] = tx[i]
      /\ tx'[t + 1] = "radio_reset" /\ tx'[t + 2] = "sleep"
  <2>1. TypeOK /\ "radio_reset" \in Command /\ "sleep" \in Command
    BY DEF Inv, Command
  <2>2. Len(tx) + 2 <= QueueSize
    BY <1>3, <1>4
  <2> QED BY <1>1, <2>1, <2>2, SendsTwo
<1>6. Fits'
  <2> SUFFICES \/ r + (t + 2) <= QueueSize
               \/ /\ p = r /\ t + 2 >= 2 /\ r + (t + 2) <= QueueSize + 1
                  /\ mode \in {"standby", "asleep"} \/ r >= 2
    BY <1>1, <1>5 DEF Fits
  <2> HIDE DEF p, t, r
  <2> QED BY <1>3, <1>4
<1>7. GoesToSleep'
  <2>1. (t + 2) - 1 = t + 1 /\ t + 2 >= 2
    BY <1>3
  <2> QED BY <1>5, <2>1 DEF GoesToSleep
<1>8. ~ Asked("wakeup")'
  <2>1. \A i \in 1..t + 2 : i \in 1..t \/ i = t + 1 \/ i = t + 2
    BY <1>3
  <2>2. \A i \in 1..t : tx[i] # "wakeup"
    BY <1>2 DEF Inv, OnlyReplies, Replies
  <2> HIDE DEF t
  <2> QED BY <1>5, <2>1, <2>2 DEF Asked
<1>9. BehindAnswer'
  BY <1>2 DEF BehindAnswer, Answered, Has
<1> QED BY <1>1, <1>2, <1>6, <1>7, <1>8, <1>9
        DEF Counted, HangupStatus, Introduced, Advertised, InConnection, Ending, Ended, AtRest

(* ... those of the phones ...                                             *)
LEMMA SomeGrows ==
    ASSUME Inv, NEW new, Grows(new)
    PROVE  /\ \A types, n : n \in Int /\ n <= Len(Pending) => Some(types, n)' = Some(types, n)
           /\ \A types, n : n \in Len(Pending)..Len(Pending') /\ types \cap new = {} =>
                 Some(types, n)' = Some(types, Len(Pending))
<1>1. Len(Pending) \in Nat /\ Len(Pending') \in Nat
  BY Types DEF Inv, Grows
<1>2. \A i \in 1..Len(Pending) : i \in 1..Len(Pending') /\ Pending'[i] = Pending[i]
  BY DEF Grows
<1>3. \A types, n : n \in Int /\ n <= Len(Pending) => Some(types, n)' = Some(types, n)
  BY <1>1, <1>2 DEF Some
<1>4. ASSUME NEW types, NEW n \in Len(Pending)..Len(Pending'), types \cap new = {}
      PROVE  Some(types, n)' = Some(types, Len(Pending))
  <2>1. \A i \in 1..n : i \in 1..Len(Pending) \/ Pending'[i].type \notin types
    BY <1>1, <1>4 DEF Grows
  <2>2. \A i \in 1..Len(Pending) : i \in 1..n
    BY <1>1, <1>4
  <2> QED BY <1>2, <2>1, <2>2 DEF Some
<1> QED BY <1>3, <1>4

LEMMA PhoneConnectsAdds ==
    ASSUME Inv, PhoneConnects
    PROVE  /\ UNCHANGED <<pc, status, tx, rx, before>>
           /\ mode = "advertising" /\ mode' = "connected" /\ link = before /\ link' = link + 1
           /\ Grows({"connected", "pipes"}) /\ Len(Pending') = Len(Pending) + 2
           /\ Pending'[Len(Pending) + 1].type = "connected"
           /\ Pending'[Len(Pending) + 2].type = "pipes"
<1> DEFINE events == [i \in 1..2 |->
           [type |-> <<"connected", "pipes">>[i], link |-> link + 1, number |-> 0]]
<1>1. /\ UNCHANGED <<pc, status, tx, rx, before>>
      /\ mode = "advertising" /\ mode' = "connected"
      /\ link' = link + 1 /\ link < MaxLinks
      /\ waiting' = waiting \o events
  BY DEF PhoneConnects, driver
<1>2. link = before /\ Len(Pending) \in Nat /\ TypeOK /\ link \in Nat
  BY <1>1, Types DEF Inv, LinksInOrder
<1>3. /\ events \in Seq(Event) /\ Len(events) = 2
      /\ events[1].type = "connected" /\ events[2].type = "pipes"
      /\ \A i \in 1..2 : events[i].link = link'
  <2>1. link + 1 \in 0..MaxLinks /\ 0 \in 0..Length
    BY <1>1, <1>2, ParametersAssumption DEF TypeOK, Length
  <2>2. events \in [1..2 -> Event]
    BY <2>1 DEF Event, EventType
  <2>3. events \in Seq(Event)
    <3> HIDE DEF events, Event
    <3> QED BY <2>2, SeqDef
  <2> QED BY <1>1, <2>3
<1> HIDE DEF events
<1>4. Adds(events)
  BY <1>1, <1>2, <1>3, AddsToWaiting
<1>5. \A i \in 1..Len(events) :
          events[i].type \in {"connected", "pipes"} /\ events[i].link = link'
  BY <1>3
<1>6. Grows({"connected", "pipes"})
  BY <1>2, <1>3, <1>4, <1>5, AddsGrows
<1> QED BY <1>1, <1>2, <1>3, <1>4, <1>6 DEF Adds

(* A message, or the end of the connection.                                *)
LEMMA PhoneSaysAdds ==
    ASSUME Inv, PhoneSends \/ PhoneHangsUp
    PROVE  /\ UNCHANGED <<pc, status, tx, rx, before, link>>
           /\ mode = "connected" /\ Len(Pending') = Len(Pending) + 1
           /\ \/ mode' = "connected" /\ Grows({"data"})
              \/ mode' = "standby" /\ Grows({"disconnected"})
<1> DEFINE type == IF PhoneHangsUp THEN "disconnected" ELSE "data"
           e == [type |-> type, link |-> link,
                 number |-> IF PhoneHangsUp THEN 0 ELSE spoken + 1]
<1>1. link \in Nat /\ spoken \in Nat /\ Len(Pending) \in Nat /\ TypeOK
  BY Types DEF Inv
<1>2. e \in Event
  <2>1. PhoneSends => spoken + 1 \in 0..Length
    BY <1>1, ParametersAssumption DEF PhoneSends, Length
  <2>2. link \in 0..MaxLinks /\ 0 \in 0..Length
    BY <1>1, ParametersAssumption DEF TypeOK, Length
  <2> QED BY <2>1, <2>2 DEF Event, EventType
<1>3. waiting' = waiting \o <<e>>
  <2>1. CASE PhoneHangsUp
    <3>1. Report(<<"disconnected">>) = <<e>>
      BY <2>1 DEF Report
    <3> QED BY <2>1, <3>1 DEF PhoneHangsUp
  <2>2. CASE ~ PhoneHangsUp
    <3>1. waiting \in Seq(Event)
      BY <1>1 DEF TypeOK
    <3>2. waiting' = Append(waiting, e)
      BY <2>2 DEF PhoneSends
    <3> HIDE DEF Event, e
    <3> QED BY <1>2, <3>1, <3>2
  <2> QED BY <2>1, <2>2
<1>4. /\ UNCHANGED <<pc, status, tx, rx, before, link>>
      /\ mode = "connected" /\ mode' = IF PhoneHangsUp THEN "standby" ELSE "connected"
  BY DEF PhoneSends, PhoneHangsUp, driver
<1>5. <<e>> \in Seq(Event) /\ Len(<<e>>) = 1 /\ \A i \in 1..Len(<<e>>) : <<e>>[i] = e
  <2> HIDE DEF e, Event
  <2> QED BY <1>2
<1>6. e.type = type /\ e.link = link'
  BY <1>4
<1> HIDE DEF e
<1>7. Adds(<<e>>)
  BY <1>1, <1>3, <1>4, <1>5, AddsToWaiting
<1>8. \A i \in 1..Len(<<e>>) : <<e>>[i].type \in {type} /\ <<e>>[i].link = link'
  BY <1>5, <1>6
<1>9. Grows({type})
  <2> HIDE DEF type
  <2> QED BY <1>1, <1>5, <1>7, <1>8, AddsGrows
<1>10. Len(Pending') = Len(Pending) + 1
  BY <1>5, <1>7 DEF Adds
<1> QED BY <1>4, <1>9, <1>10

(* Until the program is told that it is connected, a phone that is not     *)
(* early does not hang up.                                                 *)
LEMMA NotOver ==
    ASSUME Inv, Counted, Answered \/ (Heard /\ status = "ADVERTISING")
    PROVE  /\ ~ Has({"disconnected"})
           /\ mode = "connected" <=> link > before
           /\ mode = "advertising" <=> link = before
<1>1. link >= before /\ link \in Nat /\ before \in Nat
  BY Types DEF Inv, LinksInOrder
<1>2. mode = "connected" => link > before
  BY DEF Inv, ReportsAreFresh
<1>3. \A i \in 1..Len(Pending) : Pending[i].type = "connected" => link > before
  <2> SUFFICES ASSUME NEW i \in 1..Len(Pending), Pending[i].type = "connected"
               PROVE  link > before
    OBVIOUS
  <2>1. Pending[i].link > before /\ Pending[i].link <= link
    BY DEF Inv, ReportsAreFresh, LinksInOrder, Reports, OfLink
  <2>2. Pending[i].link \in Nat
    <3>1. Pending[i] \in Event
      BY Types DEF Inv
    <3> QED BY <3>1, ParametersAssumption DEF Event
  <2> QED BY <1>1, <2>1, <2>2
<1>4. link > before => mode = "connected"
  BY DEF Counted, Introduced
<1>5. \/ mode = "advertising" /\ ~ Has({"connected", "disconnected"})
      \/ mode = "connected" /\ ~ Has({"disconnected"})
      \/ mode = "standby" /\ \E i \in 1..Len(Pending) : Pending[i].type = "connected"
  <2>1. Follows("ADVERTISING")
    BY DEF Inv, StatusFollows
  <2> QED BY <2>1 DEF Follows
<1>6. Has({"disconnected"}) => Has({"connected", "disconnected"})
  BY DEF Has
<1> QED BY <1>1, <1>2, <1>3, <1>4, <1>5, <1>6

LEMMA PhoneConnectsKeepsCounts ==
    ASSUME Inv, Inv', Counted, PhoneConnects, Len(Pending) <= 1
    PROVE  Counted'
<1> DEFINE p == Len(Pending)
           q == Len(Pending')
           t == Len(tx)
<1>1. /\ UNCHANGED <<pc, status, tx, rx, before>>
      /\ mode = "advertising" /\ mode' = "connected" /\ link = before /\ link' = link + 1
      /\ Grows({"connected", "pipes"}) /\ q = p + 2
      /\ Pending'[p + 1].type = "connected" /\ Pending'[p + 2].type = "pipes"
  BY PhoneConnectsAdds
<1>2. p \in 0..1 /\ q \in Nat /\ t \in Nat /\ link \in Nat /\ QueueSize \in Nat
  <2>1. p \in Nat /\ t \in Nat /\ link \in Nat /\ QueueSize \in Nat
    BY Types DEF Inv
  <2>2. p <= 1
    OBVIOUS
  <2> HIDE DEF p, q, t
  <2> QED BY <1>1, <2>1, <2>2
<1>3. link' > before' /\ link' # before'
  BY <1>1, <1>2
<1>4. \A i \in 1..p : i \in 1..q /\ Pending'[i] = Pending[i]
  BY <1>1 DEF Grows
<1>5. \A i \in 1..q : i \in 1..p \/ Pending'[i].type \in {"connected", "pipes"}
  BY <1>1 DEF Grows
<1>6. /\ Heard' <=> Heard
      /\ Answered' <=> Answered
  BY <1>1, <1>4, <1>5 DEF Heard, Answered, Has
<1>7. Len(rx) \in Nat /\ Len(rx) <= p
  BY ReadIsPending DEF Inv
<1>8. ~ Has({"connected", "disconnected"})
  <2>1. ~ Has(Reports)
    BY <1>1 DEF Inv, EndIsLast
  <2> QED BY <2>1 DEF Has, Reports, OfLink
<1>9. ASSUME Answered PROVE p = 1 /\ Pending[1].type = "connect_rsp" /\ t <= 1
  <2>1. p = 1 /\ Pending[1].type = "connect_rsp"
    <3>1. PICK i \in 1..p : Pending[i].type = "connect_rsp"
      BY <1>9 DEF Answered, Has
    <3>2. i = 1 /\ p = 1
      BY <1>2
    <3> QED BY <3>1, <3>2
  <2>2. t <= 1
    BY <1>9 DEF Inv, OneVersion
  <2> QED BY <2>1, <2>2
<1>10. ASSUME Heard, status = "ADVERTISING" PROVE p + t <= 1
  BY <1>1, <1>10 DEF Counted, Advertised
<1>11. Introduced'
  <2> SUFFICES ASSUME Answered \/ (Heard /\ status = "ADVERTISING")
               PROVE  /\ ~ Has({"version_rsp"})'
                      /\ t <= 1
                      /\ \A i \in 1..Len(rx) : Pending'[i].type # "connected"
    <3>1. p + 1 \in 1..q /\ p + 2 \in 1..q /\ p + 1 < p + 2
      BY <1>1, <1>2
    <3> QED BY <1>1, <1>6, <3>1 DEF Introduced
  <2>1. ~ Has({"version_rsp"})'
    <3> SUFFICES ASSUME NEW i \in 1..q, Pending'[i].type = "version_rsp" PROVE FALSE
      BY DEF Has
    <3>1. i \in 1..p /\ Pending[i].type = "version_rsp"
      BY <1>4, <1>5
    <3>2. Heard
      <4>1. Answered => Pending[i].type = "connect_rsp"
        BY <1>2, <1>9, <3>1
      <4> QED BY <3>1, <4>1
    <3>3. AtMostOne(AfterConnected)'
      BY <1>6, <3>2 DEF Inv, CommandsFit
    <3>4. p + 1 \in 1..q /\ i # p + 1
      BY <1>1, <1>2, <3>1
    <3> QED BY <1>1, <3>3, <3>4 DEF AtMostOne, AfterConnected
  <2>2. t <= 1
    BY <1>2, <1>9, <1>10
  <2>3. ASSUME NEW i \in 1..Len(rx) PROVE Pending'[i].type # "connected"
    <3>1. i \in 1..p
      BY <1>2, <1>7
    <3> QED BY <1>4, <1>8, <3>1 DEF Has
  <2> QED BY <2>1, <2>2, <2>3
<1>12. BehindAnswer'
  <2> SUFFICES ASSUME NEW i \in 1..q, Pending'[i].type = "connect_rsp"
               PROVE  q - i + t + Some({"version_rsp"}, Len(Pending))' <= 3
    BY <1>1, <1>3 DEF BehindAnswer
  <2>1. Answered /\ i \in 1..p
    BY <1>4, <1>5 DEF Answered, Has
  <2>2. ~ Has({"version_rsp"})'
    BY <1>3, <1>6, <1>11, <2>1 DEF Introduced
  <2>3. Some({"version_rsp"}, Len(Pending))' = 0
    BY <2>2 DEF Some, Has
  <2> QED BY <1>1, <1>2, <1>9, <2>1, <2>3
<1>13. Advertised'
  <2> SUFFICES ASSUME Heard, status = "ADVERTISING" PROVE q + t <= 3
    BY <1>1, <1>3, <1>6 DEF Advertised
  <2> QED BY <1>1, <1>2, <1>10
<1>14. Heard => status = "ADVERTISING"
  BY <1>1 DEF Inv, StatusFollows, Follows
<1>15. Ending'
  BY <1>4, <1>5, <1>8 DEF Ending, Has
<1>16. AtRest'
  <2> SUFFICES ASSUME pc \in {"result", "home"} PROVE Fits' /\ GoesToSleep' /\ ~ Asked("wakeup")'
    BY <1>1 DEF AtRest
  <2>1. Fits /\ GoesToSleep /\ ~ Asked("wakeup")
    BY DEF Counted, AtRest
  <2>2. Len(rx) + Len(tx) <= QueueSize
    BY <1>1, <1>2, <1>7, <2>1 DEF Fits
  <2> QED BY <1>1, <2>1, <2>2 DEF Fits, GoesToSleep, Asked
<1>17. HangupStatus' /\ InConnection' /\ Ended'
  BY <1>1, <1>6, <1>14 DEF Counted, HangupStatus, InConnection, Ended
<1> QED BY <1>11, <1>12, <1>13, <1>15, <1>16, <1>17 DEF Counted

LEMMA PhoneSaysKeepsCounts ==
    ASSUME Inv, Inv', Counted, PhoneSends \/ PhoneHangsUp, Len(Pending) <= 1
    PROVE  Counted'
<1> DEFINE p == Len(Pending)
           q == Len(Pending')
           t == Len(tx)
<1>1. /\ UNCHANGED <<pc, status, tx, rx, before, link>>
      /\ mode = "connected" /\ q = p + 1
      /\ \/ mode' = "connected" /\ Grows({"data"})
         \/ mode' = "standby" /\ Grows({"disconnected"})
  BY PhoneSaysAdds
<1>2. p \in 0..1 /\ q \in Nat /\ t \in Nat
  <2>1. p \in Nat /\ t \in Nat
    BY Types DEF Inv
  <2>2. p <= 1
    OBVIOUS
  <2> HIDE DEF p, q, t
  <2> QED BY <1>1, <2>1, <2>2
<1>3. /\ \A i \in 1..p : i \in 1..q /\ Pending'[i] = Pending[i]
      /\ \A i \in 1..q : \/ i \in 1..p
                         \/ i = q /\ mode' = "connected" /\ Pending'[i].type = "data"
                         \/ i = q /\ mode' = "standby" /\ Pending'[i].type = "disconnected"
  BY <1>1, <1>2 DEF Grows
<1>4. /\ Heard' <=> Heard
      /\ Answered' <=> Answered
  BY <1>1, <1>3 DEF Heard, Answered, Has
<1>5. ~ Answered /\ ~ (Heard /\ status = "ADVERTISING")
  <2> SUFFICES ASSUME Answered \/ (Heard /\ status = "ADVERTISING") PROVE FALSE
    OBVIOUS
  <2>1. link > before
    BY <1>1, NotOver
  <2>2. \E i, j \in 1..p : i < j
    BY <2>1 DEF Counted, Introduced
  <2> QED BY <1>2, <2>2
<1>6. ~ Has({"disconnected"})
  BY <1>1 DEF Inv, EndIsLast
<1>7. Heard => status = "CONNECTED"
  BY <1>1, <1>5 DEF Inv, StatusFollows, Follows
<1>8. /\ \A types, n : n \in Int /\ n <= p => Some(types, n)' = Some(types, n)
      /\ \A types : types \cap {"data", "disconnected"} = {} =>
            Some(types, Len(Pending))' = Some(types, Len(Pending))
  <2>1. q \in p..q /\ p \in p..q
    BY <1>1, <1>2
  <2>2. \A types : types \cap {"data", "disconnected"} = {} =>
            types \cap {"data"} = {} /\ types \cap {"disconnected"} = {}
    OBVIOUS
  <2> QED BY <1>1, <2>1, <2>2, SomeGrows
<1>9. Introduced' /\ Advertised' /\ HangupStatus' /\ Ended'
  BY <1>1, <1>4, <1>5, <1>7 DEF Counted, Introduced, Advertised, HangupStatus, Ended
<1>10. BehindAnswer'
  BY <1>4, <1>5 DEF BehindAnswer, Answered, Has
<1>11. Most' = Most
  BY <1>1 DEF Most
<1>12. ASSUME Heard PROVE t + Some(AfterConnected, p) + Some(AfterPipes, p) <= Most
  BY <1>1, <1>7, <1>12 DEF Counted, InConnection
<1>13. InConnection'
  <2>1. /\ Some(AfterConnected, Len(Pending))' = Some(AfterConnected, p)
        /\ Some(AfterPipes, Len(Pending))' = Some(AfterPipes, p)
    BY <1>8 DEF AfterConnected, AfterPipes
  <2> QED BY <1>1, <1>4, <1>11, <1>12, <2>1 DEF InConnection
<1>14. Ending'
  <2> SUFFICES ASSUME Heard, NEW i \in 1..q, Pending'[i].type = "disconnected"
               PROVE  /\ q - i + t + Some(AfterConnected, i - 1)' + Some(AfterPipes, i - 1)'
                             <= Most
                      /\ i <= 2 /\ ~ (i <= Len(rx))
    BY <1>1, <1>4, <1>11 DEF Ending
  <2>1. i = q
    BY <1>3, <1>6 DEF Has
  <2>2. i - 1 = p
    BY <1>1, <1>2, <2>1
  <2>3. Some(AfterConnected, i - 1)' = Some(AfterConnected, p)
        /\ Some(AfterPipes, i - 1)' = Some(AfterPipes, p)
    BY <1>2, <1>8, <2>2
  <2>4. Some(AfterConnected, p) \in {0, 1} /\ Some(AfterPipes, p) \in {0, 1}
    BY SomeCounts
  <2>5. Len(rx) \in Nat /\ Len(rx) <= p
    BY ReadIsPending DEF Inv
  <2>6. t + Some(AfterConnected, p) + Some(AfterPipes, p) <= Most /\ Most \in Nat
    BY <1>12 DEF Most
  <2> QED BY <1>1, <1>2, <2>1, <2>2, <2>3, <2>4, <2>5, <2>6
<1>15. AtRest'
  <2> SUFFICES ASSUME pc \in {"result", "home"} PROVE Fits' /\ GoesToSleep' /\ ~ Asked("wakeup")'
    BY <1>1 DEF AtRest
  <2>1. Fits /\ GoesToSleep /\ ~ Asked("wakeup")
    BY DEF Counted, AtRest
  <2>2. Len(rx) + Len(tx) <= QueueSize
    <3>1. Len(rx) \in Nat
      BY DEF Inv, TypeOK
    <3> QED BY <1>1, <1>2, <2>1, <3>1 DEF Fits
  <2> QED BY <1>1, <2>1, <2>2 DEF Fits, GoesToSleep, Asked
<1> QED BY <1>9, <1>10, <1>13, <1>14, <1>15 DEF Counted

(* ... and those of a transfer that takes a command. Most commands are     *)
(* answered by one event.                                                  *)
LEMMA TransferCounts ==
    ASSUME Inv, Transfer, tx # <<>>
    PROVE  /\ Len(Pending') \in Nat /\ Len(Pending') >= Len(Pending)
           /\ \/ Len(Pending') <= Len(Pending) + 1
              \/ Told = "wakeup"
              \/ /\ Told \in {"change_timing", "disconnect", "radio_reset"}
                 /\ mode = "connected"
           /\ IF Len(Pending) = Len(rx) THEN Len(rx') = Len(rx) ELSE Len(rx') = Len(rx) + 1
           /\ Len(rx) \in Nat /\ Len(rx) <= Len(Pending)
<1> DEFINE events == Report(Answer(Told))
<1>1. TypeOK /\ tx \in Seq(Command) /\ Len(tx) \in Nat \ {0} /\ Head(tx) = Told
      /\ Told \in Command
  <2>1. tx \in Seq(Command) /\ TypeOK
    BY DEF Inv, TypeOK
  <2> HIDE DEF Command
  <2> QED BY <2>1 DEF Told
<1>2. events \in Seq(Event) /\ Len(events) = Len(Answer(Told)) /\ Len(Answer(Told)) \in 0..2
  BY <1>1, AnswersAreEvents
<1>3. /\ rx' = IF waiting = <<>> THEN rx ELSE Append(rx, Head(waiting))
      /\ waiting' = Rest(waiting) \o events
  BY <1>1 DEF Transfer
<1>4. Adds(events)
  <2> HIDE DEF events
  <2> QED BY <1>1, <1>2, <1>3, AddsInTransfer
<1>5. \/ Len(Answer(Told)) <= 1
      \/ Told = "wakeup"
      \/ Told \in {"change_timing", "disconnect", "radio_reset"} /\ mode = "connected"
  BY DEF Answer
<1>6. rx \in Seq(Event) /\ waiting \in Seq(Event)
  BY <1>1 DEF TypeOK
<1> HIDE DEF events, Event
<1>7. Len(Pending) = Len(rx) + Len(waiting) /\ Len(rx) \in Nat /\ Len(waiting) \in Nat
  BY <1>6 DEF Pending
<1>8. IF Len(Pending) = Len(rx) THEN Len(rx') = Len(rx) ELSE Len(rx') = Len(rx) + 1
  <2>1. waiting = <<>> <=> Len(waiting) = 0
    BY <1>6, EmptySeq
  <2>2. waiting # <<>> => Len(rx') = Len(rx) + 1
    BY <1>3, <1>6
  <2> QED BY <1>3, <1>7, <2>1, <2>2
<1> QED BY <1>2, <1>4, <1>5, <1>7, <1>8 DEF Adds

LEMMA ServeCounts ==
    ASSUME Inv, Serves
    PROVE  /\ \A types, n : n \in Int /\ n <= Len(Pending) => Some(types, n)' = Some(types, n)
           /\ \A types, n :
                 /\ n \in Len(Pending)..Len(Pending')
                 /\ \A i \in 1..Len(Pending') :
                       i > Len(Pending) => Pending'[i].type \notin types
                 => Some(types, n)' = Some(types, Len(Pending))
<1>1. Grows(EventType \ {"data"})
  BY DEF Serves, Adding
<1>2. Len(Pending) \in Nat /\ Len(Pending') \in Nat
  BY <1>1, Types DEF Inv, Grows
<1>3. ASSUME NEW types, NEW n \in Len(Pending)..Len(Pending'),
             \A i \in 1..Len(Pending') : i > Len(Pending) => Pending'[i].type \notin types
      PROVE  Some(types, n)' = Some(types, Len(Pending))
  <2>1. \A i \in 1..n : i \in 1..Len(Pending) \/ Pending'[i].type \notin types
    BY <1>2, <1>3
  <2>2. \A i \in 1..Len(Pending) : i \in 1..n /\ Pending'[i] = Pending[i]
    BY <1>1, <1>2 DEF Grows
  <2> QED BY <2>1, <2>2 DEF Some
<1> QED BY <1>1, <1>3, SomeGrows

(* A command of a chain makes room for the event that continues it.        *)
LEMMA ChainServed ==
    ASSUME Inv, Serves, Heard
    PROVE  /\ Told = "change_timing" => link > before /\ ~ Has(AfterPipes)
           /\ \A n \in Len(Pending)..Len(Pending') :
                 Some(AfterConnected, n)' + Some(AfterPipes, n)'
                     <= Some(AfterConnected, Len(Pending)) + Some(AfterPipes, Len(Pending))
                        + IF Told \in {"device_version", "change_timing"} THEN 1 ELSE 0
<1>1. Told \in Replies \cup {"disconnect"}
  BY ServePhases
<1>2. /\ Told = "device_version" => ~ Has(AfterConnected)
      /\ Told = "change_timing" => link > before /\ ~ Has(AfterPipes)
  <2>1. PICK kind \in [1..Len(tx) -> Kind] : KindsOf(kind)
    BY DEF Inv, CommandsFit
  <2>2. 1 \in 1..Len(tx)
    BY DEF Serves, Advances
  <2> QED BY <2>1, <2>2 DEF KindsOf, Told
<1>3. \A i \in 1..Len(Pending') : i > Len(Pending) => AnswersTo(Told, Pending'[i].type)
  BY DEF Serves, Adding
<1>4. /\ Told # "device_version" =>
            \A i \in 1..Len(Pending') : i > Len(Pending) => Pending'[i].type \notin AfterConnected
      /\ Told # "change_timing" =>
            \A i \in 1..Len(Pending') : i > Len(Pending) => Pending'[i].type \notin AfterPipes
  BY <1>1, <1>3 DEF AnswersTo, AfterConnected, AfterPipes, Woken, Replies
<1>5. ASSUME NEW n \in Len(Pending)..Len(Pending')
      PROVE  Some(AfterConnected, n)' + Some(AfterPipes, n)'
                 <= Some(AfterConnected, Len(Pending)) + Some(AfterPipes, Len(Pending))
                    + IF Told \in {"device_version", "change_timing"} THEN 1 ELSE 0
  <2> DEFINE a == Some(AfterConnected, Len(Pending))
             b == Some(AfterPipes, Len(Pending))
             c == Some(AfterConnected, n)'
             d == Some(AfterPipes, n)'
  <2>1. /\ Told # "device_version" => c = a
        /\ Told # "change_timing" => d = b
    BY <1>4, <1>5, ServeCounts
  <2>2. a \in {0, 1} /\ b \in {0, 1} /\ c \in {0, 1} /\ d \in {0, 1}
    BY DEF Some
  <2>3. /\ Told = "device_version" => a = 0
        /\ Told = "change_timing" => b = 0
    BY <1>2 DEF Some, Has
  <2> HIDE DEF a, b, c, d
  <2>4. c + d <= a + b + IF Told \in {"device_version", "change_timing"} THEN 1 ELSE 0
    BY <2>1, <2>2, <2>3
  <2> QED BY <2>4 DEF a, b, c, d
<1> QED BY <1>2, <1>5

LEMMA ServeKeepsLead ==
    ASSUME Inv, Inv', Counted, Transfer, tx # <<>>, Serves
    PROVE  Introduced' /\ BehindAnswer' /\ Advertised'
<1> DEFINE p == Len(Pending)
           q == Len(Pending')
           t == Len(tx)
           u == Len(tx')
<1>1. /\ UNCHANGED <<pc, status, link>> /\ Advances /\ Adding
      /\ (Heard' <=> Heard) /\ (Told # "connect" => before' = before)
      /\ Answered' <=> Answered \/ (Told = "connect" /\ mode = "standby")
      /\ Answered => Told = "set_local_data"
      /\ Told = "connect" => before' = link
  BY ServePhases DEF Serves
<1>2. /\ p \in Nat /\ q \in Nat /\ u \in Nat /\ t = u + 1 /\ q >= p
      /\ \/ q <= p + 1
         \/ Told = "wakeup"
         \/ Told \in {"change_timing", "disconnect", "radio_reset"}
  BY <1>1, TransferCounts, Types DEF Inv, Advances
<1>3. link \in Nat /\ before \in Nat
  BY Types DEF Inv
<1>4. Answered \/ (Heard /\ status = "ADVERTISING") =>
          Told \in Replies /\ Told # "connect" /\ mode' = mode
  <2>1. Heard /\ status = "ADVERTISING" => Told \in Replies
    BY ServePhases DEF Counted, HangupStatus
  <2>2. Answered => Told \in Replies
    BY <1>1 DEF Replies
  <2>3. Told \in Replies => mode' = mode /\ Told # "connect"
    BY ServePhases DEF Replies
  <2> QED BY <2>1, <2>2, <2>3
<1>5. \A i \in 1..p : i \in 1..q /\ Pending'[i] = Pending[i]
  BY <1>1 DEF Adding, Grows
<1>6. Introduced'
  <2> SUFFICES ASSUME link > before', Answered' \/ (Heard /\ status = "ADVERTISING")
               PROVE  /\ mode' = "connected"
                      /\ ~ Has({"version_rsp"})'
                      /\ \E i, j \in 1..q :
                            i < j /\ Pending'[i].type = "connected" /\ Pending'[j].type = "pipes"
                      /\ u = 0
    BY <1>1 DEF Introduced
  <2>1. Told # "connect" /\ before' = before
    BY <1>1, <1>3
  <2>2. Answered \/ (Heard /\ status = "ADVERTISING")
    BY <1>1, <2>1
  <2>3. /\ mode = "connected" /\ ~ Has({"version_rsp"}) /\ t <= 1
        /\ \E i, j \in 1..p :
              i < j /\ Pending[i].type = "connected" /\ Pending[j].type = "pipes"
    BY <2>1, <2>2 DEF Counted, Introduced
  <2>4. PICK i, j \in 1..p :
            i < j /\ Pending[i].type = "connected" /\ Pending[j].type = "pipes"
    BY <2>3
  <2>5. ~ Has({"version_rsp"})'
    <3> SUFFICES ASSUME NEW k \in 1..q, Pending'[k].type = "version_rsp" PROVE FALSE
      BY DEF Has
    <3>1. k > p
      <4>1. k \in 1..p => Pending[k].type = "version_rsp"
        BY <1>5
      <4> QED BY <1>2, <2>3, <4>1 DEF Has
    <3>2. Told = "device_version"
      BY <1>1, <3>1 DEF Adding, AnswersTo, Woken
    <3>3. AtMostOne(AfterConnected)'
      BY <1>1, <2>2, <3>2 DEF Inv, CommandsFit
    <3>4. i \in 1..q /\ Pending'[i].type = "connected" /\ i # k
      BY <1>2, <1>5, <2>4, <3>1
    <3> QED BY <3>3, <3>4 DEF AtMostOne, AfterConnected
  <2> QED BY <1>2, <1>4, <1>5, <2>2, <2>3, <2>4, <2>5
<1>7. BehindAnswer'
  <2> SUFFICES ASSUME NEW i \in 1..q, Pending'[i].type = "connect_rsp"
               PROVE  q - i + u + Some({"version_rsp"}, Len(Pending))'
                          <= IF link = before' THEN 1 ELSE 3
    BY <1>1 DEF BehindAnswer
  <2> DEFINE s == Some({"version_rsp"}, Len(Pending))
             v == Some({"version_rsp"}, Len(Pending))'
  <2>1. s \in {0, 1} /\ v \in {0, 1}
    BY DEF Some
  <2>2. Told # "device_version" => v = s
    <3>1. ASSUME Told # "device_version", NEW k \in 1..q, k > p
          PROVE  Pending'[k].type \notin {"version_rsp"}
      BY <1>1, <3>1 DEF Adding, AnswersTo, Woken
    <3>2. q \in p..q
      BY <1>2
    <3> QED BY <3>1, <3>2, ServeCounts
  <2>3. CASE i \in 1..p
    <3>1. Pending[i].type = "connect_rsp"
      BY <1>5, <2>3
    <3>2. Told = "set_local_data" /\ before' = before
      BY <1>1, <2>3, <3>1 DEF Answered, Has
    <3>3. p - i + t + s <= IF link = before THEN 1 ELSE 3
      BY <2>3, <3>1 DEF Counted, BehindAnswer
    <3>4. v = s /\ q <= p + 1
      BY <1>2, <2>2, <3>2
    <3> HIDE DEF s, v
    <3>5. q - i + u + v <= IF link = before' THEN 1 ELSE 3
      BY <1>2, <2>1, <3>2, <3>3, <3>4
    <3> QED BY <3>5 DEF v
  <2>4. CASE i \notin 1..p
    <3>1. i > p
      BY <1>2, <2>4
    <3>2. Told = "connect" /\ i = q
      BY <1>1, <3>1 DEF Adding, AnswersTo, Woken
    <3>3. link = before'
      BY <1>1, <3>2
    <3>4. u + v <= 1
      <4>1. t > 1 => u = 1 /\ ~ Has(AfterConnected)
        <5>1. 1 \in 1..t /\ tx[1] = "connect"
          BY <1>1, <3>2 DEF Told, Advances
        <5>2. \A c \in 1..t : tx[c] = "connect" /\ c < t => t = c + 1 /\ ~ Has(AfterConnected)
          BY DEF Inv, OneVersion
        <5>3. 1 < t => t = 1 + 1 /\ ~ Has(AfterConnected)
          BY <5>1, <5>2
        <5> HIDE DEF t, u
        <5> QED BY <1>2, <5>3
      <4>2. ~ Has(AfterConnected) => s = 0
        <5>1. ~ Has(AfterConnected) => \A k \in 1..p : Pending[k].type \notin {"version_rsp"}
          BY DEF Has, AfterConnected
        <5> QED BY <5>1 DEF Some
      <4>3. v = s
        BY <2>2, <3>2
      <4> HIDE DEF s, v, t, u
      <4> QED BY <1>2, <2>1, <4>1, <4>2, <4>3
    <3> HIDE DEF v
    <3>5. q - i + u + v <= IF link = before' THEN 1 ELSE 3
      BY <1>2, <2>1, <3>2, <3>3, <3>4
    <3> QED BY <3>5 DEF v
  <2> QED BY <2>3, <2>4
<1>8. Advertised'
  <2> SUFFICES ASSUME Heard, status = "ADVERTISING"
               PROVE  q + u <= IF link = before' THEN 1 ELSE 3
    BY <1>1 DEF Advertised
  <2>1. p + t <= IF link = before THEN 1 ELSE 3
    BY DEF Counted, Advertised
  <2>2. Told \in Replies /\ before' = before
    BY <1>1, <1>4
  <2>3. Told # "change_timing"
    <3> SUFFICES ASSUME Told = "change_timing" PROVE FALSE
      OBVIOUS
    <3>1. link > before /\ ~ Has(AfterPipes)
      BY ChainServed
    <3>2. \E j \in 1..p : Pending[j].type = "pipes"
      BY <3>1 DEF Counted, Introduced
    <3> QED BY <3>1, <3>2 DEF Has, AfterPipes
  <2>4. q <= p + 1
    BY <1>2, <2>2, <2>3 DEF Replies
  <2> QED BY <1>2, <2>1, <2>2, <2>4
<1> QED BY <1>6, <1>7, <1>8

LEMMA ServeKeepsSession ==
    ASSUME Inv, Counted, Transfer, tx # <<>>, Serves
    PROVE  InConnection' /\ Ending' /\ Ended'
<1> SUFFICES ASSUME Heard PROVE InConnection' /\ Ending' /\ Ended'
  BY ServePhases DEF InConnection, Ending, Ended
<1> DEFINE p == Len(Pending)
           q == Len(Pending')
           t == Len(tx)
           u == Len(tx')
           a == Some(AfterConnected, p)
           b == Some(AfterPipes, p)
<1>1. /\ UNCHANGED <<pc, status, link>> /\ Advances /\ Adding
      /\ Heard' /\ Told \in Replies \cup {"disconnect"}
      /\ Told \in Replies => mode' = mode
      /\ Told = "disconnect" => pc = "hangup" /\ mode' = IF mode = "connected" THEN "standby" ELSE mode
  BY ServePhases DEF Serves, ModeAfter, Replies
<1>2. /\ p \in Nat /\ q \in Nat /\ u \in Nat /\ t = u + 1 /\ q >= p
      /\ mode # "connected" => q <= p + 1
  <2>1. Told # "wakeup"
    BY <1>1 DEF Replies
  <2> QED BY <1>1, <2>1, TransferCounts, Types DEF Inv, Advances
<1>3. Most' = Most /\ Most \in 2..3
  BY <1>1 DEF Most
<1>4. a \in {0, 1} /\ b \in {0, 1}
  BY SomeCounts
<1>5. InConnection'
  <2> SUFFICES ASSUME status = "CONNECTED", mode' = "connected"
               PROVE  u + Some(AfterConnected, Len(Pending))' + Some(AfterPipes, Len(Pending))'
                          <= Most
    BY <1>1, <1>3 DEF InConnection
  <2> DEFINE c == Some(AfterConnected, Len(Pending))'
             d == Some(AfterPipes, Len(Pending))'
  <2>1. mode = "connected"
    BY <1>1
  <2>2. t + a + b <= Most
    BY <2>1 DEF Counted, InConnection
  <2>3. c + d <= a + b + IF Told \in {"device_version", "change_timing"} THEN 1 ELSE 0
    <3>1. q \in p..q
      BY <1>2
    <3> QED BY <3>1, ChainServed
  <2>4. c \in {0, 1} /\ d \in {0, 1}
    BY DEF Some
  <2> HIDE DEF a, b, c, d
  <2>5. u + c + d <= Most
    BY <1>2, <1>3, <1>4, <2>2, <2>3, <2>4
  <2> QED BY <2>5 DEF c, d
<1>6. Ending'
  <2> SUFFICES ASSUME NEW i \in 1..q, Pending'[i].type = "disconnected"
               PROVE  /\ q - i + u + Some(AfterConnected, i - 1)' + Some(AfterPipes, i - 1)'
                             <= Most
                      /\ pc # "hangup" => i <= 2
                      /\ u + Some(AfterConnected, i - 1)' + Some(AfterPipes, i - 1)' <= Most - 1
    BY <1>1, <1>3 DEF Ending
  <2> DEFINE c == Some(AfterConnected, i - 1)'
             d == Some(AfterPipes, i - 1)'
  <2>1. c \in {0, 1} /\ d \in {0, 1}
    BY DEF Some
  <2>2. CASE i \in 1..p
    <3>1. Pending[i].type = "disconnected"
      BY <1>1, <2>2 DEF Adding, Grows
    <3>2. q <= p + 1
      BY <1>2, <2>2, <3>1 DEF Inv, EndIsLast, Has
    <3>3. i - 1 \in Int /\ i - 1 <= Len(Pending)
      BY <1>2, <2>2
    <3>4. c = Some(AfterConnected, i - 1) /\ d = Some(AfterPipes, i - 1)
      BY <3>3, ServeCounts
    <3>5. p - i + t + c + d <= Most /\ (pc # "hangup" => i <= 2)
      BY <2>2, <3>1, <3>4 DEF Counted, Ending
    <3> HIDE DEF c, d
    <3>6. q - i + u + c + d <= Most /\ u + c + d <= Most - 1
      BY <1>2, <1>3, <2>1, <2>2, <3>2, <3>5
    <3> QED BY <3>5, <3>6 DEF c, d
  <2>3. CASE i \notin 1..p
    <3>1. i > p
      BY <1>2, <2>3
    <3>2. i = q /\ Told = "disconnect" /\ mode = "connected" /\ pc = "hangup"
      BY <1>1, <3>1 DEF Adding, AnswersTo, Woken, Replies
    <3>3. status = "CONNECTED"
      <4>1. status = "STANDBY" => mode = "standby"
        BY DEF Inv, StatusFollows, Follows
      <4> QED BY <3>2, <4>1 DEF Counted, HangupStatus
    <3>4. t + a + b <= Most
      BY <3>2, <3>3 DEF Counted, InConnection
    <3>5. c + d <= a + b
      <4>1. i - 1 \in p..q
        BY <1>2, <3>1, <3>2
      <4> QED BY <1>4, <2>1, <3>2, <4>1, ChainServed
    <3> HIDE DEF a, b, c, d
    <3>6. q - i + u + c + d <= Most /\ u + c + d <= Most - 1
      BY <1>2, <1>3, <1>4, <2>1, <3>2, <3>4, <3>5
    <3> QED BY <3>2, <3>6 DEF c, d
  <2> QED BY <2>2, <2>3
<1>7. Ended'
  <2> SUFFICES ASSUME status = "STANDBY" PROVE u <= 2 /\ q + u <= Most
    BY <1>1, <1>3 DEF Ended
  <2>1. mode = "standby"
    BY DEF Inv, StatusFollows, Follows
  <2>2. t <= 2 /\ p + t <= Most
    BY DEF Counted, Ended
  <2> QED BY <1>2, <1>3, <2>1, <2>2
<1> QED BY <1>5, <1>6, <1>7

LEMMA ServeKeepsCounts ==
    ASSUME Inv, Inv', Counted, Transfer, tx # <<>>
    PROVE  Counted'
<1>1. Serves
  BY TransferEffect
<1>2. HangupStatus'
  BY <1>1 DEF Counted, HangupStatus, Serves
<1>3. AtRest'
  <2> SUFFICES ASSUME pc \in {"result", "home"} PROVE Fits' /\ GoesToSleep' /\ ~ Asked("wakeup")'
    BY <1>1 DEF AtRest, Serves
  <2>1. Fits /\ GoesToSleep /\ ~ Asked("wakeup")
    BY DEF Counted, AtRest
  <2> DEFINE t == Len(tx)
             u == Len(tx')
             r == Len(rx)
             s == Len(rx')
  <2>2. /\ u \in Nat /\ t = u + 1 /\ QueueSize \in Nat
        /\ \A i \in 1..u : i + 1 \in 1..t /\ tx'[i] = tx[i + 1]
        /\ mode' = ModeAfter(Told) /\ 1 \in 1..t
    BY <1>1, Types DEF Inv, Serves, Advances
  <2>3. ~ Asked("wakeup")' /\ Told # "wakeup"
    BY <2>1, <2>2 DEF Asked, Told
  <2>4. Fits'
    <3>1. s + u <= QueueSize
      <4>1. /\ IF Len(Pending) = r THEN s = r ELSE s = r + 1
            /\ r \in Nat
        BY TransferCounts
      <4>2. r + t <= QueueSize \/ (Len(Pending) = r /\ r + t <= QueueSize + 1)
        BY <2>1 DEF Fits
      <4> HIDE DEF t, u, r, s
      <4> QED BY <2>2, <4>1, <4>2
    <3> QED BY <3>1 DEF Fits
  <2>5. GoesToSleep'
    <3>1. mode = "asleep" => mode' = "asleep"
      BY <2>2, <2>3 DEF ModeAfter
    <3>2. CASE mode = "asleep"
      BY <3>1, <3>2 DEF GoesToSleep
    <3>3. CASE t = 1 /\ tx[1] = "sleep" /\ mode = "standby"
      <4>1. mode' = "asleep"
        BY <2>2, <3>3 DEF ModeAfter, Told
      <4> QED BY <4>1 DEF GoesToSleep
    <3>4. CASE t = 2 /\ tx[2] = "sleep" /\ tx[1] = "radio_reset"
      <4>1. mode' \in {"standby", "asleep"}
        BY <2>2, <3>4 DEF ModeAfter, Told
      <4>2. u = 1 /\ tx'[1] = "sleep"
        <5>1. u = 1
          <6>1. u \in Nat /\ t = u + 1 /\ t = 2
            BY <2>2, <3>4
          <6> HIDE DEF t, u
          <6> QED BY <6>1
        <5>2. 1 \in 1..u /\ 1 + 1 = 2
          BY <5>1
        <5>3. tx'[1] = tx[1 + 1]
          BY <2>2, <5>2
        <5> QED BY <3>4, <5>1, <5>2, <5>3
      <4> QED BY <4>1, <4>2 DEF GoesToSleep
    <3>5. CASE t >= 3 /\ tx[t] = "sleep" /\ tx[t - 1] = "radio_reset"
      <4>1. u >= 2 /\ u \in 1..u /\ u - 1 \in 1..u /\ (u - 1) + 1 = t - 1 /\ u + 1 = t
        BY <2>2, <3>5
      <4>2. tx'[u] = tx[t] /\ tx'[u - 1] = tx[t - 1]
        <5> DEFINE m == u - 1
        <5>1. m \in 1..u /\ m + 1 = t - 1
          BY <4>1
        <5> HIDE DEF m
        <5>2. tx'[m] = tx[t - 1]
          BY <2>2, <5>1
        <5> QED BY <2>2, <4>1, <5>2 DEF m
      <4> QED BY <3>5, <4>1, <4>2 DEF GoesToSleep
    <3>6. t = 2 => t - 1 = 1
      OBVIOUS
    <3>7. t >= 2 => t = 2 \/ t >= 3
      BY <2>2
    <3> QED BY <2>1, <3>2, <3>3, <3>4, <3>5, <3>6, <3>7 DEF GoesToSleep
  <2> QED BY <2>3, <2>4, <2>5
<1> QED BY <1>1, <1>2, <1>3, ServeKeepsLead, ServeKeepsSession DEF Counted

(* ... and those of a poll that finds an event. A command that continues a *)
(* chain takes the place of the event that it answers.                     *)
LEMMA PollCounts ==
    ASSUME Inv, Poll, HandleEvent
    PROVE  /\ Len(Pending') \in Nat /\ Len(Pending) = Len(Pending') + 1
           /\ Len(tx) \in Nat /\ Len(tx') \in Nat
           /\ Len(tx') = Len(tx) \/ Len(tx') = Len(tx) + 1
           /\ First \notin AfterConnected \cup AfterPipes => Len(tx') = Len(tx)
           /\ Len(rx') \in Nat /\ Len(rx) = Len(rx') + 1 /\ 1 \in 1..Len(rx)
           /\ Len(rx') <= Len(Pending')
<1>1. Shrinks /\ Replying
  BY PollEffect DEF Polls
<1>2. Len(tx) \in Nat /\ (tx' = tx \/ Len(tx') = Len(tx) + 1)
  BY <1>1, Types DEF Inv, Replying
<1>3. First \notin AfterConnected \cup AfterPipes => Len(tx') = Len(tx)
  <2> SUFFICES ASSUME First \notin AfterConnected \cup AfterPipes, Len(tx') = Len(tx) + 1
               PROVE  FALSE
    BY <1>2
  <2> DEFINE k == Len(tx')
  <2>1. k \in 1..Len(tx') /\ k > Len(tx)
    BY <1>2
  <2> HIDE DEF k
  <2> QED BY <1>1, <2>1 DEF Replying, AfterConnected, AfterPipes
<1>4. rx \in Seq(Event) /\ rx # <<>> /\ rx' = Tail(rx)
  BY DEF Inv, TypeOK, HandleEvent
<1>5. Len(rx') \in Nat /\ Len(rx) = Len(rx') + 1 /\ 1 \in 1..Len(rx)
  <2> HIDE DEF Event
  <2> QED BY <1>4
<1>6. /\ Len(Pending') \in Nat /\ Len(Pending) = Len(Pending') + 1
      /\ Len(rx) <= Len(Pending)
  BY <1>1, ReadIsPending DEF Shrinks, Inv
<1>7. Len(rx') <= Len(Pending')
  BY <1>5, <1>6
<1> QED BY <1>1, <1>2, <1>3, <1>5, <1>6, <1>7 DEF Shrinks

LEMMA PollSome ==
    ASSUME Inv, Poll, HandleEvent, NEW types,
           NEW m \in 0..Len(Pending'), NEW n \in 1..Len(Pending), n = m + 1
    PROVE  /\ Some(types, m)' \in {0, 1} /\ Some(types, n) \in {0, 1}
           /\ Some(types, m)' <= Some(types, n)
           /\ First \in types => Some(types, n) = 1
           /\ First \in types /\ AtMostOne(types) => Some(types, m)' = 0
<1>1. Shrinks /\ Polls
  BY PollEffect DEF Polls
<1>2. Some(types, m)' \in {0, 1} /\ Some(types, n) \in {0, 1}
  BY DEF Some
<1>3. \A i \in 1..m : i \in 1..Len(Pending') /\ i + 1 \in 1..n /\ Pending'[i] = Pending[i + 1]
  <2>1. Len(Pending') \in Nat /\ Len(Pending) = Len(Pending') + 1
    BY <1>1 DEF Shrinks
  <2>2. \A i \in 1..m : i \in 1..Len(Pending') /\ i + 1 \in 1..n
    BY <2>1
  <2> QED BY <1>1, <2>2 DEF Shrinks
<1>4. Some(types, m)' <= Some(types, n)
  <2>1. (\E i \in 1..m : Pending'[i].type \in types)
            => (\E i \in 1..n : Pending[i].type \in types)
    BY <1>3
  <2> QED BY <2>1 DEF Some
<1>5. First \in types => Some(types, n) = 1
  <2>1. 1 \in 1..n
    OBVIOUS
  <2> QED BY <2>1 DEF Some, First
<1>6. First \in types /\ AtMostOne(types) => Some(types, m)' = 0
  <2> SUFFICES ASSUME First \in types, AtMostOne(types)
               PROVE  \A i \in 1..m : Pending'[i].type \notin types
    BY DEF Some
  <2>1. ~ Has(types)'
    BY <1>1, PollPhases
  <2> QED BY <1>3, <2>1 DEF Has
<1> QED BY <1>2, <1>4, <1>5, <1>6

LEMMA PollChains ==
    ASSUME Inv, Poll, HandleEvent, NEW m \in 0..Len(Pending'), NEW n \in 1..Len(Pending), n = m + 1,
           AtMostOne(AfterConnected), AtMostOne(AfterPipes)
    PROVE  Len(tx') + Some(AfterConnected, m)' + Some(AfterPipes, m)'
               <= Len(tx) + Some(AfterConnected, n) + Some(AfterPipes, n)
<1> DEFINE t == Len(tx)
           u == Len(tx')
           a == Some(AfterConnected, n)
           b == Some(AfterPipes, n)
           c == Some(AfterConnected, m)'
           d == Some(AfterPipes, m)'
<1>1. /\ t \in Nat /\ (u = t \/ u = t + 1)
      /\ First \notin AfterConnected \cup AfterPipes => u = t
  BY PollCounts
<1>2. /\ a \in {0, 1} /\ c \in {0, 1} /\ c <= a
      /\ First \in AfterConnected => a = 1 /\ c = 0
  BY PollSome
<1>3. /\ b \in {0, 1} /\ d \in {0, 1} /\ d <= b
      /\ First \in AfterPipes => b = 1 /\ d = 0
  BY PollSome
<1> HIDE DEF t, u, a, b, c, d
<1>4. u + c + d <= t + a + b
  BY <1>1, <1>2, <1>3
<1> QED BY <1>4 DEF t, u, a, b, c, d

LEMMA PollKeepsLead ==
    ASSUME Inv, Counted, Poll, HandleEvent
    PROVE  Introduced' /\ BehindAnswer' /\ Advertised'
<1> DEFINE p == Len(Pending)
           q == Len(Pending')
           t == Len(tx)
           u == Len(tx')
<1>1. /\ Polls /\ Shrinks /\ UNCHANGED <<mode, link, before>>
  BY PollEffect DEF Polls
<1>2. /\ q \in Nat /\ p = q + 1 /\ t \in Nat /\ u \in Nat
      /\ u = t \/ u = t + 1
      /\ First \notin AfterConnected \cup AfterPipes => u = t
      /\ Len(rx') \in Nat /\ Len(rx) = Len(rx') + 1
  BY PollCounts
<1>3. /\ Answered' => Answered /\ First \notin Reports /\ First # "connect_rsp"
      /\ First = "connect_rsp" => Answered
      /\ Heard' /\ status' = "ADVERTISING" =>
            \/ First = "connect_rsp"
            \/ Heard /\ status = "ADVERTISING" /\ First \notin {"connect_rsp", "connected"}
  <2>1. Answered' => Answered /\ First \notin Reports /\ First # "connect_rsp"
    BY <1>1, PollPhases
  <2>2. First = "connect_rsp" => Answered
    BY <1>1, PollPhases
  <2>3. Heard' /\ status' = "ADVERTISING" /\ First # "connect_rsp" => Heard
    BY <1>1, PollPhases
  <2>4. status' = "ADVERTISING" /\ First # "connect_rsp"
            => status = "ADVERTISING" /\ First \notin {"connect_rsp", "connected"}
    BY <1>1 DEF Polls
  <2> QED BY <2>1, <2>2, <2>3, <2>4
<1>4. Introduced'
  <2> SUFFICES ASSUME link > before, Answered' \/ (Heard' /\ status' = "ADVERTISING")
               PROVE  /\ mode = "connected"
                      /\ ~ Has({"version_rsp"})'
                      /\ \E i, j \in 1..q :
                            i < j /\ Pending'[i].type = "connected" /\ Pending'[j].type = "pipes"
                      /\ u <= 1
                      /\ \A i \in 1..Len(rx') : Pending'[i].type = "connected" => u = 0
    BY <1>1 DEF Introduced
  <2>1. Answered \/ (Heard /\ status = "ADVERTISING")
    BY <1>3
  <2>2. /\ mode = "connected" /\ ~ Has({"version_rsp"}) /\ t <= 1
        /\ \E i, j \in 1..p :
              i < j /\ Pending[i].type = "connected" /\ Pending[j].type = "pipes"
        /\ \A i \in 1..Len(rx) : Pending[i].type = "connected" => t = 0
    BY <2>1 DEF Counted, Introduced
  <2>3. PICK i, j \in 1..p :
            i < j /\ Pending[i].type = "connected" /\ Pending[j].type = "pipes"
    BY <2>2
  <2>4. First # "connected" /\ First \notin AfterPipes
    <3>1. CASE Answered'
      BY <1>3, <3>1 DEF Reports, OfLink, AfterPipes
    <3>2. CASE First = "connect_rsp"
      BY <3>2 DEF AfterPipes
    <3>3. CASE Heard /\ status = "ADVERTISING" /\ First \notin {"connect_rsp", "connected"}
      <4>1. AtMostOne(AfterPipes)
        BY <3>3 DEF Inv, CommandsFit
      <4>2. j # 1 /\ 1 \in 1..p
        BY <1>1, <2>3 DEF Shrinks
      <4>3. First \notin AfterPipes
        BY <2>3, <4>1, <4>2 DEF AtMostOne, AfterPipes, First
      <4> QED BY <3>3, <4>3
    <3> QED BY <1>3, <3>1, <3>2, <3>3
  <2>5. First # "version_rsp" /\ ~ Has({"version_rsp"})'
    BY <1>1, <2>2, PollPhases
  <2>6. u = t
    BY <1>2, <2>4, <2>5 DEF AfterConnected
  <2>7. \E k, l \in 1..q :
            k < l /\ Pending'[k].type = "connected" /\ Pending'[l].type = "pipes"
    <3>1. i # 1 /\ j # 1
      BY <2>3, <2>4 DEF First
    <3> DEFINE k == i - 1
               l == j - 1
    <3>2. k \in 1..q /\ l \in 1..q /\ Pending'[k] = Pending[i] /\ Pending'[l] = Pending[j]
      BY <1>1, <3>1 DEF Shrinks
    <3>3. k < l
      BY <2>3
    <3> HIDE DEF k, l
    <3> QED BY <2>3, <3>2, <3>3
  <2>8. ASSUME NEW k \in 1..Len(rx'), Pending'[k].type = "connected" PROVE u = 0
    <3>1. k \in 1..q
      <4>1. Len(rx') <= q
        BY PollCounts
      <4> QED BY <1>2, <4>1
    <3>2. k + 1 \in 1..Len(rx) /\ Pending'[k] = Pending[k + 1]
      BY <1>1, <1>2, <3>1 DEF Shrinks
    <3>3. Pending[k + 1].type = "connected"
      BY <2>8, <3>2
    <3> QED BY <2>2, <2>6, <3>2, <3>3
  <2> QED BY <1>2, <2>2, <2>5, <2>6, <2>7, <2>8
<1>5. BehindAnswer'
  <2> SUFFICES ASSUME NEW i \in 1..q, Pending'[i].type = "connect_rsp"
               PROVE  q - i + u + Some({"version_rsp"}, Len(Pending))'
                          <= IF link = before THEN 1 ELSE 3
    BY <1>1 DEF BehindAnswer
  <2> DEFINE s == Some({"version_rsp"}, Len(Pending))
             v == Some({"version_rsp"}, Len(Pending))'
             k == i + 1
  <2>1. Answered' /\ Answered /\ First \notin Reports
    BY <1>3 DEF Answered, Has
  <2>2. k \in 1..p /\ Pending[k].type = "connect_rsp"
    BY <1>1 DEF Shrinks
  <2>3. p - k + t + s <= IF link = before THEN 1 ELSE 3
    <3> HIDE DEF k
    <3> QED BY <2>2 DEF Counted, BehindAnswer
  <2>4. /\ v \in {0, 1} /\ s \in {0, 1} /\ v <= s
        /\ First = "version_rsp" => s = 1 /\ v = 0
    <3>1. AtMostOne({"version_rsp"})
      BY <2>1 DEF Inv, OneVersion
    <3>2. p \in 1..Len(Pending) /\ q \in 0..Len(Pending') /\ p = q + 1
      BY <1>2
    <3> QED BY <3>1, <3>2, PollSome
  <2>5. First \in AfterConnected \cup AfterPipes => First = "version_rsp"
    BY <2>1 DEF Reports, OfLink, AfterConnected, AfterPipes
  <2> HIDE DEF s, v
  <2>6. q - i + u + v <= IF link = before THEN 1 ELSE 3
    BY <1>2, <2>3, <2>4, <2>5
  <2> QED BY <2>6 DEF v
<1>6. Advertised'
  <2> SUFFICES ASSUME Heard', status' = "ADVERTISING"
               PROVE  q + u <= IF link = before THEN 1 ELSE 3
    BY <1>1 DEF Advertised
  <2>1. CASE First = "connect_rsp"
    <3> DEFINE s == Some({"version_rsp"}, Len(Pending))
    <3>1. p - 1 + t + s <= IF link = before THEN 1 ELSE 3
      BY <1>1, <2>1 DEF Counted, BehindAnswer, Shrinks, First
    <3>2. s \in {0, 1}
      BY SomeCounts
    <3>3. u = t
      BY <1>2, <2>1 DEF AfterConnected, AfterPipes
    <3> HIDE DEF s, p, q, t, u
    <3> QED BY <1>2, <3>1, <3>2, <3>3
  <2>2. CASE Heard /\ status = "ADVERTISING"
    <3>1. p + t <= IF link = before THEN 1 ELSE 3
      BY <2>2 DEF Counted, Advertised
    <3> QED BY <1>2, <3>1
  <2> QED BY <1>3, <2>1, <2>2
<1> QED BY <1>4, <1>5, <1>6

LEMMA PollKeepsSession ==
    ASSUME Inv, Counted, Poll, HandleEvent
    PROVE  InConnection' /\ Ending' /\ Ended'
<1> DEFINE p == Len(Pending)
           q == Len(Pending')
           t == Len(tx)
           u == Len(tx')
<1>1. /\ Polls /\ Shrinks /\ UNCHANGED <<mode, link, before>>
      /\ pc' = "hangup" <=> pc = "hangup"
  BY PollEffect DEF Polls
<1>2. /\ q \in Nat /\ p = q + 1 /\ t \in Nat /\ u \in Nat
      /\ u = t \/ u = t + 1
      /\ First \notin AfterConnected \cup AfterPipes => u = t
      /\ Len(rx') \in Nat /\ Len(rx) = Len(rx') + 1
      /\ 1 \in 1..Len(rx) /\ 1 \in 1..p /\ p \in 1..p /\ q \in 0..q
  BY PollCounts
<1>3. Most' = Most /\ Most \in 2..3 /\ (pc # "hangup" => Most = 2)
  BY <1>1 DEF Most
<1>4. ASSUME ~ Heard' PROVE InConnection' /\ Ending' /\ Ended'
  BY <1>4 DEF InConnection, Ending, Ended
<1>5. CASE Heard' /\ ~ Heard
  <2>1. Answered /\ First = "connect_rsp" /\ status' = "ADVERTISING"
    BY <1>1, <1>5, PollPhases DEF Polls
  <2>2. ~ Has({"disconnected"})'
    <3>1. ~ Has({"disconnected"})
      BY <2>1, NotOver
    <3> QED BY <1>1, <3>1, PollPhases
  <2>3. InConnection' /\ Ended'
    BY <2>1 DEF InConnection, Ended
  <2>4. Ending'
    BY <2>2 DEF Ending, Has
  <2> QED BY <2>3, <2>4
<1>6. CASE Heard' /\ Heard
  <2>1. /\ AtMostOne(AfterConnected) /\ AtMostOne(AfterPipes)
        /\ link = before => ~ Has(AfterConnected \cup AfterPipes)
        /\ First \notin Woken \cup {"connect_rsp"}
        /\ pc \in {"hangup", "receive"}
    <3>1. First \notin Woken \cup {"connect_rsp"} /\ pc \in {"hangup", "receive"}
      BY <1>1, <1>6, PollPhases
    <3>2. /\ AtMostOne(AfterConnected) /\ AtMostOne(AfterPipes)
          /\ link = before => ~ Has(AfterConnected \cup AfterPipes)
      BY <1>6 DEF Inv, CommandsFit
    <3> QED BY <3>1, <3>2
  <2>2. InConnection'
    <3> SUFFICES ASSUME status' = "CONNECTED", mode = "connected"
                 PROVE  u + Some(AfterConnected, Len(Pending))'
                            + Some(AfterPipes, Len(Pending))' <= Most
      BY <1>1, <1>3 DEF InConnection
    <3> DEFINE a == Some(AfterConnected, p)
               b == Some(AfterPipes, p)
               c == Some(AfterConnected, Len(Pending))'
               d == Some(AfterPipes, Len(Pending))'
    <3>1. CASE status = "CONNECTED"
      <4>1. t + a + b <= Most
        BY <1>6, <3>1 DEF Counted, InConnection
      <4>2. u + c + d <= t + a + b
        BY <1>2, <2>1, PollChains
      <4>3. a \in {0, 1} /\ b \in {0, 1} /\ c \in {0, 1} /\ d \in {0, 1}
        BY DEF Some
      <4> HIDE DEF p, q, t, u, a, b, c, d
      <4>4. u + c + d <= Most
        BY <1>2, <1>3, <4>1, <4>2, <4>3
      <4> QED BY <4>4 DEF u, c, d
    <3>2. CASE status # "CONNECTED"
      <4>1. First = "connected"
        BY <1>1, <3>2 DEF Polls
      <4>2. Has({"connected"}) /\ Has(AfterConnected)
        BY <1>1, <4>1, PollPhases DEF AfterConnected
      <4>3. status = "ADVERTISING"
        <5>1. Follows(status)
          BY <1>6 DEF Inv, StatusFollows
        <5>2. status = "STANDBY" => ~ Has({"connected", "disconnected"})
          BY <5>1 DEF Follows
        <5>3. ~ Has({"connected", "disconnected"}) => ~ Has({"connected"})
          BY DEF Has
        <5> QED BY <3>2, <4>2, <5>1, <5>2, <5>3 DEF Follows
      <4>4. link > before
        <5>1. link >= before /\ link \in Nat /\ before \in Nat
          BY Types DEF Inv, LinksInOrder
        <5>2. link # before
          BY <2>1, <4>2 DEF Has
        <5> QED BY <5>1, <5>2
      <4>5. t = 0
        BY <1>2, <1>6, <4>1, <4>3, <4>4 DEF Counted, Introduced, First
      <4>6. c = 0
        <5>1. First \in AfterConnected
          BY <4>1 DEF AfterConnected
        <5> QED BY <1>2, <2>1, <5>1, PollSome
      <4>7. d \in {0, 1}
        BY DEF Some
      <4> HIDE DEF t, u, c, d
      <4>8. u + c + d <= Most
        BY <1>2, <1>3, <4>5, <4>6, <4>7
      <4> QED BY <4>8 DEF u, c, d
    <3> QED BY <3>1, <3>2
  <2>3. Ending'
    <3> SUFFICES ASSUME NEW i \in 1..q, Pending'[i].type = "disconnected"
                 PROVE  /\ q - i + u + Some(AfterConnected, i - 1)' + Some(AfterPipes, i - 1)'
                               <= Most
                        /\ pc # "hangup" => i <= 2
                        /\ i <= Len(rx') =>
                              u + Some(AfterConnected, i - 1)' + Some(AfterPipes, i - 1)'
                                  <= Most - 1
      BY <1>1, <1>3 DEF Ending
    <3> DEFINE a == Some(AfterConnected, i)
               b == Some(AfterPipes, i)
               c == Some(AfterConnected, i - 1)'
               d == Some(AfterPipes, i - 1)'
               k == i + 1
    <3>1. k \in 1..p /\ Pending[k].type = "disconnected" /\ k - 1 = i
      BY <1>1 DEF Shrinks
    <3>2. /\ p - k + t + a + b <= Most
          /\ pc # "hangup" => k <= 2
          /\ k <= Len(rx) => t + a + b <= Most - 1
      <4>1. \A j \in 1..p : Pending[j].type = "disconnected" =>
                /\ p - j + t + Some(AfterConnected, j - 1) + Some(AfterPipes, j - 1) <= Most
                /\ pc # "hangup" => j <= 2
                /\ j <= Len(rx) =>
                      t + Some(AfterConnected, j - 1) + Some(AfterPipes, j - 1) <= Most - 1
        BY <1>6 DEF Counted, Ending
      <4> HIDE DEF k
      <4> QED BY <3>1, <4>1
    <3>3. u + c + d <= t + a + b
      <4>1. i \in 1..p /\ i - 1 \in 0..q /\ i = (i - 1) + 1
        BY <1>2
      <4> QED BY <2>1, <4>1, PollChains
    <3>4. a \in {0, 1} /\ b \in {0, 1} /\ c \in {0, 1} /\ d \in {0, 1}
      BY DEF Some
    <3> DEFINE r == Len(rx)
               s == Len(rx')
    <3>5. r = s + 1 /\ s \in Nat /\ i \in Nat
      BY <1>2
    <3> HIDE DEF p, q, t, u, a, b, c, d, r, s
    <3>6. /\ q - i + u + c + d <= Most
          /\ pc # "hangup" => i <= 2
          /\ i <= s => u + c + d <= Most - 1
      <4>1. k <= r => t + a + b <= Most - 1
        BY <3>2 DEF r
      <4> QED BY <1>2, <1>3, <3>2, <3>3, <3>4, <3>5, <4>1
    <3> QED BY <3>6 DEF q, u, c, d, s
  <2>4. Ended'
    <3> SUFFICES ASSUME status' = "STANDBY" PROVE u <= 2 /\ q + u <= Most
      BY <1>1, <1>3 DEF Ended
    <3>1. CASE First = "disconnected"
      <4> DEFINE a == Some(AfterConnected, 0)
                 b == Some(AfterPipes, 0)
      <4>1. p - 1 + t + a + b <= Most /\ t + a + b <= Most - 1
        <5>1. \A j \in 1..p : Pending[j].type = "disconnected" =>
                  /\ p - j + t + Some(AfterConnected, j - 1) + Some(AfterPipes, j - 1) <= Most
                  /\ j <= Len(rx) =>
                        t + Some(AfterConnected, j - 1) + Some(AfterPipes, j - 1) <= Most - 1
          BY <1>6 DEF Counted, Ending
        <5>2. 1 - 1 = 0 /\ 1 <= Len(rx) /\ Pending[1].type = "disconnected"
          BY <1>2, <3>1 DEF First
        <5> QED BY <1>2, <5>1, <5>2
      <4>2. a \in {0, 1} /\ b \in {0, 1}
        BY DEF Some
      <4>3. u = t
        BY <1>2, <3>1 DEF AfterConnected, AfterPipes
      <4> HIDE DEF p, q, t, u, a, b
      <4> QED BY <1>2, <1>3, <4>1, <4>2, <4>3
    <3>2. CASE First # "disconnected"
      <4>1. status = "STANDBY" /\ pc = "receive"
        BY <1>1, <2>1, <3>2 DEF Polls, Woken
      <4>2. t <= 2 /\ p + t <= 2
        BY <1>3, <1>6, <4>1 DEF Counted, Ended
      <4> HIDE DEF p, q, t, u
      <4> QED BY <1>2, <1>3, <4>2
    <3> QED BY <3>1, <3>2
  <2> QED BY <2>2, <2>3, <2>4
<1> QED BY <1>4, <1>5, <1>6

LEMMA PollKeepsCounts ==
    ASSUME Inv, Counted, Poll, HandleEvent
    PROVE  Counted'
<1>1. Polls
  BY PollEffect
<1>2. HangupStatus'
  <2> SUFFICES ASSUME pc' = "hangup" PROVE status' \in {"CONNECTED", "STANDBY"}
    BY DEF HangupStatus
  <2>1. pc = "hangup" /\ status \in {"CONNECTED", "STANDBY"}
    BY <1>1 DEF Polls, Counted, HangupStatus
  <2>2. First # "connect_rsp"
    <3>1. ~ Answered
      BY <2>1 DEF Inv, OneConnect
    <3> QED BY <1>1, <3>1, PollPhases
  <2> QED BY <1>1, <2>1, <2>2 DEF Polls
<1>3. AtRest'
  BY <1>1 DEF Polls, AtRest
<1> QED BY <1>2, <1>3, PollKeepsLead, PollKeepsSession DEF Counted

LEMMA EmptyTransferKeepsCounts ==
    ASSUME Inv, Inv', Counted, Transfer, tx = <<>>
    PROVE  Counted'
  BY EmptyTransferKeeps, QuietKeepsCounts

LEMMA InitCounted ==
    ASSUME QueueSize >= 4, Init
    PROVE  Counted
<1>1. /\ tx = <<"radio_reset", "sleep">> /\ rx = <<>> /\ pc = "home" /\ mode = "standby"
      /\ QueueSize \in Nat
  BY ParametersAssumption DEF Init
<1>2. Len(tx) = 2 /\ tx[1] = "radio_reset" /\ tx[2] = "sleep" /\ Len(rx) = 0
  BY <1>1, EmptySeq
<1>3. ~ Heard /\ ~ Answered
  BY <1>1, InitInv DEF Heard, Inv, OneConnect
<1>4. AtRest
  <2>1. Fits
    BY <1>1, <1>2 DEF Fits
  <2>2. GoesToSleep /\ ~ Asked("wakeup")
    BY <1>2 DEF GoesToSleep, Asked
  <2> QED BY <2>1, <2>2 DEF AtRest
<1>5. BehindAnswer
  BY <1>3 DEF BehindAnswer, Answered, Has
<1> QED BY <1>1, <1>3, <1>4, <1>5 DEF Counted, HangupStatus, Introduced, Advertised,
                                      InConnection, Ending, Ended

LEMMA NextKeepsCounts ==
    ASSUME QueueSize >= 4, MaxUnread <= 2, Inv, Inv', FewOnTheWay, [Next]_vars
    PROVE  FewOnTheWay'
<1> SUFFICES ASSUME ~ early' PROVE Counted'
  BY DEF FewOnTheWay
<1>1. CASE PhoneConnects \/ PhoneSends \/ PhoneHangsUp
  <2>1. ~ early /\ ~ (Len(Pending) >= MaxUnread)
    BY <1>1 DEF PhoneConnects, PhoneSends, PhoneHangsUp, PhoneActs
  <2>2. Len(Pending) <= 1
    <3>1. Len(Pending) \in Nat /\ MaxUnread \in Nat
      BY ParametersAssumption, Types DEF Inv
    <3> DEFINE p == Len(Pending)
    <3> HIDE DEF p
    <3> QED BY <2>1, <3>1 DEF p
  <2> QED BY <1>1, <2>1, <2>2, PhoneConnectsKeepsCounts, PhoneSaysKeepsCounts DEF FewOnTheWay
<1>2. CASE Transfer
  <2>1. Counted
    BY <1>2 DEF Transfer, phone, FewOnTheWay
  <2> QED BY <1>2, <2>1, ServeKeepsCounts, EmptyTransferKeepsCounts
<1>3. CASE Wake \/ Advertise
  <2>1. pc' = "wake" \/ (Advertise /\ pc = "wake")
    BY <1>3 DEF Wake, Advertise
  <2> QED BY <2>1, WakeKeepsCounts
<1>4. CASE SleepDisconnects \/ SleepResets
  <2>1. Counted
    BY <1>4 DEF SleepDisconnects, SleepResets, phone, FewOnTheWay
  <2> QED BY <1>4, <2>1, SleepDisconnectsKeepsCounts, SleepResetsKeepsCounts
<1>5. CASE Poll /\ HandleEvent
  <2>1. Counted
    BY <1>5 DEF Poll, phone, FewOnTheWay
  <2> QED BY <1>5, <2>1, PollKeepsCounts
<1>6. CASE /\ ~ Transfer /\ ~ PhoneConnects /\ ~ PhoneSends /\ ~ PhoneHangsUp
           /\ ~ Wake /\ ~ Advertise /\ ~ SleepDisconnects /\ ~ SleepResets
           /\ ~ (Poll /\ HandleEvent)
  <2>1. Quiet /\ (Moves \/ Takes) /\ UNCHANGED <<rx, early>>
    BY <1>6, QuietSteps, QuietCounts
  <2>2. Counted
    BY <2>1 DEF FewOnTheWay
  <2> QED BY <2>1, <2>2, QuietKeepsCounts
<1> QED BY <1>1, <1>2, <1>3, <1>4, <1>5, <1>6

(* A queue that stops has nothing left for the radio to be told.           *)
LEMMA RestIsSleep ==
    ASSUME Inv, FewOnTheWay, QueueSize >= 4
    PROVE  AsleepAtHome
<1> SUFFICES ASSUME pc \in {"result", "home"}, ~ CanTransfer, ~ early
             PROVE  mode = "asleep"
  BY DEF AsleepAtHome
<1> DEFINE t == Len(tx)
           r == Len(rx)
<1>1. Fits /\ GoesToSleep
  BY DEF FewOnTheWay, Counted, AtRest
<1>2. t \in Nat /\ r \in Nat /\ QueueSize \in Nat
  BY ReadIsPending, Types DEF Inv
<1>3. t = 0
  <2> SUFFICES ASSUME t # 0 PROVE FALSE
    OBVIOUS
  <2>1. tx # <<>>
    BY EmptySeq
  <2>2. ~ (r < QueueSize)
    BY <2>1 DEF CanTransfer
  <2>3. \/ r + t <= QueueSize
        \/ t >= 2 /\ r + t <= QueueSize + 1
    BY <1>1 DEF Fits
  <2> HIDE DEF t, r
  <2> QED BY <1>2, <2>2, <2>3
<1> QED BY <1>1, <1>3 DEF GoesToSleep

-----------------------------------------------------------------------------
(* What the sessions promise. ACI_QUEUE_SIZE is 4: with queues of one or   *)
(* two packets commands are dropped that the program counts on.            *)

(* Every variable of src.ino, bluetooth.cpp and their radio keeps to its   *)
(* type, and neither queue ever holds more than ACI_QUEUE_SIZE packets.    *)
THEOREM BluetoothTypeCorrect ==
    ASSUME QueueSize >= 4
    PROVE  Spec => []TypeOK
<1>1. Inv => TypeOK
  BY DEF Inv
<1> QED BY <1>1, InvHolds, PTL

(* get_and_store_waypoints never hears of an earlier connection: what the  *)
(* radio reported of it was polled away by bluetooth_advertise, which      *)
(* waits for the answer that is queued behind it.                          *)
THEOREM SessionsHearNothingStale ==
    ASSUME QueueSize >= 4
    PROVE  Spec => []NoStaleEvents
<1>1. Inv => NoStaleEvents
  BY DEF Inv, ReportsAreFresh, Reports, OfLink, Heard, InLoop, NoStaleEvents
<1> QED BY <1>1, InvHolds, PTL

(* Once bluetooth_poll has read all that the radio had to say, the status  *)
(* that get_and_store_waypoints goes by is the radio's mode: a connection  *)
(* that came or went is never missed.                                      *)
THEOREM StatusIsTheRadios ==
    ASSUME QueueSize >= 4
    PROVE  Spec => []StatusIsMode
<1>1. Inv => StatusIsMode
  <2> SUFFICES ASSUME Inv, InLoop, Pending = <<>>
               PROVE  mode = CASE status = "STANDBY"     -> "standby"
                               [] status = "ADVERTISING" -> "advertising"
                               [] status = "CONNECTED"   -> "connected"
                               [] OTHER                  -> "asleep"
    BY DEF StatusIsMode
  <2>1. Follows(status)
    BY DEF Inv, StatusFollows, Heard, InLoop
  <2>2. /\ \A types : ~ Has(types)
        /\ \A i \in 1..Len(Pending) : FALSE
    BY EmptySeq DEF Has
  <2> QED BY <2>1, <2>2 DEF Follows
<1> QED BY <1>1, InvHolds, PTL

(* Of the messages that a phone sends in a session, none is lost between   *)
(* two that get_and_store_waypoints takes, none is taken twice and none    *)
(* overtakes another, though uart_buffer holds only one.                   *)
THEOREM MessagesAreTakenInOrder ==
    ASSUME QueueSize >= 4
    PROVE  Spec => []MessagesInOrder
<1>1. Inv => MessagesInOrder
  BY DEF Inv
<1> QED BY <1>1, InvHolds, PTL

(* A message that an earlier session left in uart_buffer is taken at most  *)
(* once, as the first of a session.                                        *)
THEOREM OneStaleMessage ==
    ASSUME QueueSize >= 4
    PROVE  Spec => []OneStaleAtMost
<1>1. Inv => OneStaleAtMost
  BY DEF Inv
<1> QED BY <1>1, InvHolds, PTL

(* The sessions ask of the transport only what AciLink, and so             *)
(* hal_aci_tl.cpp, provides: they queue commands behind the others and     *)
(* never more than fit, take events from the front, and leave the rest to  *)
(* transfers that take place while there is room for an event.             *)
THEOREM SessionsUseLink ==
    ASSUME QueueSize >= 4
    PROVE  Spec => Link!Spec
<1>1. Init => Link!Init
  <2> SUFFICES ASSUME Init PROVE Link!Init
    OBVIOUS
  <2>1. TypeOK
    BY InitInv DEF Inv
  <2>2. tx \in Seq(Command) /\ Len(tx) <= QueueSize /\ waiting \in Seq(Event) /\ rx = <<>>
    BY <2>1 DEF TypeOK, Init
  <2> HIDE DEF Command, Event
  <2> QED BY <2>2, Zenon DEF Link!Init
<1>2. Inv /\ Inv' /\ [Next]_vars => [Link!Next]_(Link!vars)
  BY NextIsLinks
<1> QED BY <1>1, <1>2, InvHolds, PTL DEF Spec, Link!Spec

(* What get_and_store_waypoints stores is the path of its own phone, all   *)
(* of it, point by point, however the phone and the radio are interleaved  *)
(* with it, but for the one case that session_stale shows: its first       *)
(* message was left over from an earlier session.                          *)
THEOREM FreshPathsAreStored ==
    ASSUME QueueSize >= 4
    PROVE  Spec => FreshPathStored
<1>1. Init => Writing /\ FromTheFirst
  BY DEF Init, Store!Init, Writing, FromTheFirst
<1>2. Inv /\ Inv' /\ Writing /\ FromTheFirst /\ [Next]_vars => Writing' /\ FromTheFirst'
  BY WritingKept, FromTheFirstKept
<1>3. Inv /\ Writing /\ FromTheFirst /\ [Next]_vars
        => [Succeed /\ taken[1].link > before => path' = PathOf(before + 1)]_vars
  BY SucceedStores
<1> QED BY <1>1, <1>2, <1>3, InvHolds, PTL DEF Spec, FreshPathStored

(* However a session ends, the radio is reset and put to sleep after it,   *)
(* though bluetooth_sleep ignores what lib_aci_sleep returns: the queues   *)
(* have room for both commands and for what they bring, as long as no      *)
(* phone acts with two events of it still unread.                          *)
THEOREM RadioSleepsAtHome ==
    ASSUME QueueSize >= 4, MaxUnread <= 2
    PROVE  Spec => []AsleepAtHome
<1>1. Init => FewOnTheWay
  BY InitCounted DEF FewOnTheWay
<1>2. Inv /\ Inv' /\ FewOnTheWay /\ [Next]_vars => FewOnTheWay'
  BY NextKeepsCounts
<1>3. Inv /\ FewOnTheWay => AsleepAtHome
  BY RestIsSleep
<1> QED BY <1>1, <1>2, <1>3, InvHolds, PTL DEF Spec

=============================================================================
