---------------------------- MODULE AciSetupProofs ----------------------------
(***************************************************************************)
(* That a setup reaches the chip in one piece, proved for every number of  *)
(* messages and every size of the queues, with attempts that time out at   *)
(* any moment and answers that arrive at any later one.                    *)
(*                                                                         *)
(* AttemptIsWhole is inductive next to the types: an attempt begins with   *)
(* an empty queue, and from then on the newest message queued is the one   *)
(* at the offset. The types need to know that the answer which made the    *)
(* program queue more messages is still there when it is taken.            *)
(***************************************************************************)
EXTENDS AciSetup, SequenceTheorems, TLAPS

(* An answer that is being acted on is still in the queue.                 *)
AnswerKept == pc = "refill" => rx # <<>>

Inv == TypeOK /\ AttemptIsWhole /\ AnswerKept

LEMMA InitInv == Init => Inv
<1> SUFFICES ASSUME Init PROVE Inv
  OBVIOUS
<1>1. <<"setup_started">> \in Seq(Event) /\ <<"standby_started">> \in Seq(Event)
  BY DEF Event
<1>2. waiting \in Seq(Event)
  BY <1>1, Zenon DEF Init
<1>3. tx \in Seq(Command) /\ rx \in Seq(Event) /\ Len(tx) = 0 /\ Len(rx) = 0
  BY DEF Init
<1>4. mode \in {"setup", "standby", "asleep"}
  BY DEF Init
<1>5. setupRequired \in BOOLEAN /\ timedOut \in BOOLEAN
  BY Zenon DEF Init
<1>6. 0 \in 0..NumMessages /\ 0 <= QueueSize
  BY SetupAssumption
<1>7. TypeOK
  BY <1>2, <1>3, <1>4, <1>5, <1>6, Zenon DEF Init, TypeOK
<1> QED
  BY <1>7 DEF Init, Inv, AttemptIsWhole, AnswerKept

LEMMA AnswerType ==
    ASSUME TypeOK, NEW c \in Command
    PROVE  /\ Answer(c) \in Seq(Event)
           /\ AcceptedAfter(c) \in 0..NumMessages
           /\ ModeAfter(c) \in {"setup", "standby", "asleep"}
<1>1. c.number \in 0..NumMessages
  BY SetupAssumption DEF Command
<1>2. accepted \in 0..NumMessages /\ 0 \in 0..NumMessages
  BY SetupAssumption DEF TypeOK
<1>3. AcceptedAfter(c) \in 0..NumMessages
  BY <1>1, <1>2, Zenon DEF AcceptedAfter
<1>4. ModeAfter(c) \in {"setup", "standby", "asleep"}
  BY Zenon DEF TypeOK, ModeAfter
<1>5. /\ <<>> \in Seq(Event) /\ <<"continue_rsp">> \in Seq(Event)
      /\ <<"complete_rsp", "standby_started">> \in Seq(Event)
      /\ <<"other_rsp">> \in Seq(Event) /\ <<"error_rsp">> \in Seq(Event)
  BY DEF Event
<1>6. Answer(c) \in Seq(Event)
  BY <1>5, Zenon DEF Answer
<1> QED
  BY <1>3, <1>4, <1>6

(* A transfer takes the oldest command away, which leaves the newest one   *)
(* where it is.                                                            *)
LEMMA TransferInv == Inv /\ Transfer => Inv'
<1> SUFFICES ASSUME Inv, Transfer PROVE Inv'
  OBVIOUS
<1> USE SetupAssumption DEF Inv
<1>1. tx' \in Seq(Command) /\ Len(tx') <= QueueSize
  BY DEF TypeOK, Transfer, Rest
<1>2. rx' \in Seq(Event) /\ Len(rx') <= QueueSize
  BY DEF TypeOK, Transfer
<1>3. Rest(waiting) \in Seq(Event)
  BY DEF TypeOK, Rest
<1>4. /\ waiting' \in Seq(Event)
      /\ accepted' \in 0..NumMessages
      /\ mode' \in {"setup", "standby", "asleep"}
  <2>1. CASE tx = <<>>
    BY <1>3, <2>1 DEF TypeOK, Transfer
  <2>2. CASE tx # <<>>
    <3>1. Head(tx) \in Command
      BY <2>2 DEF TypeOK
    <3>2. Answer(Head(tx)) \in Seq(Event)
      BY <3>1, AnswerType
    <3>3. /\ waiting' = Rest(waiting) \o Answer(Head(tx))
          /\ mode' = ModeAfter(Head(tx))
          /\ accepted' = AcceptedAfter(Head(tx))
      BY <2>2 DEF Transfer
    <3>4. waiting' \in Seq(Event)
      BY <1>3, <3>2, <3>3
    <3> QED
      BY <3>1, <3>3, <3>4, AnswerType
  <2> QED
    BY <2>1, <2>2
<1>5. TypeOK'
  BY <1>1, <1>2, <1>4 DEF TypeOK, Transfer, driver
<1>6. AttemptIsWhole'
  <2>1. pc' = pc /\ offset' = offset /\ offset \in Nat /\ tx \in Seq(Command)
    BY DEF TypeOK, Transfer
  <2>2. CASE tx = <<>>
    BY <2>1, <2>2 DEF AttemptIsWhole, Transfer, Rest
  <2>3. CASE tx # <<>>
    <3>1. tx' = Tail(tx)
      BY <2>3 DEF Transfer, Rest
    <3>2. /\ Len(tx) \in Nat \ {0} /\ Len(tx') = Len(tx) - 1
          /\ \A i \in 1..Len(tx') : tx'[i] = tx[i + 1] /\ i + 1 \in 1..Len(tx)
      BY <2>1, <2>3, <3>1
    <3>3. SUFFICES ASSUME pc \in {"fill", "wait", "refill"}, NEW i \in 1..Len(tx')
                   PROVE  tx'[i].number = offset - Len(tx') + i
      BY <2>1 DEF AttemptIsWhole
    <3>4. tx[i + 1].number = offset - Len(tx) + (i + 1)
      BY <3>2, <3>3 DEF AttemptIsWhole
    <3> QED
      BY <2>1, <3>2, <3>4
  <2> QED
    BY <2>2, <2>3
<1>7. AnswerKept'
  BY DEF TypeOK, AnswerKept, Transfer
<1> QED
  BY <1>5, <1>6, <1>7

(* The other queue operations of an attempt: a message is added with the   *)
(* number of the offset, or an answer is taken.                            *)
LEMMA FillInv == Inv /\ (Fill \/ Filled) => Inv'
<1> SUFFICES ASSUME Inv PROVE (Fill \/ Filled) => Inv'
  OBVIOUS
<1> USE SetupAssumption DEF Inv
<1>1. ASSUME Fill PROVE Inv'
  <2> DEFINE message == [name |-> "setup", number |-> offset + 1]
  <2>1. offset \in 0..NumMessages - 1 /\ Len(tx) < QueueSize
    BY <1>1 DEF TypeOK, Fill, Fits
  <2>2. message \in Command
    BY <2>1 DEF Command
  <2>3. tx \in Seq(Command) /\ tx' = Append(tx, message) /\ offset' = offset + 1
    BY <1>1 DEF TypeOK, Fill
  <2> HIDE DEF message
  <2>4. /\ tx' \in Seq(Command)
        /\ Len(tx') = Len(tx) + 1
        /\ tx'[Len(tx) + 1] = message
        /\ \A i \in 1..Len(tx) : tx'[i] = tx[i]
    BY <2>2, <2>3
  <2>5. TypeOK'
    BY <1>1, <2>1, <2>3, <2>4 DEF TypeOK, Fill, driver, chip
  <2>6. pc' = pc /\ rx' = rx /\ pc \in {"fill", "wait", "refill"}
    BY <1>1 DEF Fill
  <2>7. \A i \in 1..Len(tx) : tx[i].number = offset - Len(tx) + i
    BY <2>6 DEF AttemptIsWhole
  <2>8. message.number = offset + 1
    BY DEF message
  <2>9. Len(tx) \in Nat /\ offset \in Nat
    BY <2>1, <2>3
  <2>10. \A i \in 1..Len(tx') : tx'[i].number = offset' - Len(tx') + i
    BY <2>3, <2>4, <2>7, <2>8, <2>9
  <2> QED
    BY <2>5, <2>6, <2>10 DEF AttemptIsWhole, AnswerKept
<1>2. ASSUME Filled PROVE Inv'
  BY <1>2 DEF TypeOK, AttemptIsWhole, AnswerKept, Filled, driver, chip
<1> QED
  BY <1>1, <1>2

LEMMA SleepInv == Inv /\ Sleep => Inv'
<1> SUFFICES ASSUME Inv, Sleep PROVE Inv'
  OBVIOUS
<1> USE SetupAssumption DEF Inv
<1> DEFINE all == tx \o <<[name |-> "radio_reset", number |-> 0],
                          [name |-> "sleep", number |-> 0]>>
<1>1. tx' = IF Len(all) <= QueueSize THEN all ELSE SubSeq(all, 1, QueueSize)
  BY DEF Sleep
<1>2. all \in Seq(Command)
  BY DEF TypeOK, Command
<1> HIDE DEF all
<1>3. tx' \in Seq(Command) /\ Len(tx') <= QueueSize
  BY <1>1, <1>2
<1> QED
  BY <1>3 DEF TypeOK, AttemptIsWhole, AnswerKept, Sleep, chip

LEMMA NextInv == Inv /\ [Next]_vars => Inv'
<1> SUFFICES ASSUME Inv, [Next]_vars PROVE Inv'
  OBVIOUS
<1> USE SetupAssumption DEF Inv
<1>1. CASE Poll
  <2>1. rx' \in Seq(Event) /\ Len(rx') <= QueueSize
    BY <1>1 DEF TypeOK, Poll, HandleEvent, NoEvent
  <2>2. /\ status' \in {"NONE", "STANDBY", "SLEEPING"} /\ setupRequired' \in BOOLEAN
        /\ pc' \in {"poll", "try"}
    BY <1>1 DEF TypeOK, Poll, HandleEvent, NoEvent, driver
  <2> QED
    BY <1>1, <2>1, <2>2 DEF TypeOK, AttemptIsWhole, AnswerKept, Poll, chip
<1>2. CASE Try
  <2>1. TypeOK' /\ AnswerKept'
    BY <1>2 DEF TypeOK, AnswerKept, Try, driver, chip
  <2>2. pc' = "poll" \/ tx' = <<>>
    BY <1>2 DEF Try
  <2>3. AttemptIsWhole'
    BY <2>2 DEF AttemptIsWhole
  <2> QED
    BY <2>1, <2>3
<1>3. CASE Continue \/ Complete \/ Fail \/ TimeOut
  <2>1. rx' \in Seq(Event) /\ Len(rx') <= QueueSize
    <3>1. rx' = rx \/ (rx # <<>> /\ rx' = Tail(rx))
      BY <1>3, Zenon DEF Continue, Complete, Fail, TimeOut
    <3>2. rx \in Seq(Event) /\ Len(rx) <= QueueSize
      BY DEF TypeOK
    <3>3. CASE rx # <<>> /\ rx' = Tail(rx)
      BY <3>2, <3>3
    <3> QED
      BY <3>1, <3>2, <3>3
  <2>2. TypeOK' /\ AnswerKept'
    BY <1>3, <2>1 DEF TypeOK, AnswerKept, Continue, Complete, Fail, TimeOut, driver, chip
  <2>3. tx' = tx /\ offset' = offset /\ (pc' = "poll" \/ pc = "wait")
    BY <1>3 DEF Continue, Complete, Fail, TimeOut, chip
  <2>4. AttemptIsWhole'
    <3>1. CASE pc' = "poll"
      BY <3>1 DEF AttemptIsWhole
    <3>2. CASE pc = "wait"
      BY <2>3, <3>2 DEF AttemptIsWhole
    <3> QED
      BY <2>3, <3>1, <3>2
  <2> QED
    BY <2>2, <2>4
<1>4. CASE UNCHANGED vars
  BY <1>4 DEF TypeOK, AttemptIsWhole, AnswerKept, vars, driver, chip
<1> QED
  BY <1>1, <1>2, <1>3, <1>4, FillInv, SleepInv, TransferInv DEF Next, Program

LEMMA Invariance == Spec => []Inv
BY InitInv, NextInv, PTL DEF Spec

(* The queues hold commands and events, and never more than they have room *)
(* for; the offset never passes the number of messages.                    *)
THEOREM SetupTypeCorrect == Spec => []TypeOK
<1>1. Inv => TypeOK
  BY DEF Inv
<1> QED
  BY <1>1, Invariance, PTL

(* Whenever and however often attempts time out, what is queued within one *)
(* are its messages, the last one at the offset, without a gap.            *)
THEOREM AttemptsAreWhole == Spec => []AttemptIsWhole
<1>1. Inv => AttemptIsWhole
  BY DEF Inv
<1> QED
  BY <1>1, Invariance, PTL

-----------------------------------------------------------------------------
(* The setup keeps to what AciLink provides.                               *)

LEMMA AddedBehind ==
    ASSUME NEW S, NEW s \in Seq(S), NEW t \in Seq(S)
    PROVE  s \o t \in Seq(S) /\ Link!Extends(s \o t, s)
<1>1. /\ s \o t \in Seq(S)
      /\ Len(s \o t) = Len(s) + Len(t) /\ Len(s) \in Nat /\ Len(t) \in Nat
      /\ \A i \in 1..Len(s) + Len(t) :
            (s \o t)[i] = IF i <= Len(s) THEN s[i] ELSE t[i - Len(s)]
  BY ConcatProperties, LenProperties
<1>2. Len(s) <= Len(s \o t) /\ \A i \in 1..Len(s) : (s \o t)[i] = s[i]
  BY <1>1
<1> QED
  BY <1>1, <1>2, Zenon DEF Link!Extends

LEMMA TransferIsLinks ==
    ASSUME TypeOK, Transfer
    PROVE  Link!Transfer
<1> DEFINE events == IF tx = <<>> THEN <<>> ELSE Answer(Head(tx))
<1>1. tx \in Seq(Command) /\ rx \in Seq(Event) /\ waiting \in Seq(Event)
  BY DEF TypeOK
<1> HIDE DEF Event, Command
<1>2. events \in Seq(Event)
  <2>1. CASE tx = <<>>
    BY <2>1
  <2>2. CASE tx # <<>>
    <3>1. Head(tx) \in Command
      BY <1>1, <2>2
    <3>2. Answer(Head(tx)) \in Seq(Event)
      BY <3>1, AnswerType
    <3> QED
      BY <2>2, <3>2
  <2> QED
    BY <2>1, <2>2
<1>3. Rest(waiting) \in Seq(Event)
  <2>1. waiting # <<>> => Tail(waiting) \in Seq(Event)
    BY <1>1
  <2> QED
    BY <1>1, <2>1, Zenon DEF Rest
<1>4. /\ Len(rx) < QueueSize /\ tx' = Rest(tx)
      /\ rx' = IF waiting = <<>> THEN rx ELSE Append(rx, Head(waiting))
      /\ waiting' = Rest(waiting) \o events
  <2>1. Rest(waiting) \o <<>> = Rest(waiting)
    BY <1>3, ConcatEmptySeq
  <2> QED
    BY <2>1, Zenon DEF Transfer
<1> HIDE DEF events
<1>5. Rest(tx) = Link!Rest(tx) /\ Rest(waiting) = Link!Rest(waiting)
  BY Zenon DEF Rest, Link!Rest
<1>6. rx' = rx \o Link!Oldest(waiting)
  <2>1. CASE waiting = <<>>
    <3>1. rx \o <<>> = rx
      BY <1>1, ConcatEmptySeq
    <3> QED
      BY <1>4, <2>1, <3>1, Zenon DEF Link!Oldest
  <2>2. CASE waiting # <<>>
    <3> DEFINE e == Head(waiting)
    <3>1. e \in Event
      BY <1>1, <2>2
    <3> HIDE DEF e
    <3>2. Append(rx, e) = rx \o <<e>>
      BY <1>1, <3>1
    <3> QED
      BY <1>4, <2>2, <3>2, Zenon DEF Link!Oldest, e
  <2> QED
    BY <2>1, <2>2
<1>7. waiting' \in Seq(Event) /\ Link!Extends(waiting', Rest(waiting))
  BY <1>2, <1>3, <1>4, AddedBehind
<1> QED
  BY <1>4, <1>5, <1>6, <1>7, Zenon DEF Link!Transfer, Link!HasEvents

LEMMA Queued ==
    ASSUME TypeOK, TypeOK', tx' = tx \/ Fill \/ Sleep
    PROVE  Link!QueuesCommands
<1>1. /\ tx \in Seq(Command) /\ tx' \in Seq(Command) /\ Len(tx') <= QueueSize
      /\ Len(tx) <= QueueSize /\ Len(tx) \in Nat
  BY DEF TypeOK
<1>2. Link!Extends(tx', tx)
  <2>1. CASE tx' = tx
    BY <1>1, <2>1 DEF Link!Extends
  <2>2. CASE Fill
    <3> DEFINE message == [name |-> "setup", number |-> offset + 1]
    <3>1. tx' = Append(tx, message)
      BY <2>2 DEF Fill
    <3> HIDE DEF message, Command
    <3>2. Len(tx') = Len(tx) + 1 /\ \A i \in 1..Len(tx) : tx'[i] = tx[i]
      BY <1>1, <3>1
    <3> QED
      BY <1>1, <3>2 DEF Link!Extends
  <2>3. CASE Sleep
    <3> DEFINE two == <<[name |-> "radio_reset", number |-> 0], [name |-> "sleep", number |-> 0]>>
               all == tx \o two
    <3>1. tx' = IF Len(all) <= QueueSize THEN all ELSE SubSeq(all, 1, QueueSize)
      BY <2>3 DEF Sleep
    <3>2. two \in Seq(Command)
      BY DEF Command
    <3>3. all \in Seq(Command) /\ Link!Extends(all, tx)
      BY <1>1, <3>2, AddedBehind
    <3> HIDE DEF two, all, Command
    <3>4. /\ Len(all) \in Nat /\ Len(tx) <= Len(all) /\ \A i \in 1..Len(tx) : all[i] = tx[i]
      BY <3>3 DEF Link!Extends
    <3>5. CASE Len(all) <= QueueSize
      BY <3>1, <3>3, <3>5
    <3>6. CASE ~ (Len(all) <= QueueSize)
      <4>1. tx' = SubSeq(all, 1, QueueSize) /\ QueueSize \in Nat
        BY <3>1, <3>6, SetupAssumption
      <4>2. Len(tx') = QueueSize /\ \A i \in 1..QueueSize : tx'[i] = all[i]
        BY <3>3, <3>4, <3>6, <4>1
      <4> QED
        BY <1>1, <3>4, <4>1, <4>2 DEF Link!Extends
    <3> QED
      BY <3>5, <3>6
  <2> QED
    BY <2>1, <2>2, <2>3
<1> QED
  BY <1>1, <1>2, Zenon DEF Link!QueuesCommands

LEMMA NextIsLinks ==
    ASSUME Inv, Inv', [Next]_vars
    PROVE  [Link!Next]_(Link!vars)
<1> USE DEF Link!Next
<1>1. TypeOK /\ TypeOK' /\ AnswerKept
  BY DEF Inv
<1>2. CASE Transfer
  BY <1>1, <1>2, TransferIsLinks
<1>3. CASE Fill \/ Sleep
  <2>1. UNCHANGED <<rx, waiting>>
    BY <1>3 DEF Fill, Sleep, chip
  <2> QED
    BY <1>1, <1>3, <2>1, Queued DEF Link!Send
<1>4. ASSUME rx # <<>>, rx' = Tail(rx), UNCHANGED <<tx, waiting>>
      PROVE  [Link!Next]_(Link!vars)
  BY <1>1, <1>4, Queued DEF Link!Take
<1>5. ASSUME UNCHANGED <<tx, rx, waiting>> PROVE [Link!Next]_(Link!vars)
  BY <1>5 DEF Link!vars
<1>6. CASE Poll
  BY <1>4, <1>5, <1>6 DEF Poll, HandleEvent, NoEvent, chip
<1>7. CASE Filled
  BY <1>1, <1>4, <1>5, <1>7 DEF Filled, AnswerKept, chip
<1>8. CASE Complete
  BY <1>4, <1>8 DEF Complete, chip
<1>9. CASE Try \/ Continue \/ Fail \/ TimeOut \/ UNCHANGED vars
  BY <1>5, <1>9 DEF Try, Continue, Fail, TimeOut, chip, vars
<1> QED
  BY <1>2, <1>3, <1>6, <1>7, <1>8, <1>9 DEF Next, Program

(* A setup, with any attempts that time out, asks of the transport only    *)
(* what AciLink, and so hal_aci_tl.cpp, provides.                          *)
THEOREM SetupUsesLink == Spec => Link!Spec
<1>1. Init => Link!Init
  <2> SUFFICES ASSUME Init PROVE Link!Init
    OBVIOUS
  <2>1. TypeOK
    BY InitInv DEF Inv
  <2>2. tx \in Seq(Command) /\ Len(tx) <= QueueSize /\ waiting \in Seq(Event) /\ rx = <<>>
    BY <2>1 DEF TypeOK, Init
  <2> HIDE DEF Command, Event
  <2> QED
    BY <2>2, Zenon DEF Link!Init
<1>2. Inv /\ Inv' /\ [Next]_vars => [Link!Next]_(Link!vars)
  BY NextIsLinks
<1> QED
  BY <1>1, <1>2, Invariance, PTL DEF Spec, Link!Spec

=============================================================================
