-------------------------- MODULE AppLogger_proofs --------------------------
(***************************************************************************)
(* Proofs about MsgQueue and about AppLogger, which derives from it.  The  *)
(* first part is about the queue, for any producers, any                   *)
(* m_max_queue_length, any number of messages, starts and stops, and both  *)
(* builds.  The second is about the logger, for any size and number of     *)
(* files and any days that pass: each of its steps is a step of the queue  *)
(* or leaves the queue alone, so that what the first part shows of the     *)
(* queue holds here too.                                                   *)
(***************************************************************************)
EXTENDS AppLogger, SequenceTheorems, FiniteSetTheorems,
        WellFoundedInduction, TLAPS

----------------------------------------------------------------------------
(* The queue. *)

(* A producer between the test of the flag and the lock has a message. *)
Admitted == \A p \in Producers : put[p] = "admitted" => count[p] # 0

QueueInv == TypeOK /\ Admitted /\ FifoExact

----------------------------------------------------------------------------
(* The wake-ups.                                                           *)

(* Somebody who found the queue empty has yet to signal. *)
SignalComing == stopper = "signal" \/ \E p \in Producers : put[p] = "signal"

(* No wake-up is lost: a consumer that waits although there is an item     *)
(* will be signalled.  In the _WIN32 build, which notifies in the critical *)
(* section, it never waits then.                                           *)
NoLostWakeup == cons = "wait" /\ queue # <<>> => Posix /\ SignalComing

(* From the end of StopPut on the flag is clear and there is an item for a *)
(* consumer that is on its way to take one, also when the exit message     *)
(* found the queue full.                                                   *)
StopSeen ==
  /\ stopper \in {"put", "signal", "join"} => ~running
  /\ stopper \in {"signal", "join"} /\ cons \in {"get", "wait", "wake"} =>
       queue # <<>>

(* The thread that stop joins is not waiting for good: while it waits, a   *)
(* put that found the queue empty is about to signal.                      *)
JoinNotStuck ==
  stopper = "join" /\ cons = "wait" => \E p \in Producers : put[p] = "signal"

WakeInv == NoLostWakeup /\ StopSeen /\ JoinNotStuck

----------------------------------------------------------------------------
(* Pushing an item extends what has passed through the queue. *)
LEMMA PushedLast ==
  ASSUME NEW S, NEW c \in Seq(S), NEW q \in Seq(S), NEW e \in S
  PROVE  Append(c \o q, e) = c \o Append(q, e)
<1>1. /\ Append(c \o q, e) = (c \o q) \o <<e>>
      /\ Append(q, e) = q \o <<e>>
  BY AppendIsConcat, ConcatProperties
<1> QED
  BY <1>1, ConcatAssociative

(* Taking the front item moves it from the queue to the items taken. *)
LEMMA PoppedFirst ==
  ASSUME NEW S, NEW c \in Seq(S), NEW q \in Seq(S), q # <<>>
  PROVE  /\ Head(q) \in S /\ Tail(q) \in Seq(S) /\ Len(Tail(q)) <= Len(q)
         /\ Append(c, Head(q)) \o Tail(q) = c \o q
<1>1. Head(q) \in S /\ Tail(q) \in Seq(S) /\ q = <<Head(q)>> \o Tail(q)
  BY HeadTailProperties
<1>2. Append(c, Head(q)) = c \o <<Head(q)>>
  BY <1>1, AppendIsConcat
<1>3. (c \o <<Head(q)>>) \o Tail(q) = c \o (<<Head(q)>> \o Tail(q))
  BY <1>1, ConcatAssociative
<1>4. Len(Tail(q)) <= Len(q)
  BY HeadTailProperties
<1> QED
  BY <1>1, <1>2, <1>3, <1>4
(* A queue that was never started is empty. *)
LEMMA QueueInit == Init => QueueInv
<1> SUFFICES ASSUME Init PROVE QueueInv
  OBVIOUS
<1>1. running \in BOOLEAN
  BY DEF Init
<1>2. TypeOK
  BY <1>1, QueueAssumption DEF Init, TypeOK, Items
<1>3. Admitted /\ FifoExact
  BY DEF Init, Admitted, FifoExact
<1> QED
  BY <1>2, <1>3 DEF QueueInv

(* Taking the front item of a queue that has one. *)
LEMMA PopStep ==
  ASSUME QueueInv, queue # <<>>, Pop, UNCHANGED accepted
  PROVE  /\ msg' \in Items /\ queue' \in Seq(Items) /\ Len(queue') <= MaxLen
         /\ consumed' \in Seq(Items) /\ FifoExact'
<1> USE DEF QueueInv, TypeOK
<1>1. /\ Head(queue) \in Items /\ Tail(queue) \in Seq(Items)
      /\ Len(Tail(queue)) <= Len(queue)
      /\ Append(consumed, Head(queue)) \o Tail(queue) = consumed \o queue
  BY PoppedFirst
<1>2. Append(consumed, Head(queue)) \in Seq(Items)
  BY <1>1
<1>3. Len(Tail(queue)) <= MaxLen
  BY <1>1, QueueAssumption
<1> QED
  BY <1>1, <1>2, <1>3 DEF Pop, FifoExact

(* Pushing an item into a queue that has room. *)
LEMMA PushStep ==
  ASSUME QueueInv, NEW e \in Items, Len(queue) < MaxLen,
         queue' = Append(queue, e), accepted' = Append(accepted, e),
         UNCHANGED consumed
  PROVE  /\ queue' \in Seq(Items) /\ Len(queue') <= MaxLen
         /\ accepted' \in Seq(Items) /\ FifoExact'
<1>1. /\ consumed \in Seq(Items) /\ queue \in Seq(Items)
      /\ accepted \in Seq(Items) /\ accepted = consumed \o queue
  BY DEF QueueInv, TypeOK, FifoExact
<1>2. Append(consumed \o queue, e) = consumed \o Append(queue, e)
  BY <1>1, PushedLast
<1>3. Append(queue, e) \in Seq(Items) /\ Len(Append(queue, e)) = Len(queue) + 1
  BY <1>1
<1>4. Len(Append(queue, e)) <= MaxLen
  BY <1>1, <1>3, QueueAssumption
<1>5. Append(accepted, e) \in Seq(Items)
  BY <1>1
<1> QED
  BY <1>1, <1>2, <1>3, <1>4, <1>5 DEF FifoExact

(* Every step of the producers, the stopper and the consumer keeps the     *)
(* types, and the queue in order.                                          *)
LEMMA QueueNext == QueueInv /\ [Next]_vars => QueueInv'
<1> SUFFICES ASSUME QueueInv, [Next]_vars PROVE QueueInv'
  OBVIOUS
<1> USE DEF QueueInv, TypeOK, Admitted, startVars
<1>1. ASSUME NEW p \in Producers, Put(p) PROVE QueueInv'
  <2>1. count' \in [Producers -> 0..MaxPut] /\ count'[p] # 0
    BY <1>1, QueueAssumption DEF Put
  <2> QED
    BY <1>1, <2>1 DEF Put, FifoExact
<1>2. ASSUME NEW p \in Producers, PutLocked(p) PROVE QueueInv'
  <2>1. <<p, count[p]>> \in Items
    BY <1>2, QueueAssumption DEF PutLocked, Items, Messages
  <2>2. CASE Len(queue) < MaxLen
    <3>1. /\ queue' \in Seq(Items) /\ Len(queue') <= MaxLen
          /\ accepted' \in Seq(Items) /\ FifoExact'
      BY <1>2, <2>1, <2>2, PushStep DEF PutLocked
    <3>2. cons' \in {cons, "wake"}
      BY <1>2, <2>2 DEF PutLocked, Notify, Signal
    <3> QED
      BY <1>2, <2>2, <3>1, <3>2 DEF PutLocked
  <2>3. CASE ~(Len(queue) < MaxLen)
    BY <1>2, <2>3 DEF PutLocked, FifoExact
  <2> QED
    BY <2>2, <2>3
<1>3. ASSUME NEW p \in Producers, PutSignal(p) PROVE QueueInv'
  BY <1>3 DEF PutSignal, Signal, FifoExact
<1>4. CASE Start
  BY <1>4, QueueAssumption DEF Start, FifoExact
<1>5. CASE CreateThread
  BY <1>5 DEF CreateThread, FifoExact
<1>6. CASE Stop
  BY <1>6 DEF Stop, FifoExact
<1>7. CASE StopPut
  <2>1. Exit \in Items
    BY DEF Items
  <2>2. CASE Len(queue) < MaxLen
    <3>1. /\ queue' \in Seq(Items) /\ Len(queue') <= MaxLen
          /\ accepted' \in Seq(Items) /\ FifoExact'
      BY <1>7, <2>1, <2>2, PushStep DEF StopPut
    <3>2. cons' \in {cons, "wake"}
      BY <1>7, <2>2 DEF StopPut, Notify, Signal
    <3> QED
      BY <1>7, <2>2, <3>1, <3>2 DEF StopPut
  <2>3. CASE ~(Len(queue) < MaxLen)
    BY <1>7, <2>3 DEF StopPut, FifoExact
  <2> QED
    BY <2>2, <2>3
<1>8. CASE StopSignal
  BY <1>8 DEF StopSignal, Signal, FifoExact
<1>9. CASE StopJoin
  BY <1>9 DEF StopJoin, FifoExact
<1>10. CASE Test
  BY <1>10 DEF Test, FifoExact
<1>11. CASE Get \/ Woken
  <2>1. CASE queue = <<>>
    BY <1>11, <2>1 DEF Get, Woken, FifoExact
  <2>2. CASE queue # <<>>
    <3>1. Pop /\ UNCHANGED <<running, put, count, stopper, startVars, accepted>>
      BY <1>11, <2>2 DEF Get, Woken
    <3>2. /\ msg' \in Items /\ queue' \in Seq(Items) /\ Len(queue') <= MaxLen
          /\ consumed' \in Seq(Items) /\ FifoExact'
      BY <2>2, <3>1, PopStep
    <3> QED
      BY <3>1, <3>2 DEF Pop
  <2> QED
    BY <2>1, <2>2
<1>12. CASE SpuriousWake
  BY <1>12 DEF SpuriousWake, FifoExact
<1>13. CASE Handle
  BY <1>13 DEF Handle, FifoExact, Items
<1>14. CASE Clear
  <2>1. consumed \o queue \in Seq(Items) /\ (consumed \o queue) \o <<>> = consumed \o queue
    BY ConcatProperties, ConcatEmptySeq
  <2> QED
    BY <1>14, <2>1, QueueAssumption DEF Clear, FifoExact
<1>15. CASE Done \/ Undefined \/ UNCHANGED vars
  BY <1>15 DEF Done, Undefined, vars, FifoExact
<1> QED
  BY <1>1, <1>2, <1>3, <1>4, <1>5, <1>6, <1>7, <1>8, <1>9, <1>10, <1>11,
     <1>12, <1>13, <1>14, <1>15
  DEF Next, ProducerNext, ConsumerNext, StopperNext

(* The queue, the threads and the histories keep their types; the queue is *)
(* never longer than m_max_queue_length, however many producers got past   *)
(* the test of the flag.                                                   *)
THEOREM TypeCorrect == Spec => []TypeOK
<1>1. QueueInv => TypeOK
  BY DEF QueueInv
<1> QED
  BY <1>1, QueueInit, QueueNext, PTL DEF Spec

(* Nothing that was pushed is lost, doubled or overtaken, for any number   *)
(* of producers and across full queues, stop and start.                    *)
THEOREM Fifo == Spec => []FifoExact
<1>1. QueueInv => FifoExact
  BY DEF QueueInv
<1> QED
  BY <1>1, QueueInit, QueueNext, PTL DEF Spec
(* Every step keeps the invariant of the wake-ups. *)
LEMMA WakeNext == QueueInv /\ WakeInv /\ [Next]_vars => WakeInv'
<1> SUFFICES ASSUME QueueInv, WakeInv, [Next]_vars PROVE WakeInv'
  OBVIOUS
<1> USE DEF WakeInv, NoLostWakeup, StopSeen, JoinNotStuck,
            SignalComing, NoEmptyPop, Posix, startVars
<1>0. /\ queue \in Seq(Items) /\ put \in [Producers -> {"idle", "admitted", "signal"}]
      /\ running \in BOOLEAN
  BY DEF QueueInv, TypeOK
<1>1. ASSUME NEW p \in Producers, Put(p) PROVE WakeInv'
  BY <1>0, <1>1 DEF Put
<1>2. ASSUME NEW p \in Producers, PutLocked(p) PROVE WakeInv'
  BY <1>0, <1>2 DEF PutLocked, Notify, NeedSignal, Signal
<1>3. ASSUME NEW p \in Producers, PutSignal(p) PROVE WakeInv'
  BY <1>0, <1>3 DEF PutSignal, Signal
<1>4. CASE Start
  BY <1>4 DEF Start
<1>5. CASE CreateThread
  BY <1>5 DEF CreateThread
<1>6. CASE Stop
  BY <1>6 DEF Stop
<1>7. CASE StopPut
  BY <1>0, <1>7, QueueAssumption DEF StopPut, Notify, NeedSignal, Signal
<1>8. CASE StopSignal
  BY <1>8 DEF StopSignal, Signal
<1>9. CASE StopJoin
  BY <1>9 DEF StopJoin
<1>10. CASE Test
  BY <1>10 DEF Test
<1>11. CASE Get \/ Woken
  BY <1>11 DEF Get, Woken, Recheck, Pop
<1>12. CASE SpuriousWake
  BY <1>12 DEF SpuriousWake
<1>13. CASE Handle
  BY <1>13 DEF Handle
<1>14. CASE Clear
  BY <1>14 DEF Clear
<1>15. CASE Done \/ Undefined \/ UNCHANGED vars
  BY <1>15 DEF Done, Undefined, vars
<1> QED
  BY <1>1, <1>2, <1>3, <1>4, <1>5, <1>6, <1>7, <1>8, <1>9, <1>10, <1>11,
     <1>12, <1>13, <1>14, <1>15
  DEF Next, ProducerNext, ConsumerNext, StopperNext

(* Before start nobody waits. *)
LEMMA WakeInit == Init => WakeInv
BY DEF Init, WakeInv, NoLostWakeup, StopSeen, JoinNotStuck,
       NoEmptyPop

(* The consumer is never left waiting with an item in the queue, and stop  *)
(* never joins a thread that nobody is going to wake: the exit message, or *)
(* the item that kept it out of a full queue, is there to be taken.  This  *)
(* is the safety half of StopCompletes.                                    *)
THEOREM WakeupsKept == Spec => [](NoLostWakeup /\ StopSeen /\ JoinNotStuck)
<1>1. WakeInv => NoLostWakeup /\ StopSeen /\ JoinNotStuck
  BY DEF WakeInv
<1> QED
  BY <1>1, QueueInit, QueueNext, WakeInit, WakeNext, PTL DEF Spec

----------------------------------------------------------------------------
(* The logger. *)

(* The logger uses its queue as the queue is meant to be used. *)
LEMMA LogStep == [LogNext]_allVars => [Next]_vars
<1> SUFFICES ASSUME [LogNext]_allVars PROVE [Next]_vars
  OBVIOUS
<1>1. CASE QueueStep
  BY <1>1 DEF QueueStep, Next, ConsumerNext, StopperNext
<1>2. CASE LogHandle
  BY <1>2 DEF LogHandle, Next, ConsumerNext
<1>3. CASE Initialize
  BY <1>3 DEF Initialize, Next
<1>4. CASE Uninitialize
  BY <1>4 DEF Uninitialize, Next
<1>5. CASE Stopped
  BY <1>5 DEF Stopped, Next, StopperNext
<1>6. CASE NextDay
  BY <1>6 DEF NextDay
<1>7. CASE LogDone
  BY <1>7 DEF LogDone, Next
<1>8. CASE UNCHANGED allVars
  BY <1>8 DEF allVars
<1> QED
  BY <1>1, <1>2, <1>3, <1>4, <1>5, <1>6, <1>7, <1>8 DEF LogNext

(* The queue of the logger loses nothing, doubles nothing and keeps the    *)
(* order, for every use that initialize, uninitialize and the log          *)
(* functions make of it.                                                   *)
THEOREM LoggerFifo == LogSpec => [](FifoExact /\ NoLostWakeup /\ JoinNotStuck)
<1>1. LoggerInit => Init
  BY DEF LoggerInit
<1>2. QueueInv /\ WakeInv => FifoExact /\ NoLostWakeup /\ JoinNotStuck
  BY DEF QueueInv, WakeInv
<1> QED
  BY <1>1, <1>2, LogStep, QueueInit, QueueNext, WakeInit, WakeNext, PTL
  DEF LogSpec

----------------------------------------------------------------------------
(* The files.                                                              *)

Tag == IF m_is_daily THEN day ELSE 0

(* The number after s in the ring. *)
LEMMA NextSeqValue ==
  ASSUME NEW s \in 0..MaxFile
  PROVE  NextSeq(s) = IF s < MaxFile THEN s + 1 ELSE 1
<1>1. MaxFile \in Nat \ {0}
  BY LoggerAssumption
<1>2. CASE s < MaxFile
  <2>1. s % MaxFile = s
    BY <1>1, <1>2
  <2> QED
    BY <1>2, <2>1 DEF NextSeq
<1>3. CASE s = MaxFile
  <2>1. s % MaxFile = 0
    BY <1>1, <1>3
  <2> QED
    BY <1>1, <1>3, <2>1 DEF NextSeq
<1> QED
  BY <1>1, <1>2, <1>3

(* A nonempty set of numbers has a least one. *)
LEMMA LeastNumber ==
  ASSUME NEW T, T \subseteq Nat, T # {}
  PROVE  \E x \in T : \A y \in T : x <= y
<1>1. PICK x \in T : \A y \in T : ~(<<y, x>> \in OpToRel(<, Nat))
  BY NatLessThanWellFounded, WFMin
<1>2. \A y \in T : ~(y < x)
  BY <1>1 DEF OpToRel
<1> QED
  BY <1>2

(* The number of the next file is one of the ring. *)
LEMMA NewSeqType ==
  ASSUME m_seq \in 0..MaxFile
  PROVE  FirstSeq \in 1..MaxFile /\ NewSeq \in 1..MaxFile
<1>1. MaxFile \in Nat \ {0}
  BY LoggerAssumption
<1>2. FirstSeq \in 1..MaxFile
  <2> DEFINE s == IF NewDay \/ m_seq > MaxFile THEN 0 ELSE m_seq
  <2>1. s \in 0..MaxFile
    BY <1>1
  <2> QED
    BY <1>1, <2>1, NextSeqValue DEF FirstSeq
<1> DEFINE free == {s \in FirstSeq..MaxFile : <<Tag, s>> \notin DOMAIN disk}
<1>3. ASSUME free # {} PROVE (CHOOSE s \in free : \A t \in free : s <= t) \in free
  <2>1. free \subseteq Nat
    BY <1>1, <1>2
  <2>2. \E s \in free : \A t \in free : s <= t
    <3> HIDE DEF free
    <3> QED
      BY <1>3, <2>1, LeastNumber
  <2> QED
    BY <2>2
<1> QED
  BY <1>1, <1>2, <1>3 DEF NewSeq, Tag

(* The files opened and the messages printed so far, with the open file. *)
HistoryOK ==
  /\ opened \in Seq(Names)
  /\ logged \in Seq([m: Messages, d: 0..MaxDay, k: Nat])
  /\ m_file # None => m_file \in DOMAIN disk

FileTypes ==
  /\ m_initialized \in BOOLEAN /\ m_is_daily \in BOOLEAN
  /\ m_day \in 0..MaxDay /\ m_seq \in 0..MaxFile
  /\ m_file \in Names \union {None} /\ m_log_file_path \in Names \union {None}
  /\ m_printed_size \in Nat /\ day \in 1..MaxDay /\ fails \in 0..MaxFail
  /\ DOMAIN disk \subseteq Days \X (1..MaxFile)
  /\ \A n \in DOMAIN disk : disk[n] \in Seq(Messages)
  /\ disk = [n \in DOMAIN disk |-> disk[n]]
  /\ HistoryOK

(* The directory found at the start is well typed. *)
LEMMA FileTypesInit == LoggerInit => FileTypes
<1> SUFFICES ASSUME LoggerInit PROVE FileTypes
  OBVIOUS
<1>1. m_initialized \in BOOLEAN /\ m_is_daily \in BOOLEAN
  BY DEF LoggerInit
<1>2. PICK k \in 0..MaxFile :
        disk = [n \in {IF m_is_daily THEN 1 ELSE 0} \X (1..k) |-> <<>>]
  BY DEF LoggerInit
<1>3. /\ DOMAIN disk \subseteq Days \X (1..MaxFile)
      /\ \A n \in DOMAIN disk : disk[n] \in Seq(Messages)
      /\ disk = [n \in DOMAIN disk |-> disk[n]]
  BY <1>2, LoggerAssumption DEF Days
<1> QED
  BY <1>1, <1>3, LoggerAssumption DEF LoggerInit, FileTypes, HistoryOK

(* Printing a message to a file. *)
LEMMA PrintType ==
  ASSUME FileTypes, NEW m \in Messages, NEW n \in Names, NEW files,
         NEW size \in Nat, NEW nth \in Nat,
         PrintTo(n, files, size, m, nth), n \in DOMAIN files,
         files = [x \in DOMAIN files |-> files[x]],
         \A x \in DOMAIN files : files[x] \in Seq(Messages)
  PROVE  /\ m_printed_size' \in Nat
         /\ logged' \in Seq([m: Messages, d: 0..MaxDay, k: Nat])
         /\ DOMAIN disk' = DOMAIN files
         /\ \A x \in DOMAIN disk' : disk'[x] \in Seq(Messages)
         /\ disk' = [x \in DOMAIN disk' |-> disk'[x]]
<1>1. Size(m) \in Nat
  BY LoggerAssumption DEF Size
<1>2. n[1] \in 0..MaxDay
  BY DEF Names
<1>3. [m |-> m, d |-> n[1], k |-> nth] \in [m: Messages, d: 0..MaxDay, k: Nat]
  BY <1>2
<1>4. logged' \in Seq([m: Messages, d: 0..MaxDay, k: Nat])
  BY <1>3 DEF PrintTo, FileTypes, HistoryOK
<1>5. disk' = [x \in DOMAIN files |-> IF x = n THEN Append(files[n], m) ELSE files[x]]
  BY DEF PrintTo
<1>6. Append(files[n], m) \in Seq(Messages)
  OBVIOUS
<1>7. DOMAIN disk' = DOMAIN files
  BY <1>5
<1>8. \A x \in DOMAIN files : disk'[x] \in Seq(Messages)
  BY <1>5, <1>6
<1>9. disk' = [x \in DOMAIN disk' |-> disk'[x]]
  BY <1>5
<1>10. m_printed_size' \in Nat
  BY <1>1 DEF PrintTo
<1> QED
  BY <1>4, <1>7, <1>8, <1>9, <1>10

(* write_log keeps the types, whether it stays with its file, goes to      *)
(* another one or fails to.                                                *)
LEMMA WriteType ==
  ASSUME FileTypes, NEW m \in Messages, WriteLog(m),
         UNCHANGED <<m_initialized, m_is_daily, day>>
  PROVE  FileTypes'
<1> USE DEF FileTypes, HistoryOK
<1>0. Len(opened) \in Nat /\ Len(opened) + 1 \in Nat
  OBVIOUS
<1>3. CASE /\ NotPrinted(disk, m_printed_size)
           /\ UNCHANGED <<m_day, m_seq, m_file, m_log_file_path, opened>>
  BY <1>3, LoggerAssumption, SMTT(30) DEF NotPrinted, Days
<1>1. CASE ~Rotate /\ ~NotPrinted(disk, m_printed_size)
  <2>1. /\ m_file \in Names /\ m_file \in DOMAIN disk
        /\ PrintTo(m_file, disk, m_printed_size, m, Len(opened))
        /\ UNCHANGED <<m_day, m_seq, m_file, m_log_file_path, fails, opened>>
    BY <1>1 DEF Rotate, WriteLog
  <2>2. /\ m_printed_size' \in Nat
        /\ logged' \in Seq([m: Messages, d: 0..MaxDay, k: Nat])
        /\ DOMAIN disk' = DOMAIN disk
        /\ \A x \in DOMAIN disk' : disk'[x] \in Seq(Messages)
        /\ disk' = [x \in DOMAIN disk' |-> disk'[x]]
    BY <1>0, <2>1, PrintType
  <2> QED
    BY <2>1, <2>2 DEF Days
<1>2. CASE /\ Rotate
           /\ ~(/\ NotPrinted(disk, m_printed_size)
                /\ UNCHANGED <<m_day, m_seq, m_file, m_log_file_path, opened>>)
  <2> DEFINE n == <<Tag, NewSeq>>
  <2>1. NewSeq \in 1..MaxFile
    BY NewSeqType
  <2>2. n \in Names /\ n \in Days \X (1..MaxFile)
    BY <2>1, LoggerAssumption DEF Names, Tag, Days
  <2>3. /\ Created(n) = [x \in DOMAIN Created(n) |-> Created(n)[x]]
        /\ DOMAIN Created(n) = DOMAIN disk \union {n}
        /\ \A x \in DOMAIN Created(n) : Created(n)[x] \in Seq(Messages)
    BY DEF Created
  <2>4. m_seq' = NewSeq /\ m_log_file_path' = n
    BY <1>2 DEF WriteLog, Tag
  <2>5. CASE /\ m_file' = n /\ m_day' = day
             /\ opened' = Append(opened, n)
             /\ PrintTo(n, Created(n), 0, m, Len(opened) + 1)
             /\ UNCHANGED fails
    <3>1. /\ m_printed_size' \in Nat
          /\ logged' \in Seq([m: Messages, d: 0..MaxDay, k: Nat])
          /\ DOMAIN disk' = DOMAIN Created(n)
          /\ \A x \in DOMAIN disk' : disk'[x] \in Seq(Messages)
          /\ disk' = [x \in DOMAIN disk' |-> disk'[x]]
      BY <1>0, <2>2, <2>3, <2>5, PrintType
    <3>2. opened' \in Seq(Names)
      BY <2>2, <2>5
    <3>3. DOMAIN disk' \subseteq Days' \X (1..MaxFile) /\ n \in DOMAIN disk'
      BY <2>2, <2>3, <3>1 DEF Days
    <3>4. m_day' \in 0..MaxDay /\ m_seq' \in 0..MaxFile /\ day' = day
      BY <2>1, <2>4, <2>5
    <3> HIDE DEF n
    <3> QED
      BY <2>2, <2>4, <2>5, <3>1, <3>2, <3>3, <3>4
  <2>6. CASE /\ NotPrinted(disk, IF m_file # None THEN 0 ELSE m_printed_size)
             /\ m_file' = None /\ UNCHANGED <<m_day, opened>>
    BY <2>1, <2>2, <2>4, <2>6, LoggerAssumption, SMTT(30) DEF NotPrinted, Days
  <2>7. CASE /\ m_file' = n /\ m_day' = day
             /\ opened' = Append(opened, n)
             /\ NotPrinted(Created(n), 0)
    <3>1. opened' \in Seq(Names)
      BY <2>2, <2>7
    <3>2. disk' = Created(n) /\ fails' \in 0..MaxFail /\ m_printed_size' = 0
      BY <2>7, LoggerAssumption DEF NotPrinted
    <3>3. DOMAIN disk' \subseteq Days' \X (1..MaxFile) /\ n \in DOMAIN disk'
      BY <2>2, <2>3, <3>2 DEF Days
    <3>4. m_day' \in 0..MaxDay /\ m_seq' \in 0..MaxFile /\ day' = day
      BY <2>1, <2>4, <2>7
    <3>5. logged' = logged
      BY <2>7 DEF NotPrinted
    <3> HIDE DEF n
    <3> QED
      BY <2>2, <2>3, <2>4, <2>7, <3>1, <3>2, <3>3, <3>4, <3>5
  <2> QED
    BY <1>2, <2>5, <2>6, <2>7, Zenon DEF WriteLog, Tag
<1> QED
  BY <1>1, <1>2, <1>3, Zenon DEF WriteLog

(* Every step of the logger keeps the types. *)
LEMMA FileTypesNext ==
  TypeOK /\ FileTypes /\ [LogNext]_allVars => FileTypes'
<1> SUFFICES ASSUME TypeOK, FileTypes, [LogNext]_allVars PROVE FileTypes'
  OBVIOUS
<1>1. CASE UNCHANGED logVars
  BY <1>1 DEF logVars, fileVars, FileTypes, HistoryOK, Days
<1>2. CASE LogHandle
  <2>1. CASE msg = Exit
    BY <1>2, <2>1 DEF LogHandle, fileVars, FileTypes, HistoryOK, Days
  <2>2. CASE msg # Exit
    BY <1>2, <2>2, WriteType DEF LogHandle, TypeOK, Items
  <2> QED
    BY <2>1, <2>2
<1>3. CASE Initialize
  BY <1>3 DEF Initialize, fileVars, FileTypes, HistoryOK, Days
<1>4. ASSUME CloseFile, m_initialized' \in BOOLEAN PROVE FileTypes'
  BY <1>4 DEF CloseFile, FileTypes, HistoryOK, Days
<1>5. CASE Uninitialize
  <2>1. m_initialized' \in BOOLEAN
    BY <1>5 DEF Uninitialize
  <2>2. CASE running
    BY <1>5, <2>1, <2>2 DEF Uninitialize, fileVars, FileTypes, HistoryOK, Days
  <2> QED
    BY <1>4, <1>5, <2>1, <2>2 DEF Uninitialize
<1>6. CASE Stopped
  BY <1>4, <1>6 DEF Stopped, FileTypes
<1>7. CASE NextDay
  BY <1>7, LoggerAssumption, SMTT(30) DEF NextDay, fileVars, FileTypes, HistoryOK, Days
<1> QED
  BY <1>1, <1>2, <1>3, <1>5, <1>6, <1>7
  DEF LogNext, QueueStep, LogDone, allVars

(* The logger, its queue, its files and the disk keep their types.         *)
THEOREM LoggerTypeCorrect == LogSpec => []LoggerTypeOK
<1>1. LoggerInit => Init
  BY DEF LoggerInit
<1>2. QueueInv => TypeOK
  BY DEF QueueInv
<1>3. TypeOK /\ FileTypes => LoggerTypeOK
  BY DEF FileTypes, LoggerTypeOK
<1> QED
  BY <1>1, <1>2, <1>3, LogStep, QueueInit, QueueNext, FileTypesInit,
     FileTypesNext, PTL
  DEF LogSpec

----------------------------------------------------------------------------
(* What is in the files.                                                   *)

(* The messages number i to j of a log. *)
Part(l, i, j) == [k \in 1..(j - i + 1) |-> l[i + k - 1].m]

(* The file being written ends with the end of the log, and as long as it  *)
(* is not over the limit m_printed_size is what was printed to it.         *)
OpenFile ==
  m_file # None =>
    /\ \E i \in 1..(Len(logged) + 1) : disk[m_file] = Part(logged, i, Len(logged))
    /\ m_printed_size <= MaxSize =>
         /\ Len(disk[m_file]) = m_printed_size
         /\ \A k \in 1..Len(disk[m_file]) : disk[m_file][k][2] \notin Big

SoundInv == WholeFiles /\ FileBounded /\ OpenFile

(* Files of an earlier run are not read: they count as empty. *)
LEMMA SoundInit == LoggerInit => SoundInv
<1> SUFFICES ASSUME LoggerInit PROVE SoundInv
  OBVIOUS
<1>1. \A n \in DOMAIN disk : disk[n] = <<>>
  BY DEF LoggerInit
<1>2. Part(logged, 1, 0) = <<>> /\ Len(logged) = 0
  BY DEF Part, LoggerInit
<1>3. WholeFiles
  BY <1>1, <1>2 DEF WholeFiles, Part
<1> QED
  BY <1>1, <1>3, LoggerAssumption DEF SoundInv, FileBounded, OpenFile, LoggerInit

(* A message printed to the open file, which is within its limit, leaves   *)
(* every file a part of the log and none longer than allowed.              *)
LEMMA PrintSound ==
  ASSUME FileTypes, NEW m \in Messages, NEW n \in Names, NEW files,
         NEW size \in Nat, NEW nth \in Nat,
         PrintTo(n, files, size, m, nth), m_file' = n, n \in DOMAIN files,
         files = [x \in DOMAIN files |-> files[x]],
         \A x \in DOMAIN files :
           /\ files[x] \in Seq(Messages)
           /\ \E i \in 1..(Len(logged) + 1), j \in 0..Len(logged) :
                files[x] = Part(logged, i, j)
           /\ Len(files[x]) <= MaxSize + 1
           /\ \A i \in 1..(Len(files[x]) - 1) : files[x][i][2] \notin Big,
         \E i \in 1..(Len(logged) + 1) : files[n] = Part(logged, i, Len(logged)),
         size <= MaxSize, Len(files[n]) = size,
         \A k \in 1..size : files[n][k][2] \notin Big
  PROVE  SoundInv'
<1> DEFINE e == [m |-> m, d |-> n[1], k |-> nth]
<1>0. /\ logged \in Seq([m: Messages, d: 0..MaxDay, k: Nat])
      /\ MaxSize \in Nat
  BY LoggerAssumption DEF FileTypes, HistoryOK
<1>1. /\ logged' = Append(logged, e) /\ Len(logged) \in Nat
      /\ Len(logged') = Len(logged) + 1
      /\ \A k \in 1..Len(logged) : logged'[k] = logged[k]
      /\ logged'[Len(logged) + 1].m = m
  BY <1>0 DEF PrintTo
<1>2. /\ DOMAIN disk' = DOMAIN files
      /\ disk'[n] = Append(files[n], m)
      /\ \A x \in DOMAIN files : x # n => disk'[x] = files[x]
  BY DEF PrintTo
<1>3. ASSUME NEW i \in 1..(Len(logged) + 1), NEW j \in 0..Len(logged)
      PROVE  Part(logged', i, j) = Part(logged, i, j)
  <2>1. \A k \in 1..(j - i + 1) : i + k - 1 \in 1..Len(logged)
    BY <1>1
  <2> QED
    BY <1>1, <2>1 DEF Part
<1>4. PICK i \in 1..(Len(logged) + 1) : files[n] = Part(logged, i, Len(logged))
  OBVIOUS
<1>5. Append(files[n], m) = Part(logged', i, Len(logged) + 1)
  <2> DEFINE L == Len(logged) - i + 1
             g == Append(files[n], m)
  <2>1. L \in Nat /\ files[n] = [k \in 1..L |-> logged[i + k - 1].m]
    BY <1>1, <1>4, SMTT(30) DEF Part
  <2>2. Len(files[n]) = L
    <3>1. files[n] \in Seq(Messages) /\ DOMAIN files[n] = 1..L
      BY <2>1
    <3>2. DOMAIN files[n] = 1..Len(files[n]) /\ Len(files[n]) \in Nat
      BY <3>1, LenProperties
    <3> HIDE DEF L
    <3> QED
      BY <2>1, <3>1, <3>2
  <2>3. /\ g \in Seq(Messages) /\ Len(g) = L + 1 /\ g[L + 1] = m
        /\ \A k \in 1..L : g[k] = files[n][k]
    <3>1. files[n] \in Seq(Messages)
      OBVIOUS
    <3> HIDE DEF L
    <3> QED
      BY <2>1, <2>2, <3>1, AppendProperties
  <2>4. g = [k \in 1..(L + 1) |-> g[k]]
    <3> HIDE DEF g, L
    <3> QED
      BY <2>3
  <2>5. ASSUME NEW k \in 1..(L + 1) PROVE g[k] = logged'[i + k - 1].m
    <3>1. CASE k \in 1..L
      <4>1. g[k] = logged[i + k - 1].m
        BY <2>1, <2>3, <3>1
      <4>2. i + k - 1 \in 1..Len(logged)
        BY <1>1, <3>1
      <4> QED
        BY <1>1, <4>1, <4>2
    <3>2. CASE k = L + 1
      <4>1. i + k - 1 = Len(logged) + 1
        BY <1>1, <3>2
      <4> QED
        BY <1>1, <2>3, <3>2, <4>1
    <3> QED
      BY <2>1, <3>1, <3>2, SMTT(30)
  <2>6. Len(logged) + 1 - i + 1 = L + 1
    BY <1>1
  <2>7. Part(logged', i, Len(logged) + 1) = [k \in 1..(L + 1) |-> logged'[i + k - 1].m]
    BY <2>6 DEF Part
  <2> HIDE DEF g, L
  <2>8. g = [k \in 1..(L + 1) |-> logged'[i + k - 1].m]
    BY <2>4, <2>5
  <2> QED
    BY <2>7, <2>8 DEF g
<1>6. WholeFiles'
  <2> SUFFICES ASSUME NEW x \in DOMAIN disk'
               PROVE  \E a \in 1..(Len(logged') + 1), b \in 0..Len(logged') :
                        disk'[x] = Part(logged', a, b)
    BY DEF WholeFiles, Part
  <2>1. CASE x = n
    <3>1. i \in 1..(Len(logged') + 1) /\ Len(logged) + 1 \in 0..Len(logged')
      BY <1>1
    <3> QED
      BY <1>1, <1>2, <1>5, <2>1, <3>1
  <2>2. CASE x # n
    <3>1. PICK a \in 1..(Len(logged) + 1), b \in 0..Len(logged) :
            files[x] = Part(logged, a, b)
      BY <1>2
    <3>2. disk'[x] = Part(logged', a, b)
      BY <1>2, <1>3, <2>2, <3>1
    <3>3. a \in 1..(Len(logged') + 1) /\ b \in 0..Len(logged')
      BY <1>1, <3>1
    <3> QED
      BY <3>2, <3>3
  <2> QED
    BY <2>1, <2>2
<1>7. /\ Len(disk'[n]) = size + 1 /\ disk'[n][size + 1] = m
      /\ \A k \in 1..size : disk'[n][k] = files[n][k]
  BY <1>2
<1>8. FileBounded'
  <2> SUFFICES ASSUME NEW x \in DOMAIN disk'
               PROVE  /\ Len(disk'[x]) <= MaxSize + 1
                      /\ \A k \in 1..(Len(disk'[x]) - 1) : disk'[x][k][2] \notin Big
    BY DEF FileBounded
  <2>1. CASE x = n
    <3>1. Len(disk'[n]) <= MaxSize + 1 /\ Len(disk'[n]) - 1 = size
      BY <1>0, <1>7
    <3>2. \A k \in 1..size : disk'[n][k][2] \notin Big
      BY <1>7
    <3> QED
      BY <2>1, <3>1, <3>2
  <2>2. CASE x # n
    BY <1>2, <2>2
  <2> QED
    BY <2>1, <2>2
<1>9. OpenFile'
  <2>1. \E a \in 1..(Len(logged') + 1) : disk'[n] = Part(logged', a, Len(logged'))
    <3>1. i \in 1..(Len(logged') + 1)
      BY <1>1
    <3>2. disk'[n] = Part(logged', i, Len(logged'))
      BY <1>1, <1>2, <1>5 DEF Part
    <3> QED
      BY <3>1, <3>2
  <2>2. ASSUME m_printed_size' <= MaxSize
        PROVE  m_printed_size' = size + 1 /\ m[2] \notin Big
    BY <1>0, <2>2 DEF PrintTo, Size
  <2>3. m_printed_size' <= MaxSize =>
          /\ Len(disk'[n]) = m_printed_size'
          /\ \A k \in 1..Len(disk'[n]) : disk'[n][k][2] \notin Big
    BY <1>7, <2>2, SMTT(30)
  <2> QED
    BY <2>1, <2>3 DEF OpenFile, Part
<1> QED
  BY <1>6, <1>8, <1>9 DEF SoundInv
(* write_log keeps the files sound. *)
LEMMA WriteSound ==
  ASSUME FileTypes, SoundInv, NEW m \in Messages, WriteLog(m)
  PROVE  SoundInv'
<1> USE DEF FileTypes, HistoryOK
<1>0. Len(opened) \in Nat /\ Len(opened) + 1 \in Nat /\ Len(logged) \in Nat
  OBVIOUS
<1>1. \A x \in DOMAIN disk :
        /\ disk[x] \in Seq(Messages)
        /\ \E i \in 1..(Len(logged) + 1), j \in 0..Len(logged) :
             disk[x] = Part(logged, i, j)
        /\ Len(disk[x]) <= MaxSize + 1
        /\ \A i \in 1..(Len(disk[x]) - 1) : disk[x][i][2] \notin Big
  BY DEF SoundInv, WholeFiles, FileBounded, Part
<1>2. CASE ~Rotate /\ ~UNCHANGED <<disk, logged, m_file, m_printed_size>>
  <2>1. /\ m_file \in Names /\ m_file \in DOMAIN disk
        /\ PrintTo(m_file, disk, m_printed_size, m, Len(opened))
        /\ m_file' = m_file /\ m_printed_size <= MaxSize
    BY <1>2, LoggerAssumption DEF Rotate, WriteLog, NotPrinted
  <2>2. /\ \E i \in 1..(Len(logged) + 1) : disk[m_file] = Part(logged, i, Len(logged))
        /\ Len(disk[m_file]) = m_printed_size
        /\ \A k \in 1..m_printed_size : disk[m_file][k][2] \notin Big
    BY <1>2, <2>1 DEF SoundInv, OpenFile, Rotate
  <2> QED
    BY <1>0, <1>1, <2>1, <2>2, PrintSound
<1>3. CASE Rotate /\ ~UNCHANGED <<disk, logged, m_file, m_printed_size>>
  <2> DEFINE n == <<Tag, NewSeq>>
  <2>1. CASE /\ m_file' = n
             /\ \/ PrintTo(n, Created(n), 0, m, Len(opened) + 1)
                \/ NotPrinted(Created(n), 0)
    <3>1. n \in Names
      BY NewSeqType, LoggerAssumption DEF Names, Tag
    <3>2. /\ Created(n) = [x \in DOMAIN Created(n) |-> Created(n)[x]]
          /\ DOMAIN Created(n) = DOMAIN disk \union {n} /\ Created(n)[n] = <<>>
          /\ \A x \in DOMAIN disk : x # n => Created(n)[x] = disk[x]
      BY DEF Created
    <3>3. <<>> = Part(logged, Len(logged) + 1, Len(logged))
      BY <1>0 DEF Part
    <3> HIDE DEF n
    <3>4. ASSUME NEW x \in DOMAIN Created(n)
          PROVE  /\ Created(n)[x] \in Seq(Messages)
                 /\ \E i \in 1..(Len(logged) + 1), j \in 0..Len(logged) :
                      Created(n)[x] = Part(logged, i, j)
                 /\ Len(Created(n)[x]) <= MaxSize + 1
                 /\ \A i \in 1..(Len(Created(n)[x]) - 1) :
                      Created(n)[x][i][2] \notin Big
      <4>1. CASE x = n
        <5>1. Len(logged) + 1 \in 1..(Len(logged) + 1) /\ Len(logged) \in 0..Len(logged)
          BY <1>0
        <5>2. Created(n)[x] = <<>>
          BY <3>2, <4>1
        <5>3. <<>> \in Seq(Messages) /\ Len(<<>>) = 0 /\ 0 <= MaxSize + 1
          BY LoggerAssumption
        <5>4. \A i \in 1..(0 - 1) : <<>>[i][2] \notin Big
          OBVIOUS
        <5>5. \E i \in 1..(Len(logged) + 1), j \in 0..Len(logged) :
                <<>> = Part(logged, i, j)
          BY <3>3, <5>1
        <5> QED
          BY <5>2, <5>3, <5>4, <5>5
      <4>2. CASE x # n
        <5>1. x \in DOMAIN disk /\ Created(n)[x] = disk[x]
          BY <3>2, <4>2
        <5> QED
          BY <1>1, <5>1
      <4> QED
        BY <4>1, <4>2
    <3>5. \E i \in 1..(Len(logged) + 1) : Created(n)[n] = Part(logged, i, Len(logged))
      <4>1. Len(logged) + 1 \in 1..(Len(logged) + 1)
        BY <1>0
      <4>2. Created(n)[n] = Part(logged, Len(logged) + 1, Len(logged))
        BY <3>2, <3>3
      <4> QED
        BY <4>1, <4>2
    <3>6. 0 \in Nat /\ 0 <= MaxSize /\ Len(Created(n)[n]) = 0
      BY <3>2, LoggerAssumption
    <3>7. \A k \in 1..0 : Created(n)[n][k][2] \notin Big
      OBVIOUS
    <3>8. CASE PrintTo(n, Created(n), 0, m, Len(opened) + 1)
      BY <1>0, <2>1, <3>8, <3>1, <3>2, <3>4, <3>5, <3>6, <3>7, PrintSound, ZenonT(30)
    <3>9. CASE NotPrinted(Created(n), 0)
      <4>1. /\ disk' = Created(n) /\ logged' = logged /\ m_file' = n
            /\ m_printed_size' = 0
        BY <2>1, <3>9 DEF NotPrinted
      <4>2. WholeFiles' /\ FileBounded'
        BY <3>4, <4>1 DEF WholeFiles, FileBounded, Part
      <4>3. OpenFile'
        BY <3>5, <3>6, <3>7, <4>1 DEF OpenFile
      <4> QED
        BY <4>2, <4>3 DEF SoundInv
    <3> QED
      BY <2>1, <3>8, <3>9
  <2>2. CASE m_file' = None /\ UNCHANGED <<disk, logged>>
    BY <2>2 DEF SoundInv, WholeFiles, FileBounded, OpenFile
  <2> QED
    BY <1>3, <2>1, <2>2 DEF WriteLog, NotPrinted, Tag
<1>4. CASE UNCHANGED <<disk, logged, m_file, m_printed_size>>
  BY <1>4, SMTT(30) DEF SoundInv, WholeFiles, FileBounded, OpenFile
<1> QED
  BY <1>2, <1>3, <1>4

(* No other step touches the files; a closed file is not written again. *)
LEMMA SoundNext ==
  TypeOK /\ FileTypes /\ SoundInv /\ [LogNext]_allVars => SoundInv'
<1> SUFFICES ASSUME TypeOK, FileTypes, SoundInv, [LogNext]_allVars
             PROVE  SoundInv'
  OBVIOUS
<1>1. CASE UNCHANGED fileVars
  BY <1>1, SMTT(30) DEF fileVars, SoundInv, WholeFiles, FileBounded, OpenFile
<1>2. CASE CloseFile
  BY <1>2 DEF CloseFile, SoundInv, WholeFiles, FileBounded, OpenFile
<1>3. CASE LogHandle
  BY <1>1, <1>3, WriteSound DEF LogHandle, TypeOK, Items
<1> QED
  BY <1>1, <1>2, <1>3
  DEF LogNext, QueueStep, LogDone, Initialize, Uninitialize, Stopped, NextDay,
      allVars, logVars

(* Whatever fails and however the ring is left, a file on the disk holds a *)
(* part of the log without a gap and stops at the message that took it     *)
(* over m_max_size.                                                        *)
THEOREM FilesCorrect == LogSpec => []FilesSound
<1>1. LoggerInit => Init
  BY DEF LoggerInit
<1>2. QueueInv => TypeOK
  BY DEF QueueInv
<1>3. SoundInv => FilesSound
  BY DEF SoundInv, FilesSound
<1> QED
  BY <1>1, <1>2, <1>3, LogStep, QueueInit, QueueNext, FileTypesInit,
     FileTypesNext, SoundInit, SoundNext, PTL
  DEF LogSpec

----------------------------------------------------------------------------
(* The order of the log.                                                   *)

(* Of two messages of one producer the first is the older one. *)
Before(x, y) == x # Exit /\ y # Exit /\ x[1] = y[1] => x[2] < y[2]

(* An item its producer has made, and not the one it is about to put, when *)
(* the producers have made c messages and are at a.                        *)
Made(x, c, a) ==
  x # Exit => /\ x[2] <= c[x[1]]
              /\ a[x[1]] = "admitted" => x[2] < c[x[1]]

(* The log has the messages of a producer in the order in which it made    *)
(* them, each at most once.                                                *)
LoggedInOrder ==
  \A i, j \in 1..Len(logged) : i < j => Before(logged[i].m, logged[j].m)

(* The same for what goes through the queue and the hands of run(). *)
OrderInv ==
  /\ \A i \in 1..Len(queue) : Made(queue[i], count, put)
  /\ Made(msg, count, put)
  /\ \A i \in 1..Len(logged) : Made(logged[i].m, count, put)
  /\ \A i, j \in 1..Len(queue) : i < j => Before(queue[i], queue[j])
  /\ \A i \in 1..Len(queue) : Before(msg, queue[i])
  /\ \A i \in 1..Len(logged), j \in 1..Len(queue) : Before(logged[i].m, queue[j])
  /\ \A i \in 1..Len(logged) : Before(logged[i].m, msg)
  /\ LoggedInOrder

(* Nothing is made at first. *)
LEMMA OrderInit == LoggerInit => OrderInv
BY DEF LoggerInit, Init, OrderInv, LoggedInOrder, Made, Before

(* What is printed is the message at hand. *)
LEMMA WriteLogged ==
  ASSUME NEW m, WriteLog(m)
  PROVE  \/ UNCHANGED logged
         \/ \E d, k : logged' = Append(logged, [m |-> m, d |-> d, k |-> k])
BY DEF WriteLog, PrintTo, NotPrinted

(* What was printed were messages. *)
LEMMA LoggedItems ==
  ASSUME FileTypes
  PROVE  /\ Len(logged) \in Nat
         /\ \A i \in 1..Len(logged) : logged[i].m \in Messages /\ logged[i].m \in Items
<1>1. logged \in Seq([m: Messages, d: 0..MaxDay, k: Nat])
  BY DEF FileTypes, HistoryOK
<1>2. \A i \in 1..Len(logged) : logged[i] \in [m: Messages, d: 0..MaxDay, k: Nat]
  BY <1>1, ElementOfSeq
<1>3. \A i \in 1..Len(logged) : logged[i].m \in Messages
  BY <1>2
<1> QED
  BY <1>1, <1>3 DEF Items

(* A push keeps the order, when the item is new. *)
LEMMA PushOrder ==
  ASSUME TypeOK, FileTypes, OrderInv, NEW e \in Items, queue' = Append(queue, e),
         UNCHANGED <<count, msg, logged>>,
         \A p \in Producers : put'[p] = "admitted" => put[p] = "admitted",
         Made(e, count', put'), Before(msg, e),
         \A i \in 1..Len(queue) : Before(queue[i], e),
         \A i \in 1..Len(logged) : Before(logged[i].m, e)
  PROVE  OrderInv'
<1>1. /\ Len(queue) \in Nat /\ Len(queue') = Len(queue) + 1
      /\ \A i \in 1..Len(queue) : queue'[i] = queue[i] /\ queue[i] \in Items
      /\ queue'[Len(queue) + 1] = e /\ msg \in Items
  BY DEF TypeOK
<1>2. ASSUME NEW x \in Items, Made(x, count, put) PROVE Made(x, count', put')
  BY <1>2 DEF Made, Items, Messages
<1>3. /\ \A i \in 1..Len(queue') : Made(queue'[i], count', put')
      /\ Made(msg, count', put') /\ \A i \in 1..Len(logged) : Made(logged[i].m, count', put')
  <2>1. \A i \in 1..Len(queue') : i \in 1..Len(queue) \/ i = Len(queue) + 1
    BY <1>1
  <2>2. Made(msg, count', put')
    BY <1>1, <1>2 DEF OrderInv
  <2> QED
    BY <1>1, <1>2, <2>1, <2>2, LoggedItems DEF OrderInv
<1>4. \A i, j \in 1..Len(queue') : i < j => Before(queue'[i], queue'[j])
  BY <1>1 DEF OrderInv
<1>5. /\ \A i \in 1..Len(queue') : Before(msg, queue'[i])
      /\ \A i \in 1..Len(logged), j \in 1..Len(queue') :
           Before(logged[i].m, queue'[j])
  BY <1>1 DEF OrderInv
<1> QED
  BY <1>3, <1>4, <1>5 DEF OrderInv, LoggedInOrder
(* Every step of the logger keeps the order. *)
LEMMA OrderNext ==
  QueueInv /\ FileTypes /\ OrderInv /\ [LogNext]_allVars => OrderInv'
<1> SUFFICES ASSUME QueueInv, FileTypes, OrderInv, [LogNext]_allVars
             PROVE  OrderInv'
  OBVIOUS
<1>0. TypeOK
  BY DEF QueueInv
<1>1. ASSUME UNCHANGED <<queue, logged, count, put>>, msg' \in {msg, Exit}
      PROVE  OrderInv'
  BY <1>1 DEF OrderInv, LoggedInOrder, Made, Before
<1>2. ASSUME UNCHANGED <<queue, logged, msg>>,
             \A x \in Items : Made(x, count, put) => Made(x, count', put')
      PROVE  OrderInv'
  <2>1. \A i \in 1..Len(queue) : queue[i] \in Items
    BY <1>0 DEF TypeOK
  <2>2. msg \in Items
    BY <1>0 DEF TypeOK
  <2> QED
    BY <1>2, <2>1, <2>2, LoggedItems DEF OrderInv, LoggedInOrder
<1>3. ASSUME NEW p \in Producers, Put(p), UNCHANGED logged PROVE OrderInv'
  <2>1. \A x \in Items : Made(x, count, put) => Made(x, count', put')
    BY <1>0, <1>3, QueueAssumption DEF Put, Made, Items, Messages, TypeOK
  <2> QED
    BY <1>2, <1>3, <2>1 DEF Put
<1>4. ASSUME NEW p \in Producers, PutSignal(p), UNCHANGED logged PROVE OrderInv'
  <2>1. \A x \in Items : Made(x, count, put) => Made(x, count', put')
    BY <1>0, <1>4 DEF PutSignal, Made, Items, Messages, TypeOK
  <2> QED
    BY <1>2, <1>4, <2>1 DEF PutSignal
<1>5. ASSUME NEW p \in Producers, PutLocked(p), UNCHANGED logged PROVE OrderInv'
  <2> DEFINE e == <<p, count[p]>>
  <2>1. /\ count[p] \in 1..MaxPut /\ put[p] = "admitted"
        /\ put' \in [Producers -> {"idle", "admitted", "signal"}] /\ put'[p] # "admitted"
        /\ \A q \in Producers : put'[q] = "admitted" => put[q] = "admitted"
        /\ UNCHANGED count
    <3>1. count[p] \in 0..MaxPut /\ put[p] = "admitted" /\ count[p] # 0
      BY <1>5 DEF PutLocked, QueueInv, Admitted, TypeOK
    <3>2. \E s \in {"idle", "signal"} : put' = [put EXCEPT ![p] = s]
      BY <1>5 DEF PutLocked
    <3>3. put \in [Producers -> {"idle", "admitted", "signal"}]
      BY <1>0 DEF TypeOK
    <3>4. UNCHANGED count
      BY <1>5 DEF PutLocked
    <3> QED
      BY <3>1, <3>2, <3>3, <3>4, QueueAssumption
  <2>2. ASSUME NEW x \in Items, Made(x, count, put) PROVE Before(x, e)
    BY <2>1, <2>2 DEF Made, Before, Items, Messages
  <2>3. e \in Items /\ Made(e, count', put')
    BY <2>1 DEF Items, Messages, Made
  <2>4. CASE Len(queue) < MaxLen
    <3>1. queue' = Append(queue, e) /\ UNCHANGED <<count, msg, logged>>
      BY <1>5, <2>4 DEF PutLocked
    <3>2. \A i \in 1..Len(queue) : queue[i] \in Items
      BY <1>0 DEF TypeOK
    <3>3. msg \in Items
      BY <1>0 DEF TypeOK
    <3>4. /\ Before(msg, e) /\ \A i \in 1..Len(queue) : Before(queue[i], e)
          /\ \A i \in 1..Len(logged) : Before(logged[i].m, e)
      BY <2>2, <3>2, <3>3, LoggedItems DEF OrderInv
    <3> HIDE DEF e
    <3> QED
      BY <1>0, <2>1, <2>3, <3>1, <3>4, PushOrder
  <2>5. CASE ~(Len(queue) < MaxLen)
    <3>1. \A x \in Items : Made(x, count, put) => Made(x, count', put')
      BY <2>1 DEF Made, Items, Messages
    <3> QED
      BY <1>2, <1>5, <2>5, <3>1 DEF PutLocked
  <2> QED
    BY <2>4, <2>5
<1>6. ASSUME StopPut, UNCHANGED logged PROVE OrderInv'
  <2>1. CASE Len(queue) < MaxLen
    <3>1. queue' = Append(queue, Exit) /\ UNCHANGED <<count, put, msg, logged>>
      BY <1>6, <2>1 DEF StopPut
    <3>2. \A x : Before(x, Exit)
      BY DEF Before
    <3>3. Exit \in Items /\ Made(Exit, count', put')
      BY DEF Items, Made
    <3>4. \A p \in Producers : put'[p] = "admitted" => put[p] = "admitted"
      BY <3>1
    <3> QED
      BY <1>0, <3>1, <3>2, <3>3, <3>4, PushOrder
  <2>2. CASE ~(Len(queue) < MaxLen)
    BY <1>1, <1>6, <2>2 DEF StopPut
  <2> QED
    BY <2>1, <2>2
<1>7. ASSUME Pop, queue # <<>>, UNCHANGED <<logged, count, put>> PROVE OrderInv'
  <2>1. /\ Len(queue') = Len(queue) - 1 /\ Len(queue) \in Nat \ {0}
        /\ \A i \in 1..Len(queue') : queue'[i] = queue[i + 1] /\ i + 1 \in 1..Len(queue)
        /\ msg' = queue[1]
    BY <1>0, <1>7 DEF Pop, TypeOK
  <2>2. /\ \A i \in 1..Len(queue') : Made(queue'[i], count', put')
        /\ Made(msg', count', put')
        /\ \A i \in 1..Len(logged') : Made(logged'[i].m, count', put')
    BY <1>7, <2>1 DEF OrderInv
  <2>3. /\ \A i, j \in 1..Len(queue') : i < j => Before(queue'[i], queue'[j])
        /\ \A i \in 1..Len(queue') : Before(msg', queue'[i])
    <3>1. \A a, b \in 1..Len(queue) : a < b => Before(queue[a], queue[b])
      BY DEF OrderInv
    <3>2. ASSUME NEW i \in 1..Len(queue'), NEW j \in 1..Len(queue'), i < j
          PROVE  Before(queue'[i], queue'[j])
      <4>1. /\ i + 1 \in 1..Len(queue) /\ j + 1 \in 1..Len(queue) /\ i + 1 < j + 1
            /\ queue'[i] = queue[i + 1] /\ queue'[j] = queue[j + 1]
        BY <2>1, <3>2
      <4> QED
        BY <3>1, <4>1
    <3>3. ASSUME NEW i \in 1..Len(queue') PROVE Before(msg', queue'[i])
      <4>1. /\ i + 1 \in 1..Len(queue) /\ 1 \in 1..Len(queue) /\ 1 < i + 1
            /\ queue'[i] = queue[i + 1] /\ msg' = queue[1]
        BY <2>1
      <4> QED
        BY <3>1, <4>1
    <3> QED
      BY <3>2, <3>3
  <2>4. /\ \A i \in 1..Len(logged'), j \in 1..Len(queue') :
             Before(logged'[i].m, queue'[j])
        /\ \A i \in 1..Len(logged') : Before(logged'[i].m, msg')
    BY <1>7, <2>1 DEF OrderInv
  <2>5. LoggedInOrder'
    BY <1>7 DEF OrderInv, LoggedInOrder
  <2> QED
    BY <2>2, <2>3, <2>4, <2>5 DEF OrderInv
<1>8. ASSUME Get \/ Woken, UNCHANGED logged PROVE OrderInv'
  BY <1>1, <1>7, <1>8 DEF Get, Woken
<1>9. ASSUME Clear, UNCHANGED logged PROVE OrderInv'
  BY <1>9 DEF Clear, OrderInv, LoggedInOrder
<1>10. CASE LogHandle
  <2>1. UNCHANGED <<queue, count, put>> /\ msg' = Exit
    BY <1>10 DEF LogHandle, Handle
  <2>2. CASE UNCHANGED logged
    BY <1>1, <2>1, <2>2
  <2>3. CASE logged' # logged
    <3>1. msg # Exit /\ WriteLog(msg)
      BY <1>10, <2>3 DEF LogHandle, fileVars
    <3>2. PICK d, k : logged' = Append(logged, [m |-> msg, d |-> d, k |-> k])
      BY <2>3, <3>1, WriteLogged
    <3>3. /\ Len(logged) \in Nat /\ Len(logged') = Len(logged) + 1
          /\ \A i \in 1..Len(logged) : logged'[i] = logged[i]
          /\ logged'[Len(logged) + 1].m = msg
      BY <3>2 DEF FileTypes, HistoryOK
    <3>4. Made(msg', count', put') /\ \A x : Before(x, msg') /\ Before(msg', x)
      BY <2>1 DEF Made, Before
    <3> QED
      BY <2>1, <3>3, <3>4 DEF OrderInv, LoggedInOrder
  <2> QED
    BY <2>2, <2>3
<1>11. CASE QueueStep
  <2>1. UNCHANGED logged
    BY <1>11 DEF QueueStep, logVars, fileVars
  <2>2. CASE ProducerNext
    BY <1>3, <1>4, <1>5, <2>1, <2>2 DEF ProducerNext
  <2>3. CASE Test \/ SpuriousWake \/ CreateThread \/ StopSignal \/ Undefined
    BY <1>1, <2>1, <2>3
    DEF Test, SpuriousWake, CreateThread, StopSignal, Undefined, vars
  <2> QED
    BY <1>6, <1>8, <1>9, <1>11, <2>1, <2>2, <2>3 DEF QueueStep
<1>12. CASE \/ Initialize \/ Uninitialize \/ Stopped \/ NextDay \/ LogDone
            \/ UNCHANGED allVars
  BY <1>1, <1>12
  DEF Initialize, Start, Uninitialize, Stop, Stopped, StopJoin, CloseFile,
      NextDay, LogDone, Done, allVars, logVars, fileVars, vars
<1> QED
  BY <1>10, <1>11, <1>12 DEF LogNext

(* The log has the messages of each producer in the order in which it made *)
(* them, and none of them twice, across rotations, restarts of the logger, *)
(* messages dropped at a full queue and files that cannot be created.      *)
THEOREM LogOrdered == LogSpec => []LoggedInOrder
<1>1. LoggerInit => Init
  BY DEF LoggerInit
<1>2. QueueInv => TypeOK
  BY DEF QueueInv
<1>3. OrderInv => LoggedInOrder
  BY DEF OrderInv
<1> QED
  BY <1>1, <1>2, <1>3, LogStep, QueueInit, QueueNext, FileTypesInit,
     FileTypesNext, OrderInit, OrderNext, PTL
  DEF LogSpec

----------------------------------------------------------------------------
(* How long a message can be read.                                         *)

(* The files of its day created after the one an entry was printed to. *)
LaterFiles(e, op) == {k \in (e.k + 1)..Len(op) : op[k][1] = e.d}

(* An entry of the log, when op are the files created, the last of them    *)
(* with number seq for the day tag: it is in its own file only, there it   *)
(* is until MaxFile later files of its day have been created, and so far   *)
(* its file is as many places behind seq in the ring as there are later    *)
(* files.                                                                  *)
EntryOK(e, files, op, seq, tag) ==
  /\ e.k \in 1..Len(op) /\ op[e.k][1] = e.d
  /\ \A n \in DOMAIN files : e.m \in Range(files[n]) => n = op[e.k]
  /\ Cardinality(LaterFiles(e, op)) < MaxFile =>
       op[e.k] \in DOMAIN files /\ e.m \in Range(files[op[e.k]])
  /\ Cardinality(LaterFiles(e, op)) >= MaxFile =>
       \A n \in DOMAIN files : e.m \notin Range(files[n])
  /\ e.d = tag /\ Cardinality(LaterFiles(e, op)) < MaxFile =>
       op[e.k][2] + Cardinality(LaterFiles(e, op)) \in {seq, seq + MaxFile}

(* The day of the newest file, 0 when the names carry no date. *)
FileTag == IF m_is_daily THEN m_day ELSE 0

(* Days only pass, and the newest file is the one m_seq and m_day name. *)
FilesFollow ==
  /\ m_log_file_path = None => logged = <<>>
  /\ opened # <<>> =>
       m_log_file_path # None /\ opened[Len(opened)] = <<FileTag, m_seq>>
  /\ m_file # None => opened # <<>> /\ m_file = opened[Len(opened)]
  /\ m_day <= day
  /\ \A k \in 1..Len(opened) : opened[k][1] <= FileTag

RetainInv ==
  fails = 0 =>
    /\ FilesFollow
    /\ \A i \in 1..Len(logged) : EntryOK(logged[i], disk, opened, m_seq, FileTag)

(* The later files are finitely many. *)
LEMMA LaterFinite ==
  ASSUME NEW e, e.k \in Nat, NEW op \in Seq(Names)
  PROVE  IsFiniteSet(LaterFiles(e, op)) /\ Cardinality(LaterFiles(e, op)) \in Nat
<1>1. Len(op) \in Nat
  OBVIOUS
<1>2. IsFiniteSet((e.k + 1)..Len(op))
  BY <1>1, FS_Interval, SMTT(30)
<1>3. LaterFiles(e, op) \subseteq (e.k + 1)..Len(op)
  BY DEF LaterFiles
<1>4. IsFiniteSet(LaterFiles(e, op))
  BY <1>2, <1>3, FS_Subset
<1> QED
  BY <1>4, FS_CardinalityType

(* A file created is one more for the entries of its day and none for the  *)
(* others.                                                                 *)
LEMMA LaterAppend ==
  ASSUME NEW e, NEW op \in Seq(Names), e.k \in 1..Len(op), NEW n \in Names
  PROVE  Cardinality(LaterFiles(e, Append(op, n))) =
           Cardinality(LaterFiles(e, op)) + IF n[1] = e.d THEN 1 ELSE 0
<1> DEFINE L == Len(op)
           a == LaterFiles(e, op)
           b == LaterFiles(e, Append(op, n))
<1>1. /\ L \in Nat /\ Len(Append(op, n)) = L + 1 /\ Append(op, n)[L + 1] = n
      /\ \A k \in 1..L : Append(op, n)[k] = op[k]
  BY AppendProperties
<1>2. b = IF n[1] = e.d THEN a \union {L + 1} ELSE a
  <2>1. (e.k + 1)..(L + 1) = ((e.k + 1)..L) \union {L + 1}
    BY <1>1
  <2>2. \A k \in (e.k + 1)..L : Append(op, n)[k] = op[k]
    BY <1>1
  <2>3. b = {k \in (e.k + 1)..(L + 1) : Append(op, n)[k][1] = e.d}
    BY <1>1 DEF LaterFiles
  <2>4. a = {k \in (e.k + 1)..L : op[k][1] = e.d}
    BY DEF LaterFiles
  <2> HIDE DEF a, b, L
  <2> QED
    BY <1>1, <2>1, <2>2, <2>3, <2>4
<1>3. IsFiniteSet(a) /\ Cardinality(a) \in Nat
  <2>1. e.k \in Nat
    OBVIOUS
  <2> QED
    BY <2>1, LaterFinite
<1>4. L + 1 \notin a
  BY <1>1 DEF LaterFiles
<1> HIDE DEF a, b, L
<1>5. Cardinality(a \union {L + 1}) = Cardinality(a) + 1
  BY <1>3, <1>4, FS_AddElement
<1>6. Cardinality(b) = Cardinality(a) + IF n[1] = e.d THEN 1 ELSE 0
  BY <1>2, <1>3, <1>5
<1> QED
  BY <1>6 DEF a, b

(* Going round the ring: from a file with number q, of which c later ones  *)
(* were created, the next number is q's own after MaxFile of them and not  *)
(* before.                                                                 *)
LEMMA RingStep ==
  ASSUME NEW q \in 1..MaxFile, NEW c \in Nat, NEW seq \in 0..MaxFile,
         c < MaxFile, q + c \in {seq, seq + MaxFile}
  PROVE  /\ c + 1 < MaxFile =>
              /\ NextSeq(seq) # q
              /\ q + (c + 1) \in {NextSeq(seq), NextSeq(seq) + MaxFile}
         /\ c + 1 = MaxFile => NextSeq(seq) = q
<1>1. MaxFile \in Nat \ {0}
  BY LoggerAssumption
<1>2. NextSeq(seq) = IF seq < MaxFile THEN seq + 1 ELSE 1
  BY NextSeqValue
<1> QED
  BY <1>1, <1>2

(* An entry of the log and the creation of another file. *)
LEMMA CreateKeeps ==
  ASSUME FileTypes, NEW e, NEW tag, EntryOK(e, disk, opened, m_seq, tag),
         NEW n \in Names,
         n[1] # e.d \/ (n[1] = e.d /\ tag = e.d /\ n[2] = NextSeq(m_seq))
  PROVE  EntryOK(e, Created(n), Append(opened, n), n[2], n[1])
<1> DEFINE op == Append(opened, n)
           c  == Cardinality(LaterFiles(e, opened))
           d  == Cardinality(LaterFiles(e, op))
           own == opened[e.k]
<1>0. opened \in Seq(Names) /\ m_seq \in 0..MaxFile /\ MaxFile \in Nat
  BY LoggerAssumption DEF FileTypes, HistoryOK
<1>1. /\ e.k \in 1..Len(opened) /\ own[1] = e.d
      /\ \A x \in DOMAIN disk : e.m \in Range(disk[x]) => x = own
      /\ c < MaxFile => own \in DOMAIN disk /\ e.m \in Range(disk[own])
      /\ c >= MaxFile => \A x \in DOMAIN disk : e.m \notin Range(disk[x])
      /\ e.d = tag /\ c < MaxFile => own[2] + c \in {m_seq, m_seq + MaxFile}
  BY DEF EntryOK
<1>2. /\ Len(opened) \in Nat /\ Len(op) = Len(opened) + 1
      /\ \A k \in 1..Len(opened) : op[k] = opened[k]
  BY <1>0, AppendProperties
<1>3. e.k \in 1..Len(op) /\ op[e.k] = own
  BY <1>1, <1>2
<1>4. c \in Nat
  <2>1. e.k \in Nat
    BY <1>1
  <2> QED
    BY <1>0, <2>1, LaterFinite
<1>5. d = c + IF n[1] = e.d THEN 1 ELSE 0
  BY <1>0, <1>1, LaterAppend
<1>6. own \in Names /\ own[2] \in 1..MaxFile /\ own = <<own[1], own[2]>>
  BY <1>0, <1>1 DEF Names
<1>7. n = <<n[1], n[2]>>
  BY DEF Names
<1>8. /\ DOMAIN Created(n) = DOMAIN disk \union {n}
      /\ Range(Created(n)[n]) = {}
      /\ \A x \in DOMAIN disk : x # n => Created(n)[x] = disk[x]
  BY DEF Created, Range
<1> HIDE DEF op, c, d, own
<1>9. CASE n[1] # e.d
  <2>1. n # own /\ d = c
    BY <1>1, <1>4, <1>5, <1>9
  <2>2. \A x \in DOMAIN Created(n) : e.m \in Range(Created(n)[x]) => x = own
    BY <1>1, <1>8
  <2>3. c < MaxFile => own \in DOMAIN Created(n) /\ e.m \in Range(Created(n)[own])
    BY <1>1, <1>8, <2>1
  <2>4. c >= MaxFile => \A x \in DOMAIN Created(n) : e.m \notin Range(Created(n)[x])
    BY <1>1, <1>8
  <2> QED
    BY <1>1, <1>3, <1>9, <2>1, <2>2, <2>3, <2>4 DEF EntryOK, op, d
<1>10. CASE n[1] = e.d /\ tag = e.d /\ n[2] = NextSeq(m_seq)
  <2>1. d = c + 1
    BY <1>4, <1>5, <1>10
  <2>2. \A x \in DOMAIN Created(n) : e.m \in Range(Created(n)[x]) => x = own
    BY <1>1, <1>8
  <2>3. d < MaxFile => /\ own # n
                       /\ own[2] + d \in {n[2], n[2] + MaxFile}
    BY <1>0, <1>1, <1>4, <1>6, <1>10, <2>1, RingStep
  <2>4. d < MaxFile => own \in DOMAIN Created(n) /\ e.m \in Range(Created(n)[own])
    BY <1>0, <1>1, <1>4, <1>8, <2>1, <2>3
  <2>5. c + 1 = MaxFile => n = own
    BY <1>0, <1>1, <1>4, <1>6, <1>7, <1>10, RingStep
  <2>6. d >= MaxFile => \A x \in DOMAIN Created(n) : e.m \notin Range(Created(n)[x])
    <3>1. CASE c >= MaxFile
      BY <1>1, <1>8, <3>1
    <3>2. CASE c + 1 = MaxFile
      BY <1>8, <2>2, <2>5, <3>2
    <3> QED
      BY <1>0, <1>4, <2>1, <3>1, <3>2
  <2> QED
    BY <1>1, <1>3, <2>2, <2>3, <2>4, <2>6 DEF EntryOK, op, d
<1> QED
  BY <1>9, <1>10

(* A message appended to a file is in that file and changes no other. *)
LEMMA AppendRange ==
  ASSUME NEW s \in Seq(Messages), NEW m \in Messages
  PROVE  Range(Append(s, m)) = Range(s) \union {m}
<1> DEFINE a == Append(s, m)
<1>1. /\ Len(s) \in Nat /\ DOMAIN s = 1..Len(s)
      /\ DOMAIN a = 1..(Len(s) + 1) /\ a[Len(s) + 1] = m
      /\ \A k \in 1..Len(s) : a[k] = s[k]
  BY AppendProperties, LenProperties
<1>2. \A k \in 1..(Len(s) + 1) : k \in 1..Len(s) \/ k = Len(s) + 1
  BY <1>1
<1>3. 1..Len(s) \subseteq 1..(Len(s) + 1) /\ Len(s) + 1 \in 1..(Len(s) + 1)
  BY <1>1
<1> HIDE DEF a
<1>4. Range(a) \subseteq Range(s) \union {m}
  BY <1>1, <1>2 DEF Range
<1>5. Range(s) \union {m} \subseteq Range(a)
  BY <1>1, <1>3 DEF Range
<1> QED
  BY <1>4, <1>5 DEF a

(* Printing another message leaves an entry of the log as it was. *)
LEMMA PrintKeeps ==
  ASSUME NEW e, NEW files, NEW op, NEW seq, NEW tag,
         EntryOK(e, files, op, seq, tag),
         \A x \in DOMAIN files : files[x] \in Seq(Messages),
         NEW n \in DOMAIN files, NEW m \in Messages, e.m # m
  PROVE  EntryOK(e, [files EXCEPT ![n] = Append(@, m)], op, seq, tag)
<1> DEFINE g == [files EXCEPT ![n] = Append(@, m)]
<1>1. DOMAIN g = DOMAIN files
  OBVIOUS
<1>2. ASSUME NEW x \in DOMAIN files
      PROVE  e.m \in Range(g[x]) <=> e.m \in Range(files[x])
  <2>1. CASE x = n
    <3>1. g[x] = Append(files[n], m)
      BY <2>1
    <3> QED
      BY <2>1, <3>1, AppendRange
  <2>2. CASE x # n
    BY <2>2
  <2> QED
    BY <2>1, <2>2
<1> HIDE DEF g
<1>3. EntryOK(e, g, op, seq, tag)
  BY <1>1, <1>2 DEF EntryOK
<1> QED
  BY <1>3 DEF g

(* The entry of a message printed to the newest file. *)
LEMMA PrintNew ==
  ASSUME NEW op \in Seq(Names), op # <<>>, NEW n, n = op[Len(op)],
         NEW files, n \in DOMAIN files,
         \A x \in DOMAIN files : files[x] \in Seq(Messages),
         NEW m \in Messages, \A x \in DOMAIN files : m \notin Range(files[x])
  PROVE  EntryOK([m |-> m, d |-> n[1], k |-> Len(op)],
                 [files EXCEPT ![n] = Append(@, m)], op, n[2], n[1])
<1> DEFINE g == [files EXCEPT ![n] = Append(@, m)]
           e == [m |-> m, d |-> n[1], k |-> Len(op)]
<1>0. Len(op) \in Nat /\ Len(op) # 0 /\ MaxFile \in Nat \ {0}
  BY EmptySeq, LoggerAssumption
<1>1. /\ DOMAIN g = DOMAIN files /\ g[n] = Append(files[n], m)
      /\ \A x \in DOMAIN files : x # n => g[x] = files[x]
  OBVIOUS
<1>2. /\ m \in Range(g[n])
      /\ \A x \in DOMAIN g : m \in Range(g[x]) => x = n
  BY <1>1, AppendRange
<1>3. Cardinality(LaterFiles(e, op)) = 0
  <2>1. LaterFiles(e, op) = {}
    BY <1>0 DEF LaterFiles
  <2> QED
    BY <2>1, FS_EmptySet
<1>4. e.m = m /\ e.d = n[1] /\ e.k = Len(op) /\ e.k \in 1..Len(op)
  BY <1>0
<1>5. n[2] + 0 \in {n[2], n[2] + MaxFile}
  <2>1. op[Len(op)] \in Names
    BY <1>0, ElementOfSeq
  <2>2. n[2] \in Nat
    BY <2>1 DEF Names
  <2> QED
    BY <2>2
<1> HIDE DEF g, e
<1>6. EntryOK(e, g, op, n[2], n[1])
  <2>1. 0 < MaxFile /\ ~(0 >= MaxFile) /\ op[e.k] = n
    BY <1>0, <1>4
  <2> QED
    BY <1>1, <1>2, <1>3, <1>4, <1>5, <2>1 DEF EntryOK
<1> QED
  BY <1>6 DEF e, g

(* A message at hand is in no file: the files hold messages of the log,    *)
(* and those were made before it.                                          *)
LEMMA Fresh ==
  ASSUME FileTypes, WholeFiles, OrderInv, msg \in Messages
  PROVE  /\ \A i \in 1..Len(logged) : logged[i].m # msg
         /\ \A n \in DOMAIN disk : msg \notin Range(disk[n])
<1>1. ASSUME NEW i \in 1..Len(logged) PROVE logged[i].m # msg
  <2>1. Before(logged[i].m, msg)
    BY DEF OrderInv
  <2>2. msg # Exit /\ msg[2] \in Nat
    BY QueueAssumption DEF Messages
  <2> QED
    BY <2>1, <2>2 DEF Before
<1>2. ASSUME NEW n \in DOMAIN disk, msg \in Range(disk[n]) PROVE FALSE
  <2>1. PICK i \in 1..(Len(logged) + 1), j \in 0..Len(logged) :
          disk[n] = [k \in 1..(j - i + 1) |-> logged[i + k - 1].m]
    BY DEF WholeFiles
  <2>2. PICK k \in 1..(j - i + 1) : msg = logged[i + k - 1].m
    BY <1>2, <2>1 DEF Range
  <2>3. i + k - 1 \in 1..Len(logged)
    BY LoggedItems
  <2> QED
    BY <1>1, <2>2, <2>3
<1> QED
  BY <1>1, <1>2

(* Nothing is logged at first. *)
LEMMA RetainInit == LoggerInit => RetainInv
<1> SUFFICES ASSUME LoggerInit PROVE RetainInv
  OBVIOUS
<1>1. logged = <<>> /\ opened = <<>> /\ m_file = None /\ m_day = 0 /\ day = 1
  BY DEF LoggerInit
<1>2. Len(logged) = 0 /\ Len(opened) = 0
  BY <1>1
<1> QED
  BY <1>1, <1>2 DEF RetainInv, FilesFollow

(* A message printed to the newest file, when the other entries are as     *)
(* they should be.                                                         *)
LEMMA PrintRetains ==
  ASSUME FileTypes, NEW m \in Messages, NEW n, NEW files, NEW op \in Seq(Names),
         op # <<>>, n = op[Len(op)], n \in DOMAIN files,
         NEW size, PrintTo(n, files, size, m, Len(op)),
         \A x \in DOMAIN files : files[x] \in Seq(Messages) /\ m \notin Range(files[x]),
         \A i \in 1..Len(logged) :
           logged[i].m # m /\ EntryOK(logged[i], files, op, n[2], n[1])
  PROVE  \A i \in 1..Len(logged') : EntryOK(logged'[i], disk', op, n[2], n[1])
<1> DEFINE e == [m |-> m, d |-> n[1], k |-> Len(op)]
<1>1. logged' = Append(logged, e) /\ disk' = [files EXCEPT ![n] = Append(@, m)]
  BY DEF PrintTo
<1>2. logged \in Seq([m: Messages, d: 0..MaxDay, k: Nat])
  BY DEF FileTypes, HistoryOK
<1>3. /\ Len(logged) \in Nat /\ Len(logged') = Len(logged) + 1
      /\ \A i \in 1..Len(logged) : logged'[i] = logged[i]
      /\ logged'[Len(logged) + 1] = e
  BY <1>1, <1>2
<1>4. \A x \in DOMAIN files : files[x] \in Seq(Messages)
  OBVIOUS
<1>5. ASSUME NEW i \in 1..Len(logged)
      PROVE  EntryOK(logged'[i], disk', op, n[2], n[1])
  <2>1. logged[i].m # m /\ EntryOK(logged[i], files, op, n[2], n[1])
    OBVIOUS
  <2>2. EntryOK(logged[i], [files EXCEPT ![n] = Append(@, m)], op, n[2], n[1])
    BY <1>4, <2>1, PrintKeeps
  <2> QED
    BY <1>1, <1>3, <2>2
<1>6. EntryOK(e, disk', op, n[2], n[1])
  BY <1>1, <1>4, PrintNew
<1> HIDE DEF e
<1> QED
  BY <1>3, <1>5, <1>6

(* write_log gives up the oldest file of the day, or none. *)
LEMMA RetainWrite ==
  ASSUME FileTypes, WholeFiles, OrderInv, RetainInv, msg \in Messages,
         WriteLog(msg), UNCHANGED <<m_is_daily, day>>
  PROVE  RetainInv'
<1> SUFFICES ASSUME fails' = 0
             PROVE  /\ FilesFollow'
                    /\ \A i \in 1..Len(logged') :
                         EntryOK(logged'[i], disk', opened', m_seq', FileTag')
  BY DEF RetainInv
<1>0. /\ fails \in 0..MaxFail /\ opened \in Seq(Names) /\ m_seq \in 0..MaxFile
      /\ m_day \in 0..MaxDay /\ day \in 1..MaxDay /\ m_is_daily \in BOOLEAN
      /\ \A x \in DOMAIN disk : disk[x] \in Seq(Messages)
      /\ m_file # None => m_file \in DOMAIN disk
  BY DEF FileTypes, HistoryOK
<1>1. /\ \A i \in 1..Len(logged) : logged[i].m # msg
      /\ \A x \in DOMAIN disk : msg \notin Range(disk[x])
  BY Fresh
<1>2. fails = 0 /\ ~(fails' = fails + 1)
  BY <1>0 DEF WriteLog, NotPrinted
<1>3. /\ FilesFollow
      /\ \A i \in 1..Len(logged) : EntryOK(logged[i], disk, opened, m_seq, FileTag)
  BY <1>2 DEF RetainInv
<1>4. CASE ~Rotate
  <2>1. /\ m_file # None /\ m_file \in DOMAIN disk
        /\ PrintTo(m_file, disk, m_printed_size, msg, Len(opened))
        /\ UNCHANGED <<m_day, m_seq, m_file, m_log_file_path, fails, opened>>
    BY <1>0, <1>2, <1>4 DEF Rotate, WriteLog, NotPrinted
  <2>2. /\ opened # <<>> /\ m_file = opened[Len(opened)]
        /\ m_file[1] = FileTag /\ m_file[2] = m_seq
    BY <1>3, <2>1 DEF FilesFollow
  <2>3. \A i \in 1..Len(logged') :
          EntryOK(logged'[i], disk', opened, m_file[2], m_file[1])
    BY <1>0, <1>1, <1>3, <2>1, <2>2, PrintRetains
  <2>4. FileTag' = FileTag
    BY <2>1 DEF FileTag
  <2>5. m_log_file_path # None
    BY <1>3, <2>2 DEF FilesFollow
  <2> QED
    BY <1>3, <2>1, <2>2, <2>3, <2>4, <2>5 DEF FilesFollow
<1>5. CASE Rotate
  <2> DEFINE n == <<Tag, NewSeq>>
             op == Append(opened, n)
  <2>1. /\ m_seq' = NewSeq /\ m_log_file_path' = n
        /\ m_file' = n /\ m_day' = day /\ opened' = op
        /\ PrintTo(n, Created(n), 0, msg, Len(opened) + 1)
    BY <1>2, <1>5 DEF WriteLog, NotPrinted, Tag
  <2>2. NewSeq \in 1..MaxFile
    BY <1>0, NewSeqType
  <2>3. n \in Names /\ n # None /\ n[1] = Tag /\ n[2] = NewSeq
    BY <1>0, <2>2, LoggerAssumption DEF Names, Tag
  <2>4. /\ op \in Seq(Names) /\ Len(op) = Len(opened) + 1 /\ Len(opened) \in Nat
        /\ op # <<>> /\ op[Len(op)] = n
        /\ \A k \in 1..Len(opened) : op[k] = opened[k]
    <3> HIDE DEF n
    <3>1. /\ op \in Seq(Names) /\ Len(op) = Len(opened) + 1 /\ Len(opened) \in Nat
          /\ op[Len(op)] = n /\ \A k \in 1..Len(opened) : op[k] = opened[k]
      BY <1>0, <2>3, AppendProperties
    <3>2. op # <<>>
      BY <3>1
    <3> QED
      BY <3>1, <3>2
  <2>5. FileTag' = Tag /\ FileTag \in Nat /\ Tag \in Nat /\ FileTag <= Tag
    BY <1>0, <1>3, <2>1 DEF FileTag, Tag, FilesFollow
  <2> HIDE DEF n, op
  <2>6. ASSUME NEW i \in 1..Len(logged)
        PROVE  EntryOK(logged[i], Created(n), op, n[2], n[1])
    <3> DEFINE e == logged[i]
    <3>1. EntryOK(e, disk, opened, m_seq, FileTag)
      BY <1>3
    <3>2. m_log_file_path # None
      BY <1>3 DEF FilesFollow
    <3>3. NewSeq = FirstSeq
      BY <3>2 DEF NewSeq
    <3>4. CASE NewDay
      <4>1. Tag = day /\ FileTag = m_day /\ m_day < day
        BY <1>0, <1>3, <3>4 DEF NewDay, Tag, FileTag, FilesFollow
      <4>2. e.k \in 1..Len(opened) /\ opened[e.k][1] = e.d
        BY <3>1 DEF EntryOK
      <4>3. e.d <= FileTag
        BY <1>3, <4>2 DEF FilesFollow
      <4>4. e.d \in Nat
        BY <1>0, <4>2, SMTT(30) DEF Names
      <4>5. n[1] # e.d
        BY <1>0, <2>3, <4>1, <4>3, <4>4
      <4> HIDE DEF e
      <4>6. EntryOK(e, Created(n), Append(opened, n), n[2], n[1])
        BY <2>3, <3>1, <4>5, CreateKeeps
      <4> QED
        BY <4>6 DEF op, e
    <3>5. CASE ~NewDay
      <4>1. Tag = FileTag
        BY <3>5 DEF NewDay, Tag, FileTag
      <4>2. FirstSeq = NextSeq(m_seq)
        BY <1>0, <3>5, LoggerAssumption DEF FirstSeq
      <4>3. n[1] # e.d \/ (n[1] = e.d /\ FileTag = e.d /\ n[2] = NextSeq(m_seq))
        BY <2>3, <3>3, <4>1, <4>2
      <4> HIDE DEF e
      <4>4. EntryOK(e, Created(n), Append(opened, n), n[2], n[1])
        BY <2>3, <3>1, <4>3, CreateKeeps
      <4> QED
        BY <4>4 DEF op, e
    <3> QED
      BY <3>4, <3>5
  <2>7. /\ n \in DOMAIN Created(n)
        /\ \A x \in DOMAIN Created(n) :
             Created(n)[x] \in Seq(Messages) /\ msg \notin Range(Created(n)[x])
    <3>1. <<>> \in Seq(Messages) /\ msg \notin Range(<<>>)
      BY DEF Range
    <3>2. /\ DOMAIN Created(n) = DOMAIN disk \union {n} /\ Created(n)[n] = <<>>
          /\ \A x \in DOMAIN disk : x # n => Created(n)[x] = disk[x]
      BY DEF Created
    <3> QED
      BY <1>0, <1>1, <3>1, <3>2
  <2>8. \A i \in 1..Len(logged') : EntryOK(logged'[i], disk', op, n[2], n[1])
    <3>1. PrintTo(n, Created(n), 0, msg, Len(op))
      BY <2>1, <2>4
    <3> QED
      BY <1>1, <2>4, <2>6, <2>7, <3>1, PrintRetains
  <2>9. FilesFollow'
    <3>1. \A k \in 1..Len(op) : op[k][1] <= Tag
      <4>1. \A k \in 1..Len(opened) : opened[k][1] \in Nat
        BY <1>0 DEF Names
      <4>2. \A k \in 1..Len(op) : k \in 1..Len(opened) \/ k = Len(op)
        BY <2>4
      <4> QED
        BY <1>3, <2>3, <2>4, <2>5, <4>1, <4>2 DEF FilesFollow
    <3>2. op[Len(op)] = <<Tag, NewSeq>>
      BY <2>4 DEF n
    <3> QED
      BY <1>0, <2>1, <2>3, <2>4, <2>5, <3>1, <3>2 DEF FilesFollow
  <2> QED
    BY <2>1, <2>3, <2>5, <2>8, <2>9
<1> QED
  BY <1>4, <1>5

(* No other step creates a file or prints; days pass, the file is closed. *)
LEMMA RetainNext ==
  /\ TypeOK /\ FileTypes /\ SoundInv /\ OrderInv /\ RetainInv
  /\ [LogNext]_allVars
  => RetainInv'
<1> SUFFICES ASSUME TypeOK, FileTypes, SoundInv, OrderInv, RetainInv,
                    [LogNext]_allVars
             PROVE  RetainInv'
  OBVIOUS
<1>1. CASE UNCHANGED <<fileVars, m_is_daily, day>>
  BY <1>1 DEF fileVars, RetainInv, FilesFollow, FileTag
<1>2. CASE CloseFile
  BY <1>2 DEF CloseFile, RetainInv, FilesFollow, FileTag
<1>3. CASE NextDay
  <2>1. day' = day + 1 /\ day \in Nat /\ m_day \in Nat
    BY <1>3, LoggerAssumption DEF NextDay, FileTypes
  <2>2. UNCHANGED <<fileVars, m_is_daily>>
    BY <1>3 DEF NextDay
  <2> QED
    BY <2>1, <2>2 DEF fileVars, RetainInv, FilesFollow, FileTag
<1>4. CASE LogHandle
  BY <1>1, <1>4, RetainWrite DEF LogHandle, TypeOK, Items, SoundInv
<1> QED
  BY <1>1, <1>2, <1>3, <1>4
  DEF LogNext, QueueStep, LogDone, Initialize, Uninitialize, Stopped,
      allVars, logVars

(* As long as files can be created, a message stays readable until MaxFile *)
(* later files of its day have been created, and no longer: rotation goes  *)
(* round the ring and gives up the oldest file, across the days, restarts  *)
(* of the logger and the files found at the start.                         *)
THEOREM RetentionCorrect == LogSpec => []Retained
<1>1. LoggerInit => Init
  BY DEF LoggerInit
<1>2. QueueInv => TypeOK
  BY DEF QueueInv
<1>3. FileTypes /\ RetainInv => Retained
  <2> SUFFICES ASSUME FileTypes, RetainInv, fails = 0, NEW i \in DOMAIN logged
               PROVE  LET e == logged[i]
                          later == {k \in (e.k + 1)..Len(opened) : opened[k][1] = e.d}
                      IN  (\E n \in DOMAIN disk : n[1] = e.d /\ e.m \in Range(disk[n]))
                            <=> Cardinality(later) < MaxFile
    BY DEF Retained
  <2> DEFINE e == logged[i]
  <2>1. /\ opened \in Seq(Names) /\ MaxFile \in Nat
        /\ logged \in Seq([m: Messages, d: 0..MaxDay, k: Nat])
    BY LoggerAssumption DEF FileTypes, HistoryOK
  <2>2. i \in 1..Len(logged)
    BY <2>1, LenProperties
  <2>3. EntryOK(e, disk, opened, m_seq, FileTag)
    BY <2>2 DEF RetainInv
  <2> HIDE DEF e
  <2>4. Cardinality(LaterFiles(e, opened)) \in Nat
    <3>1. e.k \in Nat
      BY <2>3 DEF EntryOK
    <3> QED
      BY <2>1, <3>1, LaterFinite
  <2>5. (\E n \in DOMAIN disk : n[1] = e.d /\ e.m \in Range(disk[n]))
          <=> Cardinality(LaterFiles(e, opened)) < MaxFile
    BY <2>1, <2>3, <2>4, SMTT(30) DEF EntryOK
  <2> QED
    BY <2>5 DEF e, LaterFiles
<1> QED
  BY <1>1, <1>2, <1>3, LogStep, QueueInit, QueueNext, FileTypesInit,
     FileTypesNext, SoundInit, SoundNext, OrderInit, OrderNext, RetainInit,
     RetainNext, PTL
  DEF LogSpec
=============================================================================
