------------------------------ MODULE MsgQueue ------------------------------
(***************************************************************************)
(* SimpleMessageQueue: a bounded queue between any number of producers and *)
(* one consumer thread, which AppLogger uses for its asynchronous mode.    *)
(* A critical section is one step; cond_signal, which the POSIX build does *)
(* after the unlock, is a step of its own.  The _WIN32 build waits with a  *)
(* predicate and notifies inside the critical section.                     *)
(***************************************************************************)
EXTENDS Naturals, Sequences, SequencesExt

CONSTANTS
  Producers,  \* threads that call put
  MaxPut,     \* bound on the messages each of them puts
  MaxLen,     \* m_max_queue_length
  MaxStart,   \* bound on the calls of start
  Builds,     \* posix, win32 or both
  Spurious,   \* do condition variables wake up spuriously?
  Exit        \* the message EXIT_MSG_ID

ASSUME QueueAssumption ==
  /\ MaxPut \in Nat /\ MaxLen \in Nat \ {0} /\ MaxStart \in Nat
  /\ Builds \subseteq {"posix", "win32"} /\ Spurious \in BOOLEAN
  /\ Exit \notin Producers \X (1..MaxPut)

VARIABLES
  build,      \* which build of the code this is
  running,    \* m_is_running
  queue,      \* m_msg_queue
  put,        \* per producer: idle, admitted (past the test), or signal
  count,      \* per producer: messages made so far
  stopper,    \* the thread calling start and stop
  cons,       \* the consumer thread; undefined after a pop of an empty deque
  msg,        \* the item run() holds
  starts,     \* calls of start so far
  accepted,   \* history: the items pushed, in order
  consumed    \* history: the items taken off the queue, in order

startVars == <<build, starts>>
vars == <<running, queue, put, count, stopper, cons, msg, startVars,
          accepted, consumed>>

Posix == build = "posix"

Messages == Producers \X (1..MaxPut)
Items    == Messages \union {Exit}

TypeOK ==
  /\ build \in Builds /\ running \in BOOLEAN
  /\ queue \in Seq(Items) /\ Len(queue) <= MaxLen
  /\ put \in [Producers -> {"idle", "admitted", "signal"}]
  /\ count \in [Producers -> 0..MaxPut]
  /\ stopper \in {"idle", "create", "put", "signal", "join"}
  /\ cons \in {"off", "test", "get", "wait", "wake", "handle", "clear",
               "undefined"}
  /\ msg \in Items
  /\ starts \in 0..MaxStart
  /\ accepted \in Seq(Items) /\ consumed \in Seq(Items)

Init ==
  /\ build \in Builds /\ running = FALSE /\ queue = <<>>
  /\ put = [p \in Producers |-> "idle"] /\ count = [p \in Producers |-> 0]
  /\ stopper = "idle" /\ cons = "off" /\ msg = Exit /\ starts = 0
  /\ accepted = <<>> /\ consumed = <<>>

----------------------------------------------------------------------------
(* cond_signal wakes the consumer only when it is waiting at that moment. *)
Signal == cons' = IF cons = "wait" THEN "wake" ELSE cons

(* Mutant of NeedSignal: the signal is given for the second item. *)
NeedSignalLate == Len(queue) = 1

(* Whoever makes the queue non-empty signals: at once in the _WIN32 build, *)
(* after the unlock in the POSIX one.                                      *)
NeedSignal == queue = <<>>
Notify == IF NeedSignal /\ ~Posix THEN Signal ELSE UNCHANGED cons

(* put: a message offered to a stopped queue is destroyed. *)
Put(p) ==
  /\ put[p] = "idle" /\ count[p] < MaxPut
  /\ count' = [count EXCEPT ![p] = @ + 1]
  /\ put' = [put EXCEPT ![p] = IF running THEN "admitted" ELSE "idle"]
  /\ UNCHANGED <<running, queue, stopper, cons, msg, startVars, accepted,
                 consumed>>

(* Mutant of PutLocked: the length is tested with <= . *)
PutLockedOneMore(p) ==
  /\ put[p] = "admitted"
  /\ IF Len(queue) <= MaxLen
     THEN /\ queue' = Append(queue, <<p, count[p]>>)
          /\ accepted' = Append(accepted, <<p, count[p]>>)
          /\ Notify
          /\ put' = [put EXCEPT ![p] =
                       IF NeedSignal /\ Posix THEN "signal" ELSE "idle"]
     ELSE /\ put' = [put EXCEPT ![p] = "idle"]
          /\ UNCHANGED <<queue, accepted, cons>>
  /\ UNCHANGED <<running, count, stopper, msg, startVars, consumed>>

(* The critical section of put; a message that finds the queue full is     *)
(* destroyed.                                                              *)
PutLocked(p) ==
  /\ put[p] = "admitted"
  /\ IF Len(queue) < MaxLen
     THEN /\ queue' = Append(queue, <<p, count[p]>>)
          /\ accepted' = Append(accepted, <<p, count[p]>>)
          /\ Notify
          /\ put' = [put EXCEPT ![p] =
                       IF NeedSignal /\ Posix THEN "signal" ELSE "idle"]
     ELSE /\ put' = [put EXCEPT ![p] = "idle"]
          /\ UNCHANGED <<queue, accepted, cons>>
  /\ UNCHANGED <<running, count, stopper, msg, startVars, consumed>>

PutSignal(p) ==
  /\ put[p] = "signal"
  /\ Signal
  /\ put' = [put EXCEPT ![p] = "idle"]
  /\ UNCHANGED <<running, queue, count, stopper, msg, startVars, accepted,
                 consumed>>

----------------------------------------------------------------------------
(* start sets the flag before there is a thread, and takes it back when    *)
(* none can be created.  (The callers start a stopped queue only.)         *)
Start ==
  /\ stopper = "idle" /\ ~running /\ starts < MaxStart
  /\ starts' = starts + 1
  /\ running' = TRUE /\ stopper' = "create"
  /\ UNCHANGED <<build, queue, put, count, cons, msg, accepted, consumed>>

CreateThread ==
  /\ stopper = "create"
  /\ stopper' = "idle"
  /\ \/ cons' = "test" /\ UNCHANGED running
     \/ Posix /\ running' = FALSE /\ UNCHANGED cons
  /\ UNCHANGED <<queue, put, count, msg, startVars, accepted, consumed>>

(* stop: clear the flag, offer the exit message, join the thread. *)
Stop ==
  /\ stopper = "idle" /\ running
  /\ running' = FALSE
  /\ stopper' = "put"
  /\ UNCHANGED <<queue, put, count, cons, msg, startVars, accepted,
                 consumed>>

(* Mutant of StopPut: stop relies on the flag and offers no exit message. *)
StopPutNothing ==
  /\ stopper = "put"
  /\ stopper' = "join"
  /\ UNCHANGED <<running, queue, put, count, cons, msg, startVars, accepted,
                 consumed>>

StopPut ==
  /\ stopper = "put"
  /\ IF Len(queue) < MaxLen
     THEN /\ queue' = Append(queue, Exit)
          /\ accepted' = Append(accepted, Exit)
          /\ Notify
          /\ stopper' = IF NeedSignal /\ Posix THEN "signal" ELSE "join"
     ELSE /\ stopper' = "join"
          /\ UNCHANGED <<queue, accepted, cons>>
  /\ UNCHANGED <<running, put, count, msg, startVars, consumed>>

StopSignal ==
  /\ stopper = "signal"
  /\ Signal
  /\ stopper' = "join"
  /\ UNCHANGED <<running, queue, put, count, msg, startVars, accepted,
                 consumed>>

StopJoin ==
  /\ stopper = "join" /\ cons = "off"
  /\ stopper' = "idle"
  /\ UNCHANGED <<running, queue, put, count, cons, msg, startVars, accepted,
                 consumed>>

----------------------------------------------------------------------------
(* run: test the flag, get an item, handle it. *)
Test ==
  /\ cons = "test"
  /\ cons' = IF running THEN "get" ELSE "clear"
  /\ UNCHANGED <<running, queue, put, count, stopper, msg, startVars,
                 accepted, consumed>>

(* Mutant of Pop: the newest item is taken. *)
PopNewest ==
  /\ msg' = Last(queue) /\ queue' = Front(queue)
  /\ consumed' = Append(consumed, Last(queue))
  /\ cons' = "handle"

Pop ==
  /\ msg' = Head(queue) /\ queue' = Tail(queue)
  /\ consumed' = Append(consumed, Head(queue))
  /\ cons' = "handle"

Get ==
  /\ cons = "get"
  /\ IF queue = <<>>
     THEN cons' = "wait" /\ UNCHANGED <<queue, msg, consumed>>
     ELSE Pop
  /\ UNCHANGED <<running, put, count, stopper, startVars, accepted>>

SpuriousWake ==
  /\ Spurious /\ cons = "wait"
  /\ cons' = "wake"
  /\ UNCHANGED <<running, queue, put, count, stopper, msg, startVars,
                 accepted, consumed>>

(* The _WIN32 build waits again when it finds the queue empty. *)
Recheck == ~Posix

(* cond_wait has returned and the mutex is taken again.  The POSIX build   *)
(* takes the front item without a second look at the queue.                *)
Woken ==
  /\ cons = "wake"
  /\ IF queue # <<>>
     THEN Pop
     ELSE /\ cons' = IF Recheck THEN "wait" ELSE "undefined"
          /\ UNCHANGED <<queue, msg, consumed>>
  /\ UNCHANGED <<running, put, count, stopper, startVars, accepted>>

Handle ==
  /\ cons = "handle"
  /\ cons' = "test" /\ msg' = Exit
  /\ UNCHANGED <<running, queue, put, count, stopper, startVars, accepted,
                 consumed>>

(* clear_msg_queue destroys what is left; the thread ends. *)
Clear ==
  /\ cons = "clear"
  /\ cons' = "off"
  /\ queue' = <<>>
  /\ consumed' = consumed \o queue
  /\ UNCHANGED <<running, put, count, stopper, msg, startVars, accepted>>

(* Nothing is said of the program after an undefined operation. *)
Undefined == cons = "undefined" /\ UNCHANGED vars

Done ==
  /\ stopper = "idle" /\ starts = MaxStart /\ ~running
  /\ \A p \in Producers : put[p] = "idle" /\ count[p] = MaxPut
  /\ UNCHANGED vars

ProducerNext == \E p \in Producers : Put(p) \/ PutLocked(p) \/ PutSignal(p)
ConsumerNext == Test \/ Get \/ Woken \/ Handle \/ Clear
StopperNext  == CreateThread \/ StopPut \/ StopSignal \/ StopJoin

Next == \/ ProducerNext \/ ConsumerNext \/ SpuriousWake
        \/ Start \/ Stop \/ StopperNext \/ Done \/ Undefined

Spec == Init /\ [][Next]_vars

----------------------------------------------------------------------------
(* Every item that was pushed, exit messages too, leaves the queue once    *)
(* and in the order in which it was pushed, or is still in it, across full *)
(* queues, stop and start.                                                 *)
FifoExact == accepted = consumed \o queue

(* get takes an item only from a queue that has one.  common_msg_queue.h:  *)
(* "if the queue is empty, this function will blocked".                    *)
NoEmptyPop == cons # "undefined"

(* stop returns, also when the exit message found the queue full, for as   *)
(* long as the consumer has not popped an empty deque.                     *)
StopCompletes == stopper = "put" ~> stopper = "idle" \/ ~NoEmptyPop
=============================================================================
