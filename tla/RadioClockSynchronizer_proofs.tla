-------------------- MODULE RadioClockSynchronizer_proofs --------------------
(***************************************************************************)
(* Proofs about RadioClockSynchronizer, for any number of requests and of  *)
(* sessions.  Some hold whatever threads the application has; what needs   *)
(* that it has one says so, and what needs that no sequence number is used *)
(* again says that.                                                        *)
(***************************************************************************)
EXTENDS RadioClockSynchronizer, TLAPS, FiniteSetTheorems, SequenceTheorems

\* The application calls the synchronizer from one thread.
OneThread == \A a, b \in App : a = b

\* _nextSequence has not come round to a number that was used.
NoReuse == MaxRequests < SeqModulus

\* What the worker has in its hands is the response to a request that was sent,
\* and so is what it made a sample of.
Sent(seq) == \E r \in requests : r.seq = seq

AnswersOnly ==
    /\ responses \subseteq requests
    /\ worker.pc # "idle" => worker.packet \in responses /\ worker.packet.seq # 0
    /\ \A i \in DOMAIN samples : samples[i].seq # 0 /\ Sent(samples[i].seq)

\* The numbers taken are those below _nextSequence, which is 0 when all are.
Taken(seq) == seq # 0 /\ (nextSequence # 0 => seq < nextSequence)

Numbering ==
    /\ stats.attempted <= MaxRequests
    /\ IF nextSequence = 0 THEN stats.attempted >= SeqModulus - 1
                           ELSE nextSequence <= stats.attempted + 1
    /\ \A a \in InFlight : Taken(app[a].seq)
    /\ \A r \in requests : Taken(r.seq)

\* A number is of one request: a call under way shares it with no other, and
\* with nothing that was sent or, until it stores it, is awaited.
OneRequestEach ==
    /\ \A a, b \in InFlight : app[a].seq = app[b].seq => a = b
    /\ \A a \in InFlight : ~Sent(app[a].seq)
    /\ \A a \in InFlight : app[a].pc \in {"stamp", "pending"} => pending # app[a].seq

\* What was sampled, or is about to be, is not awaited any more.
AwaitedOnce ==
    /\ \A i \in DOMAIN samples : samples[i].seq # pending
    /\ worker.pc \in {"matched", "cleared"} =>
          \A i \in DOMAIN samples : samples[i].seq # worker.packet.seq
    /\ worker.pc = "cleared" => pending # worker.packet.seq

ExchangeInv == AnswersOnly /\ Numbering /\ OneRequestEach /\ AwaitedOnce /\ SampledOnce

-----------------------------------------------------------------------------
\* With one thread.  A call that has started belongs to the present session,
\* and what is awaited is of this session and the newest.
ThisSession ==
    \A a \in App :
        /\ app[a].pc \in {"idle", "opening"} => ~app[a].update
        /\ app[a].pc = "update" \/ app[a].update \/ a \in InFlight => initialized
        /\ a \in InFlight => app[a].session = session
        /\ a \in InFlight => \A r \in requests : r.seq < app[a].seq
        /\ app[a].pc \in {"last", "send", "failed"} => pending \in {0, app[a].seq}

AwaitsNewest ==
    pending # 0 => \A r \in requests : r.seq <= pending /\ (r.seq = pending => r.session = session)

\* When the requests of the session were begun that were not refused.
Stored == {attempts[i].at : i \in {j \in DOMAIN attempts : ~attempts[j].refused}}

\* lastRequest is the last of these times, and the time that Update has read is
\* not before it, so that their difference does not wrap.
Spaced ==
    /\ lastRequest <= now
    /\ initialized => \A t \in Stored : t <= lastRequest
    /\ \A a \in App :
          /\ app[a].now <= now
          /\ app[a].pc = "update" => lastRequest <= app[a].now
          /\ app[a].update /\ app[a].pc \in {"request", "stamp", "pending", "last"}
             => \A t \in Stored : t + Interval <= app[a].now

\* From the reading of T1 on, nothing but the response can adjust the clock.
NobodyTakes == worker.pc \notin {"matched", "cleared"}

T1IsCurrent ==
    /\ \A a \in App : app[a].alone =>
          /\ app[a].pc = "pending" => pending = 0
          /\ app[a].pc \in {"pending", "last", "send", "failed"} => NobodyTakes /\ app[a].t1 = adjustments
    /\ \A r \in requests : r.alone /\ r.seq = pending =>
          /\ r.t1 = adjustments
          /\ worker.pc # "cleared"
          /\ worker.pc = "matched" => worker.packet.seq = pending
    /\ worker.packet.alone /\ ~NobodyTakes => worker.packet.t1 = adjustments

-----------------------------------------------------------------------------
(* Types.                                                                  *)

Pc      == {"idle", "opening", "update", "request", "stamp", "pending", "last", "send", "failed"}
Counter == {"attempted", "sent", "failed", "received", "accepted", "rejected"}

LEMMA Constants == /\ 0 \in Sequence /\ 1 \in Sequence
                   /\ Idle \in AppState
                   /\ Resting \in [pc : {"idle", "received", "matched", "cleared"}, packet : Packet]
BY ClockAssumption DEF Sequence, Idle, Resting, AppState, Packet

LEMMA GotoType ==
    ASSUME TypeOK, NEW a \in App, NEW pc \in Pc, Goto(a, pc)
    PROVE  app' \in [App -> AppState]
<1>1. app[a] \in AppState /\ app \in [App -> AppState]
  BY DEF TypeOK
<1>2. [app[a] EXCEPT !.pc = pc] \in AppState
  BY <1>1 DEF AppState, Pc
<1> QED
  BY <1>1, <1>2 DEF Goto

LEMMA ReturnType ==
    ASSUME TypeOK, NEW a \in App, Return(a)
    PROVE  app' \in [App -> AppState]
BY Constants DEF TypeOK, Return

LEMMA CountType ==
    ASSUME TypeOK, NEW c \in Counter, Count(c)
    PROVE  stats' \in [Counter -> Nat]
BY DEF TypeOK, Count, Counter

LEMMA TypeInit == Init => TypeOK
<1> SUFFICES ASSUME Init PROVE TypeOK
  OBVIOUS
<1>1. now \in 1 .. MaxTime /\ adjustments \in Nat /\ lastRequest \in 0 .. MaxTime /\ session \in 0 .. MaxSessions
  BY ClockAssumption DEF Init
<1>2. started \in BOOLEAN /\ initialized \in BOOLEAN
  BY Zenon DEF Init
<1>3. {nextSequence, pending} \subseteq Sequence
  BY Constants DEF Init
<1>4. app \in [App -> AppState] /\ worker \in [pc : {"idle", "received", "matched", "cleared"}, packet : Packet]
  BY Constants DEF Init
<1>6. stats \in [{"attempted", "sent", "failed", "received", "accepted", "rejected"} -> Nat]
  BY DEF Init
<1>7. samples \in Seq(Sample)
  BY EmptySeq DEF Init
<1>8. attempts \in Seq(Attempt)
  BY EmptySeq DEF Init
<1>9. \A r \in requests \union responses : r \in Packet
  BY DEF Init
<1> QED
  BY <1>1, <1>2, <1>3, <1>4, <1>6, <1>7, <1>8, <1>9 DEF TypeOK

\* Initialize and Shutdown.
LEMMA TypeOpen ==
    ASSUME TypeOK, NEW a \in App, Shutdown(a) \/ Initialize(a) \/ Open(a) \/ InitializeFails(a)
    PROVE  TypeOK'
<1>1. app' \in [App -> AppState]
  <2>1. CASE Initialize(a)
    BY <2>1, GotoType DEF Initialize, Pc
  <2>2. CASE Open(a) \/ InitializeFails(a)
    BY <2>2, ReturnType DEF Open, InitializeFails
  <2> QED
    BY <2>1, <2>2 DEF TypeOK, Shutdown
<1>2. /\ initialized' = TRUE \/ initialized' = FALSE \/ initialized' = initialized
      /\ lastRequest' \in {0, lastRequest} /\ pending' \in {0, pending} /\ UNCHANGED nextSequence
  BY DEF Shutdown, Initialize, Open, InitializeFails, Close, shared
<1>3. session' \in 0 .. MaxSessions
  BY ClockAssumption DEF TypeOK, Shutdown, Initialize, Open, InitializeFails
<1>4. attempts' \in Seq(Attempt)
  BY EmptySeq DEF TypeOK, Shutdown, Initialize, Open, InitializeFails
<1>5. UNCHANGED <<now, adjustments, started, worker, requests, responses, stats, samples>>
  BY DEF Shutdown, Initialize, Open, InitializeFails, world, medium
<1>6. initialized' \in BOOLEAN
  BY <1>2 DEF TypeOK
<1>7. lastRequest' \in 0 .. MaxTime /\ {nextSequence, pending}' \subseteq Sequence
  BY <1>2, Constants, ClockAssumption DEF TypeOK
<1> QED
  BY <1>1, <1>3, <1>4, <1>5, <1>6, <1>7 DEF TypeOK

LEMMA TypeCall ==
    ASSUME TypeOK, NEW a \in App,
           Update(a) \/ UpdateDue(a) \/ Request(a) \/ ReadT1(a) \/ SendRejected(a)
    PROVE  TypeOK'
<1>1. app' \in [App -> AppState]
  <2>1. app \in [App -> AppState] /\ app[a] \in AppState /\ now \in 0 .. MaxTime /\ adjustments \in Nat
    BY DEF TypeOK
  <2>2. CASE Update(a)
    <3>1. [Idle EXCEPT !.pc = "update", !.now = now, !.update = TRUE] \in AppState
      BY <2>1, Constants DEF AppState
    <3> QED
      BY <2>1, <2>2, <3>1 DEF Update
  <2>3. CASE UpdateDue(a)
    BY <2>3, GotoType, ReturnType DEF UpdateDue, Pc
  <2>4. CASE Request(a) \/ SendRejected(a)
    BY <2>4, GotoType DEF Request, SendRejected, Pc
  <2>5. CASE ReadT1(a)
    <3>1. [app[a] EXCEPT !.pc = "pending", !.t1 = adjustments, !.alone = NoneAwaited] \in AppState
      BY <2>1 DEF AppState, NoneAwaited
    <3>2. app' = [app EXCEPT ![a] = [app[a] EXCEPT !.pc = "pending", !.t1 = adjustments, !.alone = NoneAwaited]]
      BY <2>1, <2>5 DEF ReadT1
    <3> QED
      BY <2>1, <3>1, <3>2
  <2> QED
    BY <2>2, <2>3, <2>4, <2>5
<1>2. UNCHANGED <<world, shared, worker, medium, stats, samples, session, attempts>>
  BY DEF Update, UpdateDue, Request, ReadT1, SendRejected
<1> QED
  BY <1>1, <1>2 DEF TypeOK, world, medium, shared

LEMMA TypeRequest ==
    ASSUME TypeOK, NEW a \in App, Refuse(a) \/ TakeSequence(a) \/ StorePending(a) \/ StoreLast(a)
                                \/ SendAccepted(a) \/ ForgetPending(a)
    PROVE  TypeOK'
<1>1. app \in [App -> AppState] /\ app[a] \in AppState
  BY DEF TypeOK
<1>2. UNCHANGED <<now, adjustments, started, worker, responses, samples, session>>
  BY DEF Refuse, TakeSequence, StorePending, StoreLast, SendAccepted, ForgetPending, medium, world
<1>3. stats' \in [Counter -> Nat]
  <2>1. CASE Refuse(a)
    <3>1. /\ stats \in [Counter -> Nat] /\ {"attempted", "failed"} \subseteq Counter
          /\ stats' = [stats EXCEPT !["attempted"] = @ + 1, !["failed"] = @ + 1]
      BY <2>1 DEF TypeOK, Refuse, Counter
    <3> QED
      BY <3>1
  <2>2. CASE StorePending(a) \/ StoreLast(a)
    BY <2>2 DEF TypeOK, StorePending, StoreLast, Counter
  <2> QED
    BY <2>1, <2>2, CountType DEF TakeSequence, SendAccepted, ForgetPending, Counter
<1>0. ASSUME NEW refused \in BOOLEAN, attempts' = Begun(a, refused) PROVE attempts' \in Seq(Attempt)
  <2> DEFINE one == [at |-> now, update |-> app[a].update, refused |-> refused]
  <2>1. one \in Attempt
    BY <1>1 DEF TypeOK, AppState, Attempt
  <2>2. attempts' = Append(attempts, one)
    BY <1>0 DEF Begun
  <2> HIDE DEF one
  <2> QED
    BY <2>1, <2>2, AppendProperties DEF TypeOK
<1>4. CASE Refuse(a) \/ SendAccepted(a) \/ ForgetPending(a)
  <2>1. app' \in [App -> AppState]
    BY <1>4, ReturnType DEF Refuse, SendAccepted, ForgetPending
  <2>2. \A r \in requests' \union responses' : r \in Packet
    <3>1. ASSUME NEW r, r = [seq |-> app[a].seq, t1 |-> app[a].t1, alone |-> app[a].alone,
                            session |-> app[a].session]
          PROVE  r \in Packet
      BY <1>1, <3>1 DEF Packet, AppState
    <3>2. \/ requests' = requests
          \/ \E r \in Packet : requests' = requests \union {r}
      BY <1>4, <3>1 DEF Refuse, SendAccepted, ForgetPending, medium
    <3> QED
      BY <1>2, <3>2 DEF TypeOK
  <2>3. pending' \in {0, pending} /\ UNCHANGED <<initialized, nextSequence, lastRequest>>
    BY <1>4 DEF Refuse, SendAccepted, ForgetPending, shared
  <2>4. pending' \in Sequence
    BY <2>3, Constants DEF TypeOK
  <2>5. attempts' \in Seq(Attempt)
    BY <1>0, <1>4 DEF TypeOK, Refuse, SendAccepted, ForgetPending
  <2> QED
    BY <1>2, <1>3, <2>1, <2>2, <2>3, <2>4, <2>5 DEF TypeOK, Counter
<1>5. CASE TakeSequence(a)
  <2> DEFINE seq == IF nextSequence = 0 THEN 1 ELSE nextSequence
  <2>1. seq \in Sequence
    BY Constants DEF TypeOK
  <2>2. /\ nextSequence' = NextSequence(seq)
        /\ app' = [app EXCEPT ![a] = [@ EXCEPT !.pc = "stamp", !.seq = seq, !.session = session]]
        /\ UNCHANGED <<initialized, pending, lastRequest, requests, attempts>>
    BY <1>1, <1>5 DEF TakeSequence, medium
  <2> HIDE DEF seq
  <2>3. nextSequence' \in Sequence
    BY <2>1, <2>2, ClockAssumption DEF NextSequence, Sequence
  <2>4. [app[a] EXCEPT !.pc = "stamp", !.seq = seq, !.session = session] \in AppState
    <3>1. session \in Nat
      BY ClockAssumption DEF TypeOK
    <3> QED
      BY <1>1, <2>1, <3>1 DEF AppState
  <2>5. app' \in [App -> AppState]
    BY <1>1, <2>2, <2>4
  <2> QED
    BY <1>2, <1>3, <2>2, <2>3, <2>5 DEF TypeOK, Counter
<1>6. CASE StorePending(a)
  <2>1. app' \in [App -> AppState]
    BY <1>6, GotoType DEF StorePending, Pc
  <2>2. pending' \in Sequence /\ UNCHANGED <<initialized, nextSequence, lastRequest, requests, attempts>>
    BY <1>1, <1>6 DEF StorePending, medium, AppState
  <2> QED
    BY <1>2, <1>3, <2>1, <2>2 DEF TypeOK, Counter
<1>7. CASE StoreLast(a)
  <2>1. app' \in [App -> AppState]
    BY <1>7, GotoType DEF StoreLast, Pc
  <2>2. lastRequest' \in 0 .. MaxTime /\ UNCHANGED <<initialized, nextSequence, pending, requests>>
    BY <1>7 DEF TypeOK, StoreLast, medium
  <2>3. attempts' \in Seq(Attempt)
    BY <1>0, <1>7 DEF StoreLast
  <2> QED
    BY <1>2, <1>3, <2>1, <2>2, <2>3 DEF TypeOK, Counter
<1> QED
  BY <1>4, <1>5, <1>6, <1>7

\* The sample that SubmitSample makes.
Submitted == [seq |-> worker.packet.seq, t1 |-> worker.packet.t1,
              t4 |-> RecoverSystemTimestamp, alone |-> worker.packet.alone,
              session |-> worker.packet.session, during |-> session]

LEMMA SubmittedType == ASSUME TypeOK PROVE Submitted \in Sample
BY ClockAssumption DEF TypeOK, Packet, RecoverSystemTimestamp, Submitted, Sample

\* It is appended, and the samples before it stay.
LEMMA SubmitEffect ==
    ASSUME TypeOK, SubmitSample, NEW L, L = Len(samples)
    PROVE  /\ L \in Nat /\ DOMAIN samples = 1 .. L /\ DOMAIN samples' = 1 .. L + 1
           /\ samples' \in Seq(Sample)
           /\ samples'[L + 1] = Submitted /\ \A i \in 1 .. L : samples'[i] = samples[i]
           /\ \A i \in 1 .. L + 1 : i = L + 1 \/ i \in 1 .. L
<1>1. samples' = Append(samples, Submitted) /\ Submitted \in Sample /\ samples \in Seq(Sample)
  BY SubmittedType DEF SubmitSample, Submitted, TypeOK
<1>2. samples' \in Seq(Sample) /\ Len(samples') = L + 1
  BY <1>1, AppendProperties
<1>3. /\ L \in Nat /\ DOMAIN samples = 1 .. L /\ DOMAIN samples' = 1 .. L + 1
      /\ samples'[L + 1] = Submitted /\ \A i \in 1 .. L : samples'[i] = samples[i]
  BY <1>1, <1>2, AppendProperties, LenProperties
<1>4. \A i \in 1 .. L + 1 : i = L + 1 \/ i \in 1 .. L
  BY <1>3
<1> QED
  BY <1>2, <1>3, <1>4

LEMMA TypeWorker ==
    ASSUME TypeOK, WorkerSteps
    PROVE  TypeOK'
<1>1. UNCHANGED <<now, started, initialized, nextSequence, lastRequest, app, requests, session, attempts>>
  BY DEF WorkerSteps, Respond, OnRadioPacketReceived, MatchPending, ClearPending, SubmitSample,
         world, shared, medium
<1>2. stats' \in [Counter -> Nat]
  <2>1. UNCHANGED stats \/ Count("received") \/ Count("accepted") \/ Count("rejected")
    BY DEF WorkerSteps, Respond, OnRadioPacketReceived, MatchPending, ClearPending, SubmitSample
  <2> QED
    BY <2>1, CountType DEF TypeOK, Counter
<1>3. worker' \in [pc : {"idle", "received", "matched", "cleared"}, packet : Packet]
  <2>1. ASSUME NEW r \in responses, OnRadioPacketReceived(r)
        PROVE  worker' \in [pc : {"idle", "received", "matched", "cleared"}, packet : Packet]
    BY <2>1 DEF TypeOK, OnRadioPacketReceived
  <2> QED
    BY <2>1, Constants DEF TypeOK, WorkerSteps, Respond, MatchPending, ClearPending, SubmitSample
<1>4. \A r \in requests' \union responses' : r \in Packet
  BY DEF TypeOK, WorkerSteps, Respond, OnRadioPacketReceived, MatchPending, ClearPending, SubmitSample, medium
<1>5. pending' \in Sequence
  <2>1. pending' \in {0, pending}
    BY DEF WorkerSteps, Respond, OnRadioPacketReceived, MatchPending, ClearPending, SubmitSample, shared
  <2> QED
    BY <2>1, Constants DEF TypeOK
<1>6. adjustments' \in Nat
  BY DEF TypeOK, WorkerSteps, Respond, OnRadioPacketReceived, MatchPending, ClearPending, SubmitSample, world
<1>7. samples' \in Seq(Sample)
  <2>1. CASE SubmitSample
    BY <2>1, SubmitEffect
  <2>2. CASE ~SubmitSample
    BY <2>2 DEF TypeOK, WorkerSteps, Respond, OnRadioPacketReceived, MatchPending, ClearPending
  <2> QED
    BY <2>1, <2>2
<1> QED
  BY <1>1, <1>2, <1>3, <1>4, <1>5, <1>6, <1>7 DEF TypeOK, Counter

LEMMA TypeStep == TypeOK /\ [Next]_vars => TypeOK'
<1> SUFFICES ASSUME TypeOK, [Next]_vars PROVE TypeOK'
  OBVIOUS
<1>1. ASSUME UNCHANGED <<adjustments, shared, app, worker, medium, stats, samples, session, attempts>>,
             now' \in 1 .. MaxTime, started' \in BOOLEAN
      PROVE  TypeOK'
  BY <1>1 DEF TypeOK, shared, medium
<1>2. CASE Tick
  BY <1>1, <1>2, ClockAssumption DEF TypeOK, Tick
<1>3. CASE RadioStartStop
  BY <1>1, <1>3 DEF TypeOK, RadioStartStop
<1>4. CASE UNCHANGED vars
  BY <1>1, <1>4 DEF TypeOK, vars, world
<1> QED
  BY <1>2, <1>3, <1>4, TypeOpen, TypeCall, TypeRequest, TypeWorker DEF Next, RequestSteps

\* Every variable keeps its type, whatever threads call and however they meet.
THEOREM TypeCorrect == Spec => []TypeOK
BY TypeInit, TypeStep, PTL DEF Spec

-----------------------------------------------------------------------------
(* The counters.                                                           *)

InCall == {"stamp", "pending", "last", "send", "failed"}

\* What a step of thread a leaves alone: the other threads, and of its own call
\* all but the position.
OthersWait(a) == \A b \in App : b # a => app'[b] = app[b]
SameCall(a)   == /\ app'[a].now = app[a].now /\ app'[a].update = app[a].update
                 /\ app'[a].seq = app[a].seq /\ app'[a].session = app[a].session
                 /\ app'[a].t1 = app[a].t1   /\ app'[a].alone = app[a].alone

LEMMA GotoEffect ==
    ASSUME TypeOK, NEW a \in App, NEW pc, Goto(a, pc)
    PROVE  OthersWait(a) /\ SameCall(a) /\ app'[a].pc = pc
<1>1. app \in [App -> AppState] /\ app[a] \in AppState
  BY DEF TypeOK
<1>2. app'[a] = [app[a] EXCEPT !.pc = pc] /\ OthersWait(a)
  BY <1>1 DEF Goto, OthersWait
<1> QED
  BY <1>1, <1>2 DEF AppState, SameCall

LEMMA ReturnEffect ==
    ASSUME TypeOK, NEW a \in App, Return(a)
    PROVE  OthersWait(a) /\ app'[a] = Idle
BY DEF TypeOK, Return, OthersWait

LEMMA UpdateEffect ==
    ASSUME TypeOK, NEW a \in App, Update(a)
    PROVE  /\ OthersWait(a)
           /\ app'[a].pc = "update" /\ app'[a].now = now /\ app'[a].update = TRUE /\ app'[a].alone = FALSE
BY DEF TypeOK, Update, OthersWait, Idle

LEMMA ReadT1Effect ==
    ASSUME TypeOK, NEW a \in App, ReadT1(a)
    PROVE  /\ OthersWait(a)
           /\ app'[a].pc = "pending" /\ app'[a].now = app[a].now /\ app'[a].update = app[a].update
           /\ app'[a].seq = app[a].seq /\ app'[a].session = app[a].session
           /\ app'[a].t1 = adjustments /\ app'[a].alone = NoneAwaited
<1>1. app \in [App -> AppState] /\ app[a] \in AppState
  BY DEF TypeOK
<1>2. /\ app'[a] = [app[a] EXCEPT !.pc = "pending", !.t1 = adjustments, !.alone = NoneAwaited]
      /\ OthersWait(a)
  BY <1>1 DEF ReadT1, OthersWait
<1> QED
  BY <1>1, <1>2 DEF AppState

LEMMA TakeEffect ==
    ASSUME TypeOK, NEW a \in App, TakeSequence(a)
    PROVE  /\ OthersWait(a)
           /\ app'[a].pc = "stamp" /\ app'[a].now = app[a].now /\ app'[a].update = app[a].update
           /\ app'[a].session = session
           /\ app'[a].seq = IF nextSequence = 0 THEN 1 ELSE nextSequence
           /\ nextSequence' = NextSequence(app'[a].seq)
<1> DEFINE seq == IF nextSequence = 0 THEN 1 ELSE nextSequence
<1>1. app \in [App -> AppState] /\ app[a] \in AppState
  BY DEF TypeOK
<1>2. /\ app'[a] = [app[a] EXCEPT !.pc = "stamp", !.seq = seq, !.session = session]
      /\ nextSequence' = NextSequence(seq)
      /\ OthersWait(a)
  BY <1>1 DEF TakeSequence, OthersWait
<1> HIDE DEF seq
<1>3. /\ app'[a].pc = "stamp" /\ app'[a].now = app[a].now /\ app'[a].update = app[a].update
      /\ app'[a].session = session /\ app'[a].seq = seq
  BY <1>1, <1>2 DEF AppState
<1> QED
  BY <1>2, <1>3 DEF seq

\* What a step of a thread's call does with it: a call joins those in flight at
\* TakeSequence and leaves them where sent or failed is counted.
LEMMA FlightStep ==
    ASSUME TypeOK, NEW a \in App
    PROVE  /\ TakeSequence(a) => a \notin InFlight /\ InFlight' = InFlight \union {a}
           /\ SendAccepted(a) \/ ForgetPending(a) => a \in InFlight /\ InFlight' = InFlight \ {a}
           /\ \/ Shutdown(a) \/ Initialize(a) \/ Open(a) \/ InitializeFails(a)
              \/ Update(a) \/ UpdateDue(a) \/ Request(a) \/ Refuse(a)
              \/ ReadT1(a) \/ StorePending(a) \/ StoreLast(a) \/ SendRejected(a)
              => InFlight' = InFlight
<1>1. a \in InFlight <=> app[a].pc \in InCall
  BY DEF InFlight, InCall
<1>2. ASSUME OthersWait(a)
      PROVE  InFlight' = IF app'[a].pc \in InCall THEN InFlight \union {a} ELSE InFlight \ {a}
  BY <1>2 DEF InFlight, InCall, OthersWait
<1>3. ASSUME TakeSequence(a) PROVE a \notin InFlight /\ InFlight' = InFlight \union {a}
  BY <1>1, <1>2, <1>3, TakeEffect DEF TakeSequence, At, InCall
<1>4. ASSUME SendAccepted(a) \/ ForgetPending(a) PROVE a \in InFlight /\ InFlight' = InFlight \ {a}
  BY <1>1, <1>2, <1>4, ReturnEffect DEF SendAccepted, ForgetPending, At, InCall, Idle
<1>5. ASSUME Shutdown(a) PROVE InFlight' = InFlight
  BY <1>5 DEF Shutdown, InFlight
<1>6. ASSUME \/ Initialize(a) \/ Open(a) \/ InitializeFails(a) \/ Update(a) \/ UpdateDue(a) \/ Request(a)
             \/ Refuse(a)
      PROVE  InFlight' = InFlight
  <2>1. a \notin InFlight
    BY <1>1, <1>6 DEF Initialize, Open, InitializeFails, Update, UpdateDue, Request, Refuse, At, InCall
  <2>2. OthersWait(a) /\ app'[a].pc \notin InCall
    <3>1. Goto(a, "opening") \/ Goto(a, "request") \/ Return(a) \/ Update(a)
      BY <1>6 DEF Initialize, Open, InitializeFails, UpdateDue, Request, Refuse
    <3>2. "opening" \notin InCall /\ "request" \notin InCall /\ "update" \notin InCall /\ Idle.pc \notin InCall
      BY DEF InCall, Idle
    <3> QED
      BY <3>1, <3>2, GotoEffect, ReturnEffect, UpdateEffect
  <2> QED
    BY <1>2, <2>1, <2>2
<1>7. ASSUME ReadT1(a) \/ StorePending(a) \/ StoreLast(a) \/ SendRejected(a) PROVE InFlight' = InFlight
  <2>1. a \in InFlight
    BY <1>1, <1>7 DEF ReadT1, StorePending, StoreLast, SendRejected, At, InCall
  <2>2. OthersWait(a) /\ app'[a].pc \in InCall
    BY <1>7, GotoEffect, ReadT1Effect DEF StorePending, StoreLast, SendRejected, InCall
  <2> QED
    BY <1>2, <2>1, <2>2
<1> QED
  BY <1>3, <1>4, <1>5, <1>6, <1>7

\* With finitely many threads, each of the two sums is kept by every step:
\* a call that is in flight is what has been attempted and neither sent nor
\* failed yet.
THEOREM CountersAddUp == ASSUME IsFiniteSet(App) PROVE Spec => []StatisticsAddUp
<1>1. IsFiniteSet(InFlight) /\ Cardinality(InFlight) \in Nat
  BY FS_Subset, FS_CardinalityType DEF InFlight
<1>2. Init => StatisticsAddUp
  <2> SUFFICES ASSUME Init PROVE StatisticsAddUp
    OBVIOUS
  <2>1. InFlight = {}
    BY DEF Init, InFlight, Idle
  <2> QED
    BY <2>1, FS_EmptySet DEF Init, StatisticsAddUp, Resting
<1>3. TypeOK /\ StatisticsAddUp /\ [Next]_vars => StatisticsAddUp'
  <2> SUFFICES ASSUME TypeOK, StatisticsAddUp, [Next]_vars PROVE StatisticsAddUp'
    OBVIOUS
  <2> DEFINE attempts1 == stats.attempted
             Waiting == IF worker.pc = "cleared" THEN 1 ELSE 0
  <2>1. /\ stats \in [Counter -> Nat] /\ Counter = {"attempted", "sent", "failed", "received", "accepted", "rejected"}
        /\ stats.attempted = stats.sent + stats.failed + Cardinality(InFlight)
        /\ stats.received = stats.accepted + stats.rejected + Waiting
    BY DEF TypeOK, StatisticsAddUp, Counter
  <2>2. ASSUME UNCHANGED <<stats, worker>>, InFlight' = InFlight PROVE StatisticsAddUp'
    BY <2>1, <2>2 DEF StatisticsAddUp
  <2>3. ASSUME NEW a \in App, TakeSequence(a) PROVE StatisticsAddUp'
    <3>1. Cardinality(InFlight') = Cardinality(InFlight) + 1
      BY <1>1, <2>3, FlightStep, FS_AddElement
    <3>2. stats' = [stats EXCEPT !.attempted = @ + 1] /\ worker' = worker
      BY <2>3 DEF TakeSequence, Count
    <3> QED
      BY <1>1, <2>1, <3>1, <3>2 DEF StatisticsAddUp
  <2>4. ASSUME NEW a \in App, SendAccepted(a) \/ ForgetPending(a) PROVE StatisticsAddUp'
    <3>1. Cardinality(InFlight') = Cardinality(InFlight) - 1
      BY <1>1, <2>4, FlightStep, FS_RemoveElement
    <3>2. /\ worker' = worker
          /\ stats' = [stats EXCEPT !.sent = @ + 1] \/ stats' = [stats EXCEPT !.failed = @ + 1]
      BY <2>4 DEF SendAccepted, ForgetPending, Count
    <3> QED
      BY <1>1, <2>1, <3>1, <3>2 DEF StatisticsAddUp
  <2>5. ASSUME NEW a \in App, Refuse(a) PROVE StatisticsAddUp'
    <3>1. InFlight' = InFlight
      BY <2>5, FlightStep
    <3>2. stats' = [stats EXCEPT !.attempted = @ + 1, !.failed = @ + 1] /\ worker' = worker
      BY <2>5 DEF Refuse
    <3> QED
      BY <1>1, <2>1, <3>1, <3>2 DEF StatisticsAddUp
  <2>6. ASSUME NEW a \in App,
               \/ Shutdown(a) \/ Initialize(a) \/ Open(a) \/ InitializeFails(a) \/ Update(a) \/ UpdateDue(a)
               \/ Request(a) \/ ReadT1(a) \/ StorePending(a) \/ StoreLast(a) \/ SendRejected(a)
        PROVE  StatisticsAddUp'
    <3>1. InFlight' = InFlight
      BY <2>6, FlightStep
    <3>2. UNCHANGED <<stats, worker>>
      BY <2>6 DEF Shutdown, Initialize, Open, InitializeFails, Update, UpdateDue, Request, ReadT1,
                  StorePending, StoreLast, SendRejected
    <3> QED
      BY <2>2, <3>1, <3>2
  <2>7. CASE WorkerSteps
    <3>1. InFlight' = InFlight
      <4>1. app' = app
        BY <2>7 DEF WorkerSteps, Respond, OnRadioPacketReceived, MatchPending, ClearPending, SubmitSample
      <4> QED
        BY <4>1 DEF InFlight
    <3>2. CASE ClearPending
      <4>1. stats' = [stats EXCEPT !.received = @ + 1] /\ worker.pc = "matched" /\ worker'.pc = "cleared"
        BY <3>2 DEF ClearPending, Count, TypeOK
      <4> QED
        BY <1>1, <2>1, <3>1, <4>1 DEF StatisticsAddUp
    <3>3. CASE SubmitSample
      <4>1. /\ stats' = [stats EXCEPT !.accepted = @ + 1] \/ stats' = [stats EXCEPT !.rejected = @ + 1]
            /\ worker.pc = "cleared" /\ worker'.pc = "idle"
        BY <3>3 DEF SubmitSample, Count, Resting
      <4> QED
        BY <1>1, <2>1, <3>1, <4>1 DEF StatisticsAddUp
    <3>4. CASE \/ \E r \in requests : Respond(r)
               \/ \E r \in responses : OnRadioPacketReceived(r)
               \/ MatchPending
      <4>1. stats' = stats /\ (worker'.pc = "cleared" <=> worker.pc = "cleared")
        BY <3>4 DEF Respond, OnRadioPacketReceived, MatchPending, Resting, TypeOK
      <4> QED
        BY <2>1, <3>1, <4>1 DEF StatisticsAddUp
    <3> QED
      BY <2>7, <3>2, <3>3, <3>4 DEF WorkerSteps
  <2>8. CASE Tick \/ RadioStartStop \/ UNCHANGED vars
    BY <2>2, <2>8 DEF Tick, RadioStartStop, vars, InFlight
  <2> QED
    BY <2>3, <2>4, <2>5, <2>6, <2>7, <2>8 DEF Next, RequestSteps
<1> QED
  BY <1>2, <1>3, TypeCorrect, PTL DEF Spec

-----------------------------------------------------------------------------
(* One sample per exchange, whatever threads the application has.          *)

\* A step that takes no number, awaits none and sends nothing.
Quiet(a) ==
    \/ Shutdown(a) \/ Initialize(a) \/ Open(a) \/ InitializeFails(a)
    \/ Update(a) \/ UpdateDue(a) \/ Request(a) \/ Refuse(a)
    \/ ReadT1(a) \/ StoreLast(a) \/ SendRejected(a) \/ ForgetPending(a)

LEMMA QuietEffect ==
    ASSUME TypeOK, NEW a \in App, Quiet(a)
    PROVE  /\ OthersWait(a)
           /\ UNCHANGED <<nextSequence, worker, requests, responses, samples>>
           /\ pending' \in {0, pending}
           /\ \/ stats'.attempted = stats.attempted
              \/ stats.attempted < MaxRequests /\ stats'.attempted = stats.attempted + 1
           /\ a \in InFlight' => /\ a \in InFlight
                                 /\ app'[a].seq = app[a].seq
                                 /\ app'[a].pc \in {"stamp", "pending"} => app[a].pc \in {"stamp", "pending"}
           /\ pending' # 0 /\ app[a].pc \in {"last", "send", "failed"} =>
                 app'[a].pc \in {"last", "send", "failed"} /\ app'[a].seq = app[a].seq
<1> DEFINE Goal == /\ OthersWait(a)
                   /\ a \in InFlight' =>
                         /\ a \in InFlight
                         /\ app'[a].seq = app[a].seq
                         /\ app'[a].pc \in {"stamp", "pending"} => app[a].pc \in {"stamp", "pending"}
                   /\ pending' # 0 /\ app[a].pc \in {"last", "send", "failed"} =>
                         app'[a].pc \in {"last", "send", "failed"} /\ app'[a].seq = app[a].seq
<1>1. UNCHANGED <<nextSequence, worker, requests, responses, samples>> /\ pending' \in {0, pending}
  BY DEF Quiet, Shutdown, Initialize, Open, InitializeFails, Update, UpdateDue, Request, Refuse,
         ReadT1, StoreLast, SendRejected, ForgetPending, Close, shared, medium
<1>2. \/ stats'.attempted = stats.attempted
      \/ stats.attempted < MaxRequests /\ stats'.attempted = stats.attempted + 1
  BY DEF TypeOK, Quiet, Shutdown, Initialize, Open, InitializeFails, Update, UpdateDue, Request, Refuse,
         ReadT1, StoreLast, SendRejected, ForgetPending, Count
<1>3. a \in InFlight' <=> app'[a].pc \in InCall
  BY DEF InFlight, InCall
<1>4. CASE Shutdown(a)
  <2>1. app' = app /\ app[a].pc = "idle"
    BY <1>4 DEF Shutdown, At
  <2>2. Goal
    BY <2>1 DEF OthersWait, InFlight
  <2> QED
    BY <1>1, <1>2, <2>2
<1>5. CASE \/ Initialize(a) \/ Open(a) \/ InitializeFails(a) \/ Update(a) \/ UpdateDue(a) \/ Request(a)
           \/ Refuse(a)
  <2>1. app[a].pc \notin {"last", "send", "failed"}
    BY <1>5 DEF Initialize, Open, InitializeFails, Update, UpdateDue, Request, Refuse, At
  <2>2. Goto(a, "opening") \/ Goto(a, "request") \/ Return(a) \/ Update(a)
    BY <1>5 DEF Initialize, Open, InitializeFails, UpdateDue, Request, Refuse
  <2>3. "opening" \notin InCall /\ "request" \notin InCall /\ "update" \notin InCall /\ Idle.pc \notin InCall
    BY DEF InCall, Idle
  <2>4. OthersWait(a) /\ app'[a].pc \notin InCall
    BY <2>2, <2>3, GotoEffect, ReturnEffect, UpdateEffect
  <2>5. Goal
    BY <1>3, <2>1, <2>4
  <2> QED
    BY <1>1, <1>2, <2>5
<1>6. CASE ReadT1(a)
  <2>1. app[a].pc = "stamp"
    BY <1>6 DEF ReadT1, At
  <2>2. Goal
    BY <1>6, <2>1, ReadT1Effect DEF InFlight
  <2> QED
    BY <1>1, <1>2, <2>2
<1>7. CASE StoreLast(a) \/ SendRejected(a)
  <2>1. app[a].pc \in {"last", "send"} /\ (Goto(a, "send") \/ Goto(a, "failed"))
    BY <1>7 DEF StoreLast, SendRejected, At
  <2>2. OthersWait(a) /\ app'[a].pc \in {"send", "failed"} /\ app'[a].seq = app[a].seq
    BY <2>1, GotoEffect DEF SameCall
  <2>3. Goal
    BY <2>1, <2>2 DEF InFlight
  <2> QED
    BY <1>1, <1>2, <2>3
<1>8. CASE ForgetPending(a)
  <2>1. OthersWait(a) /\ app'[a] = Idle /\ pending' = 0
    BY <1>8, ReturnEffect DEF ForgetPending
  <2>2. Goal
    BY <1>3, <2>1 DEF Idle, InCall
  <2> QED
    BY <1>1, <1>2, <2>2
<1> QED
  BY <1>4, <1>5, <1>6, <1>7, <1>8, <1>1, <1>2 DEF Quiet

\* A number that is pending is of a request that was sent or of a call that is
\* about to send it: when the radio refuses it, the call withdraws it.
THEOREM PendingSent == Spec => []PendingWasSent
<1>1. Init => PendingWasSent
  BY DEF Init, PendingWasSent
<1>2. TypeOK /\ PendingWasSent /\ [Next]_vars => PendingWasSent'
  <2> SUFFICES ASSUME TypeOK, PendingWasSent, [Next]_vars, pending' # 0
               PROVE  \/ \E r \in requests' : r.seq = pending'
                      \/ \E a \in App : app'[a].seq = pending' /\ app'[a].pc \in {"last", "send", "failed"}
    BY DEF PendingWasSent
  <2>1. ASSUME NEW a \in App, Quiet(a)
        PROVE  \/ \E r \in requests' : r.seq = pending'
               \/ \E b \in App : app'[b].seq = pending' /\ app'[b].pc \in {"last", "send", "failed"}
    <3>1. pending' = pending /\ requests' = requests /\ OthersWait(a)
          /\ (app[a].pc \in {"last", "send", "failed"} =>
                 app'[a].pc \in {"last", "send", "failed"} /\ app'[a].seq = app[a].seq)
      BY <2>1, QuietEffect
    <3> QED
      BY <3>1 DEF PendingWasSent, OthersWait
  <2>2. ASSUME NEW a \in App, TakeSequence(a)
        PROVE  \/ \E r \in requests' : r.seq = pending'
               \/ \E b \in App : app'[b].seq = pending' /\ app'[b].pc \in {"last", "send", "failed"}
    <3>1. pending' = pending /\ requests' = requests /\ OthersWait(a) /\ app[a].pc = "request"
      BY <2>2, TakeEffect DEF TakeSequence, medium, At
    <3> QED
      BY <3>1 DEF PendingWasSent, OthersWait
  <2>3. ASSUME NEW a \in App, StorePending(a)
        PROVE  \E b \in App : app'[b].seq = pending' /\ app'[b].pc \in {"last", "send", "failed"}
    BY <2>3, GotoEffect DEF StorePending, SameCall
  <2>4. ASSUME NEW a \in App, SendAccepted(a)
        PROVE  \/ \E r \in requests' : r.seq = pending'
               \/ \E b \in App : app'[b].seq = pending' /\ app'[b].pc \in {"last", "send", "failed"}
    <3> DEFINE sent == [seq |-> app[a].seq, t1 |-> app[a].t1, alone |-> app[a].alone,
                        session |-> app[a].session]
    <3>1. pending' = pending /\ requests' = requests \union {sent} /\ OthersWait(a)
      BY <2>4, ReturnEffect DEF SendAccepted, shared
    <3>2. sent \in requests' /\ sent.seq = app[a].seq
      BY <3>1
    <3> HIDE DEF sent
    <3> QED
      BY <3>1, <3>2 DEF PendingWasSent, OthersWait
  <2>5. CASE WorkerSteps \/ Tick \/ RadioStartStop \/ UNCHANGED vars
    <3>1. pending' = pending /\ requests' = requests /\ app' = app
      BY <2>5 DEF WorkerSteps, Respond, OnRadioPacketReceived, MatchPending, ClearPending, SubmitSample,
                  Tick, RadioStartStop, vars, shared, medium
    <3> QED
      BY <3>1 DEF PendingWasSent
  <2> QED
    BY <2>1, <2>2, <2>3, <2>4, <2>5 DEF Next, RequestSteps, Quiet
<1> QED
  BY <1>1, <1>2, TypeCorrect, PTL DEF Spec

-----------------------------------------------------------------------------
LEMMA ExchangeInit == Init => ExchangeInv
<1> SUFFICES ASSUME Init PROVE ExchangeInv
  OBVIOUS
<1>1. InFlight = {} /\ DOMAIN samples = {} /\ worker.pc = "idle" /\ requests = {} /\ responses = {}
  BY DEF Init, InFlight, Idle, Resting
<1>2. nextSequence = 1 /\ stats.attempted = 0
  BY DEF Init
<1> QED
  <2>1. Numbering
    BY <1>1, <1>2, ClockAssumption DEF Numbering
  <2>2. AnswersOnly /\ OneRequestEach
    BY <1>1 DEF AnswersOnly, OneRequestEach
  <2>3. AwaitedOnce /\ SampledOnce
    BY <1>1 DEF AwaitedOnce, SampledOnce
  <2> QED
    BY <2>1, <2>2, <2>3 DEF ExchangeInv

LEMMA ExchangeQuiet ==
    ASSUME TypeOK, ExchangeInv, NEW a \in App, Quiet(a)
    PROVE  ExchangeInv'
<1>1. /\ OthersWait(a)
      /\ UNCHANGED <<nextSequence, worker, requests, responses, samples>>
      /\ pending' \in {0, pending}
      /\ \/ stats'.attempted = stats.attempted
         \/ stats.attempted < MaxRequests /\ stats'.attempted = stats.attempted + 1
      /\ a \in InFlight' => /\ a \in InFlight
                            /\ app'[a].seq = app[a].seq
                            /\ app'[a].pc \in {"stamp", "pending"} => app[a].pc \in {"stamp", "pending"}
  BY QuietEffect
<1>2. ASSUME NEW b \in InFlight'
      PROVE  /\ b \in InFlight
             /\ app'[b].seq = app[b].seq
             /\ app'[b].pc \in {"stamp", "pending"} => app[b].pc \in {"stamp", "pending"}
  BY <1>1 DEF OthersWait, InFlight
<1>3. AnswersOnly'
  BY <1>1 DEF ExchangeInv, AnswersOnly, Sent
<1>4. Numbering'
  <2>1. /\ nextSequence \in Nat /\ stats.attempted \in Nat /\ MaxRequests \in Nat /\ SeqModulus \in Nat
    BY ClockAssumption DEF TypeOK, Sequence
  <2>2. stats'.attempted \in Nat /\ stats'.attempted <= MaxRequests /\ stats.attempted <= stats'.attempted
    BY <1>1, <2>1 DEF ExchangeInv, Numbering
  <2>3. IF nextSequence' = 0 THEN stats'.attempted >= SeqModulus - 1 ELSE nextSequence' <= stats'.attempted + 1
    BY <1>1, <2>1, <2>2 DEF ExchangeInv, Numbering
  <2>4. \A b \in InFlight' : Taken(app[b].seq)'
    BY <1>1, <1>2 DEF ExchangeInv, Numbering, Taken
  <2>5. \A r \in requests' : Taken(r.seq)'
    BY <1>1 DEF ExchangeInv, Numbering, Taken
  <2> QED
    BY <2>2, <2>3, <2>4, <2>5 DEF Numbering
<1>5. OneRequestEach'
  <2>1. \A b \in InFlight' : Taken(app[b].seq) /\ app'[b].seq # 0
    BY <1>2 DEF ExchangeInv, Numbering, Taken
  <2> QED
    BY <1>1, <1>2, <2>1 DEF ExchangeInv, OneRequestEach, Sent
<1>6. AwaitedOnce'
  <2>1. worker.pc = "cleared" => worker.packet.seq # 0
    BY DEF ExchangeInv, AnswersOnly
  <2> QED
    BY <1>1, <2>1 DEF ExchangeInv, AwaitedOnce, AnswersOnly
<1>7. SampledOnce'
  BY <1>1 DEF ExchangeInv, SampledOnce
<1> QED
  BY <1>3, <1>4, <1>5, <1>6, <1>7 DEF ExchangeInv

LEMMA ExchangeTake ==
    ASSUME NoReuse, TypeOK, PendingWasSent, ExchangeInv, NEW a \in App, TakeSequence(a)
    PROVE  ExchangeInv'
<1>1. /\ OthersWait(a) /\ a \notin InFlight /\ InFlight' = InFlight \union {a}
      /\ app'[a].pc = "stamp"
      /\ app'[a].seq = IF nextSequence = 0 THEN 1 ELSE nextSequence
      /\ nextSequence' = NextSequence(app'[a].seq)
  BY TakeEffect, FlightStep
<1>2. /\ UNCHANGED <<worker, requests, responses, samples, pending>>
      /\ stats.attempted < MaxRequests /\ stats'.attempted = stats.attempted + 1
  BY DEF TakeSequence, medium, Count, TypeOK
<1>3. nextSequence \in Nat /\ nextSequence < SeqModulus /\ stats.attempted \in Nat
      /\ MaxRequests \in Nat /\ SeqModulus \in Nat /\ SeqModulus > 1
  <2>1. nextSequence \in Sequence /\ stats.attempted \in Nat
    BY DEF TypeOK
  <2> QED
    BY <2>1, ClockAssumption DEF Sequence
<1>4. nextSequence # 0
  BY <1>2, <1>3 DEF NoReuse, ExchangeInv, Numbering
<1>5. /\ app'[a].seq = nextSequence
      /\ nextSequence' = IF nextSequence + 1 = SeqModulus THEN 0 ELSE nextSequence + 1
  BY <1>1, <1>3, <1>4 DEF NextSequence
<1>6. ASSUME NEW seq \in Nat, Taken(seq) PROVE Taken(seq)' /\ seq < nextSequence
  BY <1>3, <1>4, <1>5, <1>6 DEF Taken
<1>7. /\ \A b \in InFlight : app[b].seq \in Nat /\ Taken(app[b].seq) /\ app'[b].seq = app[b].seq /\ app'[b].pc = app[b].pc
      /\ \A r \in requests : r.seq \in Nat /\ Taken(r.seq)
  <2>1. \A b \in InFlight : app'[b] = app[b] /\ app[b] \in AppState
    BY <1>1 DEF OthersWait, InFlight, TypeOK
  <2>2. \A r \in requests : r \in Packet
    BY DEF TypeOK
  <2> QED
    BY <2>1, <2>2 DEF ExchangeInv, Numbering, AppState, Packet, Sequence
<1>8. AnswersOnly'
  BY <1>2 DEF ExchangeInv, AnswersOnly, Sent
<1>9. Numbering'
  <2>1. IF nextSequence' = 0 THEN stats'.attempted >= SeqModulus - 1 ELSE nextSequence' <= stats'.attempted + 1
    BY <1>2, <1>3, <1>4, <1>5 DEF ExchangeInv, Numbering
  <2>2. \A b \in InFlight' : Taken(app[b].seq)'
    <3>1. Taken(app[a].seq)'
      BY <1>3, <1>4, <1>5 DEF Taken
    <3>2. \A b \in InFlight : Taken(app[b].seq)'
      BY <1>6, <1>7 DEF Taken
    <3> QED
      BY <1>1, <3>1, <3>2
  <2>3. \A r \in requests' : Taken(r.seq)'
    BY <1>2, <1>6, <1>7
  <2>4. stats'.attempted <= MaxRequests
    BY <1>2, <1>3
  <2> QED
    BY <2>1, <2>2, <2>3, <2>4 DEF Numbering
<1>10. nextSequence # pending
  <2>1. CASE pending = 0
    BY <1>4, <2>1
  <2>2. CASE \E r \in requests : r.seq = pending
    BY <1>3, <1>6, <1>7, <2>2
  <2>3. CASE \E b \in InFlight : app[b].seq = pending
    BY <1>3, <1>6, <1>7, <2>3
  <2> QED
    BY <2>1, <2>2, <2>3 DEF PendingWasSent, InFlight
<1>11. OneRequestEach'
  <2>1. \A b \in InFlight : app'[b].seq # app'[a].seq /\ app'[b].seq = app[b].seq /\ app'[b].pc = app[b].pc
    BY <1>3, <1>5, <1>6, <1>7
  <2>2. ~Sent(app[a].seq)'
    BY <1>2, <1>3, <1>5, <1>6, <1>7 DEF Sent
  <2>3. \A b \in InFlight : ~Sent(app[b].seq)'
    BY <1>2, <2>1 DEF ExchangeInv, OneRequestEach, Sent
  <2> QED
    BY <1>1, <1>2, <1>5, <1>10, <2>1, <2>2, <2>3 DEF ExchangeInv, OneRequestEach
<1>12. AwaitedOnce' /\ SampledOnce'
  BY <1>2 DEF ExchangeInv, AwaitedOnce, SampledOnce
<1> QED
  BY <1>8, <1>9, <1>11, <1>12 DEF ExchangeInv

LEMMA ExchangeStore ==
    ASSUME TypeOK, ExchangeInv, NEW a \in App, StorePending(a)
    PROVE  ExchangeInv'
<1>1. /\ OthersWait(a) /\ SameCall(a) /\ app'[a].pc = "last" /\ a \in InFlight /\ InFlight' = InFlight
      /\ pending' = app[a].seq
      /\ UNCHANGED <<nextSequence, worker, requests, responses, samples, stats>>
  BY GotoEffect, FlightStep DEF StorePending, medium, InFlight, At
<1>2. \A b \in InFlight : app'[b].seq = app[b].seq /\ (b # a => app'[b].pc = app[b].pc)
  BY <1>1 DEF OthersWait, SameCall, InFlight
<1>3. AnswersOnly'
  BY <1>1 DEF ExchangeInv, AnswersOnly, Sent
<1>4. Numbering'
  BY <1>1, <1>2 DEF ExchangeInv, Numbering, Taken
<1>5. OneRequestEach'
  BY <1>1, <1>2 DEF ExchangeInv, OneRequestEach, Sent
<1>6. AwaitedOnce'
  <2>1. ~Sent(app[a].seq)
    BY <1>1 DEF ExchangeInv, OneRequestEach
  <2>2. \A i \in DOMAIN samples : Sent(samples[i].seq)
    BY DEF ExchangeInv, AnswersOnly
  <2>3. worker.pc # "idle" => Sent(worker.packet.seq)
    BY DEF ExchangeInv, AnswersOnly, Sent
  <2>4. /\ \A i \in DOMAIN samples : samples[i].seq # app[a].seq
        /\ worker.pc # "idle" => worker.packet.seq # app[a].seq
    BY <2>1, <2>2, <2>3
  <2> QED
    BY <1>1, <2>4 DEF ExchangeInv, AwaitedOnce
<1>7. SampledOnce'
  BY <1>1 DEF ExchangeInv, SampledOnce
<1> QED
  BY <1>3, <1>4, <1>5, <1>6, <1>7 DEF ExchangeInv

LEMMA ExchangeSend ==
    ASSUME TypeOK, ExchangeInv, NEW a \in App, SendAccepted(a)
    PROVE  ExchangeInv'
<1> DEFINE sent == [seq |-> app[a].seq, t1 |-> app[a].t1, alone |-> app[a].alone, session |-> app[a].session]
<1>1. /\ OthersWait(a) /\ a \in InFlight /\ InFlight' = InFlight \ {a}
      /\ requests' = requests \union {sent}
      /\ UNCHANGED <<nextSequence, pending, worker, responses, samples>>
      /\ stats'.attempted = stats.attempted
  BY ReturnEffect, FlightStep DEF SendAccepted, shared, Count, TypeOK
<1>2. sent.seq = app[a].seq
  OBVIOUS
<1> HIDE DEF sent
<1>3. \A b \in InFlight' : b \in InFlight /\ b # a /\ app'[b] = app[b]
  BY <1>1 DEF OthersWait, InFlight
<1>4. \A seq : Sent(seq)' <=> Sent(seq) \/ seq = app[a].seq
  BY <1>1, <1>2 DEF Sent
<1>5. AnswersOnly'
  BY <1>1, <1>4 DEF ExchangeInv, AnswersOnly
<1>6. Numbering'
  <2>1. \A b \in InFlight' : Taken(app[b].seq)'
    BY <1>1, <1>3 DEF ExchangeInv, Numbering, Taken
  <2>2. \A r \in requests' : Taken(r.seq)'
    BY <1>1, <1>2 DEF ExchangeInv, Numbering, Taken
  <2> QED
    BY <1>1, <2>1, <2>2 DEF ExchangeInv, Numbering
<1>7. OneRequestEach'
  BY <1>1, <1>3, <1>4 DEF ExchangeInv, OneRequestEach
<1>8. AwaitedOnce' /\ SampledOnce'
  BY <1>1 DEF ExchangeInv, AwaitedOnce, SampledOnce
<1> QED
  BY <1>5, <1>6, <1>7, <1>8 DEF ExchangeInv

\* The worker's thread: between the check of the pending number and the store
\* that clears it another request may become pending, but not this one.
LEMMA ExchangeAnswer ==
    ASSUME TypeOK, ExchangeInv, WorkerSteps
    PROVE  ExchangeInv'
<1>1. /\ UNCHANGED <<nextSequence, app, requests>>
      /\ stats'.attempted = stats.attempted /\ InFlight' = InFlight
  BY DEF WorkerSteps, Respond, OnRadioPacketReceived, MatchPending, ClearPending, SubmitSample,
         shared, medium, Count, TypeOK, InFlight
<1>2. pending' \in {0, pending}
  BY DEF WorkerSteps, Respond, OnRadioPacketReceived, MatchPending, ClearPending, SubmitSample, shared
<1>3. Numbering'
  BY <1>1 DEF ExchangeInv, Numbering, Taken
<1>4. OneRequestEach'
  <2>1. \A b \in InFlight : app[b].seq # 0
    BY DEF ExchangeInv, Numbering, Taken
  <2> QED
    BY <1>1, <1>2, <2>1 DEF ExchangeInv, OneRequestEach, Sent
<1>5. \A seq : Sent(seq)' <=> Sent(seq)
  BY <1>1 DEF Sent
<1>6. CASE \E r \in requests : Respond(r)
  <2>1. PICK r \in requests : responses' = responses \union {r} /\ UNCHANGED <<worker, samples, pending>>
    BY <1>6 DEF Respond, shared
  <2>2. AnswersOnly'
    BY <1>1, <1>5, <2>1 DEF ExchangeInv, AnswersOnly
  <2>3. AwaitedOnce' /\ SampledOnce'
    BY <2>1 DEF ExchangeInv, AwaitedOnce, SampledOnce
  <2> QED
    BY <1>3, <1>4, <2>2, <2>3 DEF ExchangeInv
<1>7. CASE \E r \in responses : OnRadioPacketReceived(r)
  <2>1. PICK r \in responses : /\ worker' = [pc |-> "received", packet |-> r] /\ r.seq # 0
                             /\ UNCHANGED <<responses, samples, pending>>
    BY <1>7 DEF OnRadioPacketReceived, DecodeHeader, shared, medium
  <2>2. AnswersOnly'
    BY <1>1, <1>5, <2>1 DEF ExchangeInv, AnswersOnly
  <2>3. AwaitedOnce' /\ SampledOnce'
    BY <2>1 DEF ExchangeInv, AwaitedOnce, SampledOnce
  <2> QED
    BY <1>3, <1>4, <2>2, <2>3 DEF ExchangeInv
<1>8. CASE MatchPending
  <2>1. /\ worker.pc = "received" /\ UNCHANGED <<responses, samples, pending>>
        /\ \/ worker'.pc = "idle"
           \/ worker'.pc = "matched" /\ worker'.packet = worker.packet /\ pending = worker.packet.seq
    BY <1>8 DEF MatchPending, Resting, shared, medium, TypeOK
  <2>2. AnswersOnly'
    BY <1>1, <1>5, <2>1 DEF ExchangeInv, AnswersOnly
  <2>3. AwaitedOnce' /\ SampledOnce'
    BY <2>1 DEF ExchangeInv, AwaitedOnce, SampledOnce
  <2> QED
    BY <1>3, <1>4, <2>2, <2>3 DEF ExchangeInv
<1>9. CASE ClearPending
  <2>1. /\ worker.pc = "matched" /\ UNCHANGED <<responses, samples>> /\ pending' = 0
        /\ worker'.pc = "cleared" /\ worker'.packet = worker.packet
    BY <1>9 DEF ClearPending, medium, TypeOK
  <2>2. AnswersOnly'
    BY <1>1, <1>5, <2>1 DEF ExchangeInv, AnswersOnly
  <2>3. AwaitedOnce' /\ SampledOnce'
    BY <2>1 DEF ExchangeInv, AnswersOnly, AwaitedOnce, SampledOnce
  <2> QED
    BY <1>3, <1>4, <2>2, <2>3 DEF ExchangeInv
<1>10. CASE SubmitSample
  <2> PICK L : L = Len(samples)
    OBVIOUS
  <2>1. worker.pc = "cleared" /\ worker'.pc = "idle" /\ UNCHANGED <<responses, pending>>
    BY <1>10 DEF SubmitSample, Resting, shared, medium
  <2>2. Submitted.seq = worker.packet.seq
    BY DEF Submitted
  <2>4. /\ L \in Nat /\ DOMAIN samples = 1 .. L /\ DOMAIN samples' = 1 .. L + 1
        /\ samples'[L + 1] = Submitted /\ \A i \in 1 .. L : samples'[i] = samples[i]
    BY <1>10, SubmitEffect
  <2>5. /\ worker.packet.seq # 0 /\ Sent(worker.packet.seq) /\ worker.packet.seq # pending
        /\ \A i \in DOMAIN samples : samples[i].seq # worker.packet.seq
    BY <2>1 DEF ExchangeInv, AnswersOnly, AwaitedOnce, Sent
  <2>6. \A i \in 1 .. L + 1 : i = L + 1 \/ i \in 1 .. L
    BY <1>10, SubmitEffect
  <2>7. AnswersOnly'
    <3>1. \A i \in DOMAIN samples' : samples'[i].seq # 0 /\ Sent(samples'[i].seq)
      BY <2>2, <2>4, <2>5, <2>6 DEF ExchangeInv, AnswersOnly
    <3> QED
      BY <1>1, <1>5, <2>1, <3>1 DEF ExchangeInv, AnswersOnly
  <2>8. AwaitedOnce'
    BY <2>1, <2>2, <2>4, <2>5, <2>6 DEF ExchangeInv, AwaitedOnce
  <2>9. SampledOnce'
    <3> SUFFICES ASSUME NEW i \in 1 .. L + 1, NEW j \in 1 .. L + 1, samples'[i].seq = samples'[j].seq
                 PROVE  i = j
      BY <2>4 DEF SampledOnce
    <3>1. CASE i \in 1 .. L /\ j \in 1 .. L
      BY <2>4, <3>1 DEF ExchangeInv, SampledOnce
    <3>2. CASE i = L + 1 \/ j = L + 1
      BY <2>2, <2>4, <2>5, <2>6, <3>2
    <3> QED
      BY <2>6, <3>1, <3>2
  <2> QED
    BY <1>3, <1>4, <2>7, <2>8, <2>9 DEF ExchangeInv
<1> QED
  BY <1>6, <1>7, <1>8, <1>9, <1>10 DEF WorkerSteps

LEMMA ExchangeStep ==
    ASSUME NoReuse
    PROVE  TypeOK /\ PendingWasSent /\ ExchangeInv /\ [Next]_vars => ExchangeInv'
<1> SUFFICES ASSUME TypeOK, PendingWasSent, ExchangeInv, [Next]_vars PROVE ExchangeInv'
  OBVIOUS
<1>1. CASE Tick \/ RadioStartStop \/ UNCHANGED vars
  <2>1. UNCHANGED <<nextSequence, pending, app, worker, requests, responses, stats, samples>>
    BY <1>1 DEF Tick, RadioStartStop, vars, shared, medium
  <2> QED
    BY <2>1 DEF ExchangeInv, AnswersOnly, Numbering, OneRequestEach, AwaitedOnce, SampledOnce, Sent, Taken, InFlight
<1> QED
  BY <1>1, ExchangeQuiet, ExchangeTake, ExchangeStore, ExchangeSend, ExchangeAnswer DEF Next, RequestSteps, Quiet

LEMMA ExchangeInvariant == ASSUME NoReuse PROVE Spec => []ExchangeInv
<1>1. TypeOK /\ PendingWasSent /\ ExchangeInv /\ [Next]_vars => ExchangeInv'
  BY ExchangeStep
<1> QED
  BY <1>1, ExchangeInit, TypeCorrect, PendingSent, PTL DEF Spec

\* However often a response comes and however late, and although the check of
\* the pending number and the store that clears it are two steps: an exchange
\* yields one sample.  For any threads, until the sequence comes round.
THEOREM OneSampleEach == ASSUME NoReuse PROVE Spec => []SampledOnce
<1>1. ExchangeInv => SampledOnce
  BY DEF ExchangeInv
<1> QED
  BY <1>1, ExchangeInvariant, PTL

-----------------------------------------------------------------------------
(* One thread: a call is not cut in two by Shutdown or Initialize.         *)

SessionInv == ThisSession /\ AwaitsNewest

LEMMA SessionInit == Init => SessionInv
<1> SUFFICES ASSUME Init PROVE SessionInv
  OBVIOUS
<1>1. \A a \in App : app[a].pc = "idle" /\ app[a].update = FALSE
  BY DEF Init, Idle
<1>2. pending = 0
  BY DEF Init
<1> QED
  BY <1>1, <1>2 DEF SessionInv, ThisSession, AwaitsNewest, InFlight

\* Calls that are not in flight, before or after.
LEMMA SessionOutside ==
    ASSUME OneThread, TypeOK, SessionInv, NEW a \in App,
           \/ Shutdown(a) \/ Initialize(a) \/ Open(a) \/ InitializeFails(a)
           \/ Update(a) \/ UpdateDue(a) \/ Request(a) \/ Refuse(a)
    PROVE  SessionInv'
<1>1. \A b \in App : b = a
  BY DEF OneThread
<1>2. app[a].pc \in {"idle", "opening", "update", "request"} /\ requests' = requests
  BY DEF Shutdown, Initialize, Open, InitializeFails, Update, UpdateDue, Request, Refuse, At, medium
<1>3. /\ app[a].pc \in {"idle", "opening"} => ~app[a].update
      /\ app[a].pc = "update" \/ app[a].update => initialized
  BY DEF SessionInv, ThisSession
<1>4. pending' = 0 \/ (pending' = pending /\ session' = session)
  <2>1. CASE Shutdown(a) \/ Initialize(a) \/ Open(a)
    BY <2>1 DEF Shutdown, Initialize, Open, Close
  <2>2. CASE InitializeFails(a) \/ Update(a) \/ UpdateDue(a) \/ Request(a) \/ Refuse(a)
    BY <2>2 DEF InitializeFails, Update, UpdateDue, Request, Refuse, shared
  <2> QED
    BY <2>1, <2>2
<1>5. AwaitsNewest'
  BY <1>2, <1>4 DEF SessionInv, AwaitsNewest
<1>6. /\ app'[a].pc \in {"idle", "opening", "update", "request"}
      /\ app'[a].pc \in {"idle", "opening"} => ~app'[a].update
      /\ app'[a].pc = "update" \/ app'[a].update => initialized'
  <2>1. CASE Shutdown(a)
    BY <1>3, <2>1 DEF Shutdown, At
  <2>2. CASE Initialize(a)
    BY <1>3, <2>2, GotoEffect DEF Initialize, At, SameCall
  <2>3. CASE Open(a) \/ InitializeFails(a) \/ Refuse(a)
    <3>1. app'[a] = Idle
      BY <2>3, ReturnEffect DEF Open, InitializeFails, Refuse
    <3> QED
      BY <3>1 DEF Idle
  <2>4. CASE Update(a)
    BY <2>4, UpdateEffect DEF Update, shared
  <2>5. CASE UpdateDue(a)
    <3>1. initialized /\ initialized' = initialized
      BY <1>3, <2>5 DEF UpdateDue, At, shared
    <3> QED
      BY <2>5, <3>1, GotoEffect, ReturnEffect DEF UpdateDue, Idle, SameCall
  <2>6. CASE Request(a)
    BY <1>3, <2>6, GotoEffect DEF Request, At, SameCall, shared
  <2> QED
    BY <2>1, <2>2, <2>3, <2>4, <2>5, <2>6
<1>7. \A b \in App : b \notin InFlight'
  BY <1>1, <1>6 DEF InFlight
<1>8. ThisSession'
  BY <1>1, <1>6, <1>7 DEF ThisSession
<1> QED
  BY <1>5, <1>8 DEF SessionInv

LEMMA SessionCall ==
    ASSUME OneThread, NoReuse, TypeOK, PendingWasSent, ExchangeInv, SessionInv, NEW a \in App,
           \/ TakeSequence(a) \/ ReadT1(a) \/ StorePending(a) \/ StoreLast(a)
           \/ SendAccepted(a) \/ SendRejected(a) \/ ForgetPending(a)
    PROVE  SessionInv'
<1>1. \A b \in App : b = a
  BY DEF OneThread
<1>2. UNCHANGED <<initialized, session>>
  BY DEF TakeSequence, ReadT1, StorePending, StoreLast, SendAccepted, SendRejected, ForgetPending, shared
<1>3. /\ app[a].update \/ a \in InFlight => initialized
      /\ a \in InFlight => app[a].session = session /\ \A r \in requests : r.seq < app[a].seq
      /\ app[a].pc \in {"last", "send", "failed"} => pending \in {0, app[a].seq}
  BY DEF SessionInv, ThisSession
<1>4. app[a].pc \in {"stamp", "pending", "last", "send", "failed"} => a \in InFlight
  BY DEF InFlight
<1>5. app[a].seq \in Nat /\ \A r \in requests : r.seq \in Nat
  <2>1. app[a] \in AppState /\ \A r \in requests : r \in Packet
    BY DEF TypeOK
  <2> QED
    BY <2>1 DEF AppState, Packet, Sequence
<1>6. ASSUME app'[a].pc \notin {"idle", "opening"}, initialized, app'[a].session = session,
             \A r \in requests' : r.seq < app'[a].seq,
             app'[a].pc \in {"last", "send", "failed"} => pending' \in {0, app'[a].seq}
      PROVE  ThisSession'
  BY <1>1, <1>2, <1>6 DEF ThisSession
<1>7. CASE TakeSequence(a)
  <2>1. /\ app'[a].pc = "stamp" /\ app'[a].session = session /\ initialized
        /\ app'[a].seq = IF nextSequence = 0 THEN 1 ELSE nextSequence
        /\ UNCHANGED <<requests, pending>>
    BY <1>7, TakeEffect DEF TakeSequence, medium
  <2>2. nextSequence # 0
    <3>1. stats.attempted \in Nat /\ stats.attempted < MaxRequests
      BY <1>7 DEF TakeSequence, TypeOK
    <3> QED
      BY <3>1, ClockAssumption DEF NoReuse, ExchangeInv, Numbering
  <2>3. \A r \in requests : r.seq < nextSequence
    BY <2>2 DEF ExchangeInv, Numbering, Taken
  <2> QED
    BY <1>2, <1>6, <2>1, <2>2, <2>3 DEF SessionInv, AwaitsNewest
<1>8. CASE ReadT1(a)
  <2>1. /\ app'[a].pc = "pending" /\ app'[a].session = app[a].session /\ app'[a].seq = app[a].seq
        /\ UNCHANGED <<requests, pending>> /\ a \in InFlight
    BY <1>4, <1>8, ReadT1Effect DEF ReadT1, At, medium, shared
  <2> QED
    BY <1>2, <1>3, <1>6, <2>1 DEF SessionInv, AwaitsNewest
<1>9. CASE StorePending(a)
  <2>1. /\ app'[a].pc = "last" /\ app'[a].session = app[a].session /\ app'[a].seq = app[a].seq
        /\ pending' = app[a].seq /\ UNCHANGED requests /\ a \in InFlight
    BY <1>4, <1>9, GotoEffect DEF StorePending, At, medium, SameCall
  <2>2. AwaitsNewest'
    BY <1>3, <1>5, <2>1 DEF AwaitsNewest
  <2> QED
    BY <1>2, <1>3, <1>6, <2>1, <2>2 DEF SessionInv
<1>10. CASE StoreLast(a) \/ SendRejected(a)
  <2>1. /\ app'[a].pc \in {"send", "failed"} /\ app[a].pc \in {"last", "send"}
        /\ app'[a].session = app[a].session /\ app'[a].seq = app[a].seq
        /\ UNCHANGED <<requests, pending>> /\ a \in InFlight
    BY <1>4, <1>10, GotoEffect DEF StoreLast, SendRejected, At, medium, shared, SameCall
  <2> QED
    BY <1>2, <1>3, <1>6, <2>1 DEF SessionInv, AwaitsNewest
<1>11. ASSUME app'[a] = Idle PROVE ThisSession'
  <2>1. app'[a].pc = "idle" /\ app'[a].update = FALSE
    BY <1>11 DEF Idle
  <2> QED
    BY <1>1, <2>1 DEF ThisSession, InFlight
<1>12. CASE SendAccepted(a)
  <2> DEFINE sent == [seq |-> app[a].seq, t1 |-> app[a].t1, alone |-> app[a].alone,
                      session |-> app[a].session]
  <2>1. /\ app'[a] = Idle /\ requests' = requests \union {sent}
        /\ pending' = pending /\ a \in InFlight /\ pending \in {0, app[a].seq}
    BY <1>3, <1>4, <1>12, ReturnEffect DEF SendAccepted, At, shared
  <2>2. sent.seq = app[a].seq /\ sent.session = app[a].session
    OBVIOUS
  <2> HIDE DEF sent
  <2>3. AwaitsNewest'
    BY <1>2, <1>3, <1>5, <2>1, <2>2 DEF AwaitsNewest
  <2> QED
    BY <1>11, <2>1, <2>3 DEF SessionInv
<1>13. CASE ForgetPending(a)
  <2>1. app'[a] = Idle /\ pending' = 0
    BY <1>13, ReturnEffect DEF ForgetPending
  <2> QED
    BY <1>11, <2>1 DEF SessionInv, AwaitsNewest
<1> QED
  BY <1>7, <1>8, <1>9, <1>10, <1>12, <1>13

LEMMA SessionStep ==
    ASSUME OneThread, NoReuse
    PROVE  TypeOK /\ PendingWasSent /\ ExchangeInv /\ SessionInv /\ [Next]_vars => SessionInv'
<1> SUFFICES ASSUME TypeOK, PendingWasSent, ExchangeInv, SessionInv, [Next]_vars PROVE SessionInv'
  OBVIOUS
<1>1. CASE WorkerSteps \/ Tick \/ RadioStartStop \/ UNCHANGED vars
  <2>1. UNCHANGED <<initialized, session, app, requests>> /\ pending' \in {0, pending}
    BY <1>1 DEF WorkerSteps, Respond, OnRadioPacketReceived, MatchPending, ClearPending, SubmitSample,
                Tick, RadioStartStop, vars, shared, medium
  <2> QED
    BY <2>1 DEF SessionInv, ThisSession, AwaitsNewest, InFlight
<1> QED
  BY <1>1, SessionOutside, SessionCall DEF Next, RequestSteps

LEMMA SessionInvariant == ASSUME OneThread, NoReuse PROVE Spec => []SessionInv
<1>1. TypeOK /\ PendingWasSent /\ ExchangeInv /\ SessionInv /\ [Next]_vars => SessionInv'
  BY SessionStep
<1> QED
  BY <1>1, SessionInit, TypeCorrect, PendingSent, ExchangeInvariant, PTL DEF Spec

\* A response is taken in MatchPending and nowhere else.
LEMMA MatchedNow ==
    ASSUME TypeOK, [Next]_vars, worker'.pc = "matched", worker.pc = "received"
    PROVE  worker'.packet = worker.packet /\ pending # 0 /\ pending = worker.packet.seq
<1>1. worker' # worker
  OBVIOUS
<1>2. ASSUME NEW a \in App,
             \/ Shutdown(a) \/ Initialize(a) \/ Open(a) \/ InitializeFails(a)
             \/ Update(a) \/ UpdateDue(a) \/ Request(a) \/ RequestSteps(a)
      PROVE  FALSE
  <2>1. worker' = worker
    BY <1>2 DEF Shutdown, Initialize, Open, InitializeFails, Update, UpdateDue, Request, RequestSteps,
                Refuse, TakeSequence, ReadT1, StorePending, StoreLast, SendAccepted, SendRejected,
                ForgetPending
  <2> QED
    BY <1>1, <2>1
<1>3. CASE Tick \/ RadioStartStop \/ UNCHANGED vars
  BY <1>1, <1>3 DEF Tick, RadioStartStop, vars
<1>4. CASE WorkerSteps
  <2>1. MatchPending
    BY <1>4 DEF WorkerSteps, Respond, OnRadioPacketReceived, ClearPending, SubmitSample, Resting
  <2> QED
    BY <2>1 DEF MatchPending, Resting, TypeOK
<1> QED
  BY <1>2, <1>3, <1>4 DEF Next

\* With one application thread, a response is matched only to a request of the
\* present session: one from before a Shutdown finds its number cleared.
THEOREM SessionsApart == ASSUME OneThread, NoReuse PROVE Spec => MatchedInItsSession
<1>1. TypeOK /\ ExchangeInv /\ SessionInv /\ [Next]_vars
      => (worker'.pc = "matched" /\ worker.pc = "received" => worker'.packet.session = session)
  <2> SUFFICES ASSUME TypeOK, ExchangeInv, SessionInv, [Next]_vars,
                      worker'.pc = "matched", worker.pc = "received"
               PROVE  worker'.packet.session = session
    OBVIOUS
  <2>1. worker'.packet = worker.packet /\ pending # 0 /\ pending = worker.packet.seq
    BY MatchedNow
  <2>2. worker.packet \in requests
    BY DEF ExchangeInv, AnswersOnly
  <2> QED
    BY <2>1, <2>2 DEF SessionInv, AwaitsNewest
<1> QED
  BY <1>1, TypeCorrect, ExchangeInvariant, SessionInvariant, PTL DEF Spec, MatchedInItsSession

\* And it is the newest request of the session that it answers.
THEOREM NewestAwaited == ASSUME OneThread, NoReuse PROVE Spec => OnlyLatestIsAwaited
<1>1. TypeOK /\ ExchangeInv /\ SessionInv /\ [Next]_vars
      => (worker'.pc = "matched" /\ worker.pc = "received" =>
             \A r \in requests : r.session = session => r.seq <= worker'.packet.seq)
  <2> SUFFICES ASSUME TypeOK, ExchangeInv, SessionInv, [Next]_vars,
                      worker'.pc = "matched", worker.pc = "received"
               PROVE  \A r \in requests : r.session = session => r.seq <= worker'.packet.seq
    OBVIOUS
  <2>1. worker'.packet = worker.packet /\ pending # 0 /\ pending = worker.packet.seq
    BY MatchedNow
  <2> QED
    BY <2>1 DEF SessionInv, AwaitsNewest
<1> QED
  BY <1>1, TypeCorrect, ExchangeInvariant, SessionInvariant, PTL DEF Spec, OnlyLatestIsAwaited

-----------------------------------------------------------------------------
(* One thread: a response matched before a Shutdown may be submitted after *)
(* the Initialize that follows, and only one.                              *)

Matched == worker.pc \in {"matched", "cleared"}

\* While the worker has a response of an earlier session in its hands, the
\* present one has no sample yet.
StrayInv ==
    /\ \A i \in DOMAIN samples : samples[i].during <= session
    /\ Matched /\ worker.packet.session # session =>
          \A i \in DOMAIN samples : samples[i].during < session
    /\ OneStraySample

LEMMA StrayInit == Init => StrayInv
<1> SUFFICES ASSUME Init PROVE StrayInv
  OBVIOUS
<1>1. DOMAIN samples = {} /\ worker.pc = "idle"
  BY DEF Init, Resting
<1> QED
  BY <1>1 DEF StrayInv, Matched, OneStraySample

\* Whatever leaves the worker and the samples alone: a new session is later
\* than every sample.
LEMMA StrayOthers ==
    ASSUME TypeOK, StrayInv, UNCHANGED <<worker, samples>>, session' \in {session, session + 1}
    PROVE  StrayInv'
<1>1. session \in Nat /\ session <= session'
  BY ClockAssumption DEF TypeOK
<1>2. \A i \in DOMAIN samples : samples[i].during \in Nat /\ samples[i].during <= session
  <2>1. \A i \in DOMAIN samples : samples[i] \in Sample
    BY ElementOfSeq, LenProperties DEF TypeOK
  <2> QED
    BY <2>1 DEF Sample, StrayInv
<1>3. \A i \in DOMAIN samples : samples[i].during <= session'
  BY <1>1, <1>2
<1>4. Matched /\ worker.packet.session # session' => \A i \in DOMAIN samples : samples[i].during < session'
  BY <1>1, <1>2 DEF StrayInv
<1> QED
  BY <1>3, <1>4 DEF StrayInv, Matched, OneStraySample

LEMMA StrayWorker ==
    ASSUME TypeOK, ExchangeInv, SessionInv, StrayInv, WorkerSteps
    PROVE  StrayInv'
<1>1. session' = session
  BY DEF WorkerSteps, Respond, OnRadioPacketReceived, MatchPending, ClearPending, SubmitSample
<1>2. CASE \E r \in requests : Respond(r)
  BY <1>2, StrayOthers DEF Respond
<1>3. ASSUME samples' = samples, Matched' => worker'.packet.session = session
      PROVE  StrayInv'
  BY <1>1, <1>3 DEF StrayInv, OneStraySample
<1>4. CASE \E r \in responses : OnRadioPacketReceived(r)
  BY <1>3, <1>4 DEF OnRadioPacketReceived, Matched
<1>5. CASE MatchPending
  <2>1. worker.pc = "received" /\ samples' = samples
    BY <1>5 DEF MatchPending
  <2>2. ASSUME Matched' PROVE worker'.packet.session = session
    <3>1. worker'.packet = worker.packet /\ pending # 0 /\ pending = worker.packet.seq
      BY <1>5, <2>2 DEF MatchPending, Matched, Resting, TypeOK
    <3>2. worker.packet \in requests
      BY <2>1 DEF ExchangeInv, AnswersOnly
    <3> QED
      BY <3>1, <3>2 DEF SessionInv, AwaitsNewest
  <2> QED
    BY <1>3, <2>1, <2>2
<1>6. CASE ClearPending
  <2>1. worker.pc = "matched" /\ worker'.packet = worker.packet /\ samples' = samples
    BY <1>6 DEF ClearPending, TypeOK
  <2> QED
    BY <1>1, <2>1 DEF StrayInv, Matched, OneStraySample
<1>7. CASE SubmitSample
  <2> PICK L : L = Len(samples)
    OBVIOUS
  <2>1. Matched /\ ~Matched'
    BY <1>7 DEF SubmitSample, Resting, Matched
  <2>2. /\ L \in Nat /\ DOMAIN samples = 1 .. L /\ DOMAIN samples' = 1 .. L + 1
        /\ samples'[L + 1] = Submitted /\ \A i \in 1 .. L : samples'[i] = samples[i]
    BY <1>7, SubmitEffect
  <2>3. \A i \in 1 .. L + 1 : i = L + 1 \/ i \in 1 .. L
    BY <1>7, SubmitEffect
  <2>4. Submitted.during = session /\ Submitted.session = worker.packet.session
    BY DEF Submitted
  <2>5. session \in Nat
    BY ClockAssumption DEF TypeOK
  <2>6. \A i \in DOMAIN samples' : samples'[i].during <= session
    BY <2>2, <2>3, <2>4, <2>5 DEF StrayInv
  <2>7. OneStraySample'
    <3> SUFFICES ASSUME NEW i \in 1 .. L + 1, NEW j \in 1 .. L + 1, j < i,
                        samples'[j].during = samples'[i].during
                 PROVE  samples'[i].session = samples'[i].during
      BY <2>2 DEF OneStraySample
    <3>1. j \in 1 .. L /\ samples'[j] = samples[j]
      BY <2>2
    <3>2. CASE i = L + 1
      <4>1. samples[j].during = session
        BY <2>2, <2>4, <3>1, <3>2
      <4>2. worker.packet.session = session
        BY <2>1, <2>2, <2>5, <3>1, <4>1 DEF StrayInv
      <4> QED
        BY <2>2, <2>4, <3>2, <4>2
    <3>3. CASE i \in 1 .. L
      BY <2>2, <3>1, <3>3 DEF StrayInv, OneStraySample
    <3> QED
      BY <2>3, <3>2, <3>3
  <2> QED
    BY <1>1, <2>1, <2>6, <2>7 DEF StrayInv
<1> QED
  BY <1>2, <1>4, <1>5, <1>6, <1>7 DEF WorkerSteps

LEMMA StrayStep == TypeOK /\ ExchangeInv /\ SessionInv /\ StrayInv /\ [Next]_vars => StrayInv'
<1> SUFFICES ASSUME TypeOK, ExchangeInv, SessionInv, StrayInv, [Next]_vars PROVE StrayInv'
  OBVIOUS
<1>1. ASSUME NEW a \in App,
             \/ Shutdown(a) \/ Initialize(a) \/ Open(a) \/ InitializeFails(a)
             \/ Update(a) \/ UpdateDue(a) \/ Request(a) \/ RequestSteps(a)
      PROVE  StrayInv'
  <2>1. UNCHANGED <<worker, samples>> /\ session' \in {session, session + 1}
    BY <1>1 DEF Shutdown, Initialize, Open, InitializeFails, Update, UpdateDue, Request, RequestSteps,
                Refuse, TakeSequence, ReadT1, StorePending, StoreLast, SendAccepted, SendRejected,
                ForgetPending
  <2> QED
    BY <2>1, StrayOthers
<1>2. CASE Tick \/ RadioStartStop \/ UNCHANGED vars
  BY <1>2, StrayOthers DEF Tick, RadioStartStop, vars
<1> QED
  BY <1>1, <1>2, StrayWorker DEF Next

\* With one application thread, a session gets at most one sample of an earlier
\* one, before all of its own: the response that a Shutdown found matched.
THEOREM StrayComesFirst == ASSUME OneThread, NoReuse PROVE Spec => []OneStraySample
<1>1. StrayInv => OneStraySample
  BY DEF StrayInv
<1> QED
  BY <1>1, StrayInit, StrayStep, TypeCorrect, ExchangeInvariant, SessionInvariant, PTL DEF Spec

-----------------------------------------------------------------------------
(* One thread: Update measures from the last request not refused.          *)

SpacedInv == Spaced /\ IntervalIsKept

LEMMA SpacedInit == Init => SpacedInv
<1> SUFFICES ASSUME Init PROVE SpacedInv
  OBVIOUS
<1>1. \A a \in App : app[a].pc = "idle" /\ app[a].update = FALSE /\ app[a].now = 0
  BY DEF Init, Idle
<1>2. DOMAIN attempts = {} /\ lastRequest = 0 /\ now = 1 /\ initialized = FALSE
  BY DEF Init
<1> QED
  BY <1>1, <1>2 DEF SpacedInv, Spaced, IntervalIsKept

LEMMA StoredType == ASSUME TypeOK PROVE Stored \subseteq 1 .. MaxTime
<1>1. \A i \in DOMAIN attempts : attempts[i] \in Attempt
  BY ElementOfSeq, LenProperties DEF TypeOK
<1> QED
  BY <1>1 DEF Stored, Attempt

\* The steps that begin no request.
LEMMA SpacedCall ==
    ASSUME OneThread, TypeOK, SessionInv, SpacedInv, NEW a \in App,
           \/ Shutdown(a) \/ Initialize(a) \/ Open(a) \/ InitializeFails(a)
           \/ Update(a) \/ UpdateDue(a) \/ Request(a) \/ TakeSequence(a)
           \/ ReadT1(a) \/ StorePending(a) \/ SendAccepted(a) \/ SendRejected(a) \/ ForgetPending(a)
    PROVE  SpacedInv'
<1>1. \A b \in App : b = a
  BY DEF OneThread
<1>2. /\ now \in Nat /\ now >= 1 /\ lastRequest \in Nat /\ app[a].now \in Nat
      /\ now <= MaxTime /\ lastRequest <= MaxTime /\ app[a].now <= MaxTime
      /\ MaxTime \in Nat /\ Interval \in Nat /\ TimeModulus \in Nat /\ MaxTime + Interval < TimeModulus
  <2>1. app[a] \in AppState
    BY DEF TypeOK
  <2> QED
    BY <2>1, ClockAssumption DEF TypeOK, AppState
<1>3. \A t \in Stored : t \in Nat /\ t >= 1
  BY <1>2, StoredType
<1>4. UNCHANGED now
  BY DEF Shutdown, Initialize, Open, InitializeFails, Update, UpdateDue, Request, TakeSequence,
         ReadT1, StorePending, SendAccepted, SendRejected, ForgetPending, world
<1>5. CASE Open(a)
  <2>1. DOMAIN attempts' = {} /\ lastRequest' = 0 /\ app'[a] = Idle
    BY <1>5, ReturnEffect DEF Open
  <2>2. Stored' = {}
    BY <2>1 DEF Stored
  <2> QED
    BY <1>1, <1>2, <1>4, <2>1, <2>2 DEF SpacedInv, Spaced, IntervalIsKept, Idle
<1>6. ASSUME attempts' = attempts PROVE IntervalIsKept' /\ Stored' = Stored
  BY <1>6 DEF SpacedInv, IntervalIsKept, Stored
<1>7. CASE Shutdown(a) \/ Initialize(a)
  <2>1. /\ attempts' = attempts /\ lastRequest' = 0 /\ initialized' = FALSE
        /\ app'[a].now = app[a].now /\ app'[a].pc \in {"idle", "opening"}
    BY <1>7, GotoEffect DEF Shutdown, Initialize, Close, At, SameCall
  <2> QED
    BY <1>1, <1>2, <1>4, <1>6, <2>1 DEF SpacedInv, Spaced
<1>8. ASSUME UNCHANGED <<attempts, lastRequest, initialized>>,
             app'[a].now <= now,
             app'[a].pc = "update" => lastRequest <= app'[a].now,
             app'[a].update /\ app'[a].pc \in {"request", "stamp", "pending", "last"}
             => \A t \in Stored : t + Interval <= app'[a].now
      PROVE  SpacedInv'
  BY <1>1, <1>4, <1>6, <1>8 DEF SpacedInv, Spaced
<1>9. /\ app[a].now <= now /\ lastRequest <= now
      /\ app[a].update /\ app[a].pc \in {"request", "stamp", "pending", "last"}
         => \A t \in Stored : t + Interval <= app[a].now
  BY DEF SpacedInv, Spaced
<1>10. CASE InitializeFails(a) \/ SendAccepted(a) \/ ForgetPending(a)
  <2>1. app'[a] = Idle /\ UNCHANGED <<attempts, lastRequest, initialized>>
    BY <1>10, ReturnEffect DEF InitializeFails, SendAccepted, ForgetPending, shared
  <2> QED
    BY <1>2, <1>8, <2>1 DEF Idle
<1>11. CASE Update(a)
  <2>1. /\ app'[a].now = now /\ app'[a].pc = "update"
        /\ UNCHANGED <<attempts, lastRequest, initialized>>
    BY <1>11, UpdateEffect DEF Update, shared
  <2> QED
    BY <1>2, <1>8, <1>9, <2>1
<1>12. CASE UpdateDue(a)
  <2>1. app[a].pc = "update" /\ initialized /\ UNCHANGED <<attempts, lastRequest, initialized>>
    BY <1>12 DEF UpdateDue, At, shared, SessionInv, ThisSession
  <2>2. lastRequest <= app[a].now /\ \A t \in Stored : t <= lastRequest
    BY <2>1 DEF SpacedInv, Spaced
  <2>3. CASE ~Due(a)
    BY <1>2, <1>8, <1>12, <2>1, <2>3, ReturnEffect DEF UpdateDue, Idle
  <2>4. CASE Due(a)
    <3>1. app'[a].pc = "request" /\ app'[a].now = app[a].now
      BY <1>12, <2>4, GotoEffect DEF UpdateDue, SameCall
    <3>2. ASSUME NEW t \in Stored PROVE t + Interval <= app[a].now
      <4> DEFINE since == app[a].now - lastRequest
      <4>0. t \in Nat /\ t >= 1 /\ t <= lastRequest
        BY <1>3, <2>2
      <4>1. since \in 0 .. TimeModulus - 1 /\ lastRequest # 0
        BY <1>2, <2>2, <4>0
      <4>2. since % TimeModulus = since
        BY <1>2, <4>1
      <4>3. since >= Interval
        BY <2>4, <4>1, <4>2 DEF Due, Elapsed
      <4> QED
        BY <1>2, <4>0, <4>3
    <3> QED
      BY <1>2, <1>8, <1>9, <2>1, <3>1, <3>2
  <2> QED
    BY <2>3, <2>4
<1>13. CASE Request(a)
  <2>1. /\ app'[a].pc = "request" /\ app'[a].now = app[a].now /\ ~app'[a].update
        /\ UNCHANGED <<attempts, lastRequest, initialized>>
    BY <1>13, GotoEffect DEF Request, At, SameCall, shared, SessionInv, ThisSession
  <2> QED
    BY <1>2, <1>8, <1>9, <2>1
<1>14. CASE TakeSequence(a) \/ ReadT1(a) \/ StorePending(a) \/ SendRejected(a)
  <2>1. app'[a].now = app[a].now /\ app'[a].update = app[a].update /\ app'[a].pc # "update"
    <3>1. CASE TakeSequence(a)
      BY <3>1, TakeEffect
    <3>2. CASE ReadT1(a)
      BY <3>2, ReadT1Effect
    <3>3. CASE StorePending(a) \/ SendRejected(a)
      BY <3>3, GotoEffect DEF StorePending, SendRejected, SameCall
    <3> QED
      BY <1>14, <3>1, <3>2, <3>3
  <2>3. UNCHANGED <<attempts, lastRequest, initialized>>
    BY <1>14 DEF TakeSequence, ReadT1, StorePending, SendRejected, shared
  <2>2. app'[a].pc \in {"request", "stamp", "pending", "last"} =>
           app[a].pc \in {"request", "stamp", "pending", "last"}
    BY <1>14, GotoEffect DEF TakeSequence, ReadT1, StorePending, SendRejected, At
  <2> QED
    BY <1>2, <1>8, <1>9, <2>1, <2>2, <2>3
<1> QED
  BY <1>5, <1>7, <1>10, <1>11, <1>12, <1>13, <1>14

\* What the attempts are after one more, and what Update measures from.
LEMMA BegunEffect ==
    ASSUME TypeOK, NEW a \in App, NEW refused \in BOOLEAN, NEW L,
           L = Len(attempts), attempts' = Begun(a, refused)
    PROVE  /\ L \in Nat /\ DOMAIN attempts = 1 .. L /\ DOMAIN attempts' = 1 .. L + 1
           /\ attempts'[L + 1].at = now /\ attempts'[L + 1].update = app[a].update
           /\ \A i \in 1 .. L : attempts'[i] = attempts[i]
           /\ \A i \in 1 .. L + 1 : i = L + 1 \/ i \in 1 .. L
           /\ Stored' \subseteq Stored \union {now}
           /\ refused => Stored' = Stored
<1> DEFINE one == [at |-> now, update |-> app[a].update, refused |-> refused]
<1>1. attempts \in Seq(Attempt) /\ attempts' = Append(attempts, one)
  BY DEF TypeOK, Begun
<1>2. one \in Attempt /\ one.at = now /\ one.update = app[a].update /\ one.refused = refused
  BY DEF TypeOK, AppState, Attempt
<1> HIDE DEF one
<1>3. attempts' \in Seq(Attempt) /\ Len(attempts') = L + 1
  BY <1>1, <1>2, AppendProperties
<1>4. /\ L \in Nat /\ DOMAIN attempts = 1 .. L /\ DOMAIN attempts' = 1 .. L + 1
      /\ attempts'[L + 1] = one /\ \A i \in 1 .. L : attempts'[i] = attempts[i]
  BY <1>1, <1>2, <1>3, AppendProperties, LenProperties
<1>5. \A i \in 1 .. L + 1 : i = L + 1 \/ i \in 1 .. L
  BY <1>4
<1>6. \A i \in 1 .. L : i \in 1 .. L + 1
  BY <1>4
<1>7. Stored' \subseteq Stored \union {now}
  BY <1>2, <1>4, <1>5 DEF Stored
<1>8. ASSUME refused PROVE Stored' = Stored
  <2>1. ASSUME NEW t \in Stored' PROVE t \in Stored
    <3>1. PICK i \in 1 .. L + 1 : ~attempts'[i].refused /\ t = attempts'[i].at
      BY <1>4 DEF Stored
    <3>2. i \in 1 .. L
      BY <1>2, <1>4, <1>5, <1>8, <3>1
    <3>3. i \in DOMAIN attempts /\ ~attempts[i].refused /\ t = attempts[i].at
      BY <1>4, <3>1, <3>2
    <3> QED
      BY <3>3 DEF Stored
  <2>2. ASSUME NEW t \in Stored PROVE t \in Stored'
    <3>1. PICK i \in 1 .. L : ~attempts[i].refused /\ t = attempts[i].at
      BY <1>4 DEF Stored
    <3>2. i \in DOMAIN attempts' /\ ~attempts'[i].refused /\ t = attempts'[i].at
      BY <1>4, <1>6, <3>1
    <3> QED
      BY <3>2 DEF Stored
  <2> QED
    BY <2>1, <2>2
<1> QED
  BY <1>2, <1>4, <1>5, <1>7, <1>8

\* A request is begun: it is refused, or the time it is begun at is stored.
LEMMA SpacedBegun ==
    ASSUME OneThread, TypeOK, SessionInv, SpacedInv, NEW a \in App, Refuse(a) \/ StoreLast(a)
    PROVE  SpacedInv'
<1> PICK L : L = Len(attempts)
  OBVIOUS
<1>1. \A b \in App : b = a
  BY DEF OneThread
<1>2. PICK refused \in BOOLEAN : attempts' = Begun(a, refused) /\ (Refuse(a) => refused)
  BY DEF Refuse, StoreLast
<1>3. /\ L \in Nat /\ DOMAIN attempts = 1 .. L /\ DOMAIN attempts' = 1 .. L + 1
      /\ attempts'[L + 1].at = now /\ attempts'[L + 1].update = app[a].update
      /\ \A i \in 1 .. L : attempts'[i] = attempts[i]
      /\ \A i \in 1 .. L + 1 : i = L + 1 \/ i \in 1 .. L
      /\ Stored' \subseteq Stored \union {now}
      /\ refused => Stored' = Stored
  BY <1>2, BegunEffect
<1>4. /\ UNCHANGED <<now, initialized>> /\ now \in Nat /\ lastRequest \in Nat /\ Interval \in Nat
      /\ app[a].now \in Nat /\ app[a].now <= now /\ lastRequest <= now
      /\ \A t \in Stored : t \in Nat
  <2>1. app[a] \in AppState /\ now \in 1 .. MaxTime /\ lastRequest \in 0 .. MaxTime
    BY DEF TypeOK
  <2>2. app[a].now <= now /\ lastRequest <= now
    BY DEF SpacedInv, Spaced
  <2>3. UNCHANGED <<now, initialized>>
    BY DEF Refuse, StoreLast, world, shared
  <2> QED
    BY <2>1, <2>2, <2>3, StoredType, ClockAssumption DEF AppState
<1>5. app[a].update => \A t \in Stored : t + Interval <= app[a].now
  <2>1. app[a].pc \in {"request", "last"}
    BY DEF Refuse, StoreLast, At
  <2> QED
    BY <2>1 DEF SpacedInv, Spaced
<1>6. Spaced'
  <2>1. CASE Refuse(a)
    <3>1. app'[a] = Idle /\ lastRequest' = lastRequest /\ Stored' = Stored
      BY <1>2, <1>3, <2>1, ReturnEffect DEF Refuse, shared
    <3> QED
      BY <1>1, <1>4, <3>1 DEF SpacedInv, Spaced, Idle
  <2>2. CASE StoreLast(a)
    <3>1. app'[a].pc = "send" /\ app'[a].now = app[a].now /\ lastRequest' = now
      BY <2>2, GotoEffect DEF StoreLast, SameCall
    <3>2. initialized
      BY <2>2 DEF StoreLast, At, InFlight, SessionInv, ThisSession
    <3>3. \A t \in Stored : t <= now
      BY <1>4, <3>2 DEF SpacedInv, Spaced
    <3>4. \A t \in Stored' : t <= now
      BY <1>3, <1>4, <3>3
    <3> QED
      BY <1>1, <1>4, <3>1, <3>4 DEF Spaced
  <2> QED
    BY <2>1, <2>2
<1>7. IntervalIsKept'
  <2> SUFFICES ASSUME NEW i \in 1 .. L + 1, NEW j \in 1 .. L + 1,
                      j < i, attempts'[i].update, ~attempts'[j].refused
               PROVE  attempts'[i].at - attempts'[j].at >= Interval
    BY <1>3 DEF IntervalIsKept
  <2>1. j \in 1 .. L /\ attempts'[j] = attempts[j]
    BY <1>3
  <2>2. CASE i = L + 1
    <3>1. attempts[j].at \in Stored
      BY <1>3, <2>1 DEF Stored
    <3>2. app[a].update /\ attempts'[i].at = now
      BY <1>3, <2>2
    <3>3. attempts[j].at \in Nat /\ attempts[j].at + Interval <= app[a].now
      BY <1>4, <1>5, <3>1, <3>2
    <3> QED
      BY <1>4, <2>1, <3>2, <3>3
  <2>3. CASE i \in 1 .. L
    BY <1>3, <2>1, <2>3 DEF SpacedInv, IntervalIsKept
  <2> QED
    BY <1>3, <2>2, <2>3
<1> QED
  BY <1>6, <1>7 DEF SpacedInv

LEMMA SpacedStep ==
    ASSUME OneThread
    PROVE  TypeOK /\ SessionInv /\ SpacedInv /\ [Next]_vars => SpacedInv'
<1> SUFFICES ASSUME TypeOK, SessionInv, SpacedInv, [Next]_vars PROVE SpacedInv'
  OBVIOUS
<1>1. ASSUME UNCHANGED <<lastRequest, attempts, initialized, app>>, now' = now \/ now' = now + 1
      PROVE  SpacedInv'
  <2>1. now \in Nat /\ lastRequest \in Nat /\ \A a \in App : app[a].now \in Nat
    BY ClockAssumption DEF TypeOK, AppState
  <2>2. lastRequest' <= now' /\ \A a \in App : app'[a].now <= now'
    BY <1>1, <2>1 DEF SpacedInv, Spaced
  <2>3. lastRequest' = lastRequest /\ \A a \in App : app'[a] = app[a]
    BY <1>1
  <2>4. IntervalIsKept' /\ Stored' = Stored
    BY <1>1 DEF SpacedInv, IntervalIsKept, Stored
  <2> QED
    BY <1>1, <2>2, <2>3, <2>4 DEF SpacedInv, Spaced
<1>2. CASE WorkerSteps
  BY <1>1, <1>2 DEF WorkerSteps, Respond, OnRadioPacketReceived, MatchPending, ClearPending, SubmitSample,
                    world, shared
<1>3. CASE Tick \/ RadioStartStop \/ UNCHANGED vars
  BY <1>1, <1>3 DEF Tick, RadioStartStop, vars, world, shared
<1> QED
  BY <1>2, <1>3, SpacedCall, SpacedBegun DEF Next, RequestSteps

LEMMA SpacedInvariant == ASSUME OneThread, NoReuse PROVE Spec => []SpacedInv
<1>1. TypeOK /\ SessionInv /\ SpacedInv /\ [Next]_vars => SpacedInv'
  BY SpacedStep
<1> QED
  BY <1>1, SpacedInit, TypeCorrect, SessionInvariant, PTL DEF Spec

\* With one application thread, Update begins no request, of those that are
\* refused included, before Interval has passed since the last request of the
\* session that was not refused, whoever began it and whether its Send was
\* accepted or not; the unsigned difference never wraps.
THEOREM Paced == ASSUME OneThread, NoReuse PROVE Spec => []IntervalIsKept
<1>1. SpacedInv => IntervalIsKept
  BY DEF SpacedInv
<1> QED
  BY <1>1, SpacedInvariant, PTL
-----------------------------------------------------------------------------
(* One thread: T1 and T4 of a sample are of one clock.                     *)

ClockInv == T1IsCurrent /\ OneClockUnlessOverlapping

LEMMA ClockInit == Init => ClockInv
<1> SUFFICES ASSUME Init PROVE ClockInv
  OBVIOUS
<1>1. \A a \in App : app[a].alone = FALSE
  BY DEF Init, Idle
<1>2. requests = {} /\ worker.packet.alone = FALSE /\ DOMAIN samples = {}
  BY DEF Init, Resting
<1> QED
  BY <1>1, <1>2 DEF ClockInv, T1IsCurrent, OneClockUnlessOverlapping

\* Neither 0 nor the number of a call in flight is that of a request sent.
LEMMA NotSent ==
    ASSUME ExchangeInv
    PROVE  /\ \A r \in requests : r.seq # 0
           /\ \A a \in InFlight : \A r \in requests : r.seq # app[a].seq
BY DEF ExchangeInv, Numbering, Taken, OneRequestEach, Sent

\* The application's steps that read no T1 and send nothing: what is awaited
\* stays so, or nothing is.
LEMMA ClockQuiet ==
    ASSUME OneThread, TypeOK, ExchangeInv, ClockInv, NEW a \in App,
           \/ Shutdown(a) \/ Initialize(a) \/ Open(a) \/ InitializeFails(a)
           \/ Update(a) \/ UpdateDue(a) \/ Request(a) \/ Refuse(a) \/ TakeSequence(a)
           \/ StoreLast(a) \/ SendRejected(a) \/ ForgetPending(a)
    PROVE  ClockInv'
<1>1. \A b \in App : b = a
  BY DEF OneThread
<1>2. UNCHANGED <<adjustments, worker, requests, samples>> /\ pending' \in {0, pending}
  BY DEF Shutdown, Initialize, Open, InitializeFails, Update, UpdateDue, Request, Refuse, TakeSequence,
         StoreLast, SendRejected, ForgetPending, Close, world, shared, medium
<1>3. /\ app'[a].pc # "pending"
      /\ app'[a].pc \in {"last", "send", "failed"} =>
            /\ app[a].pc \in {"last", "send", "failed"}
            /\ app'[a].alone = app[a].alone /\ app'[a].t1 = app[a].t1
  <2>1. CASE Shutdown(a)
    BY <2>1 DEF Shutdown, At
  <2>2. CASE \/ Initialize(a) \/ Open(a) \/ InitializeFails(a) \/ UpdateDue(a) \/ Request(a) \/ Refuse(a)
             \/ ForgetPending(a)
    <3>1. Goto(a, "opening") \/ Goto(a, "request") \/ Return(a)
      BY <2>2 DEF Initialize, Open, InitializeFails, UpdateDue, Request, Refuse, ForgetPending
    <3> QED
      BY <3>1, GotoEffect, ReturnEffect DEF Idle
  <2>3. CASE Update(a)
    BY <2>3, UpdateEffect
  <2>4. CASE TakeSequence(a)
    BY <2>4, TakeEffect
  <2>5. CASE StoreLast(a) \/ SendRejected(a)
    <3>1. app[a].pc \in {"last", "send"} /\ (Goto(a, "send") \/ Goto(a, "failed"))
      BY <2>5 DEF StoreLast, SendRejected, At
    <3>2. app'[a].pc # "pending" /\ SameCall(a)
      BY <3>1, GotoEffect
    <3> QED
      BY <3>1, <3>2 DEF SameCall
  <2> QED
    BY <2>1, <2>2, <2>3, <2>4, <2>5
<1>4. T1IsCurrent'
  BY <1>1, <1>2, <1>3, NotSent DEF ClockInv, T1IsCurrent, NobodyTakes
<1> QED
  BY <1>2, <1>4 DEF ClockInv, OneClockUnlessOverlapping

\* T1 is read, the number is stored, and the request is sent.
LEMMA ClockRequest ==
    ASSUME OneThread, TypeOK, ExchangeInv, SessionInv, ClockInv, NEW a \in App,
           ReadT1(a) \/ StorePending(a) \/ SendAccepted(a)
    PROVE  ClockInv'
<1>1. \A b \in App : b = a
  BY DEF OneThread
<1>2. UNCHANGED <<adjustments, worker, samples>>
  BY DEF ReadT1, StorePending, SendAccepted, world, shared, medium
<1>3. app[a].pc \in {"pending", "send"} => a \in InFlight
  BY DEF InFlight
<1>4. CASE ReadT1(a)
  <2>1. /\ app'[a].pc = "pending" /\ app'[a].t1 = adjustments
        /\ app'[a].alone => pending = 0 /\ NobodyTakes
        /\ UNCHANGED <<pending, requests>>
    BY <1>4, ReadT1Effect DEF ReadT1, NoneAwaited, NobodyTakes, shared, medium
  <2> QED
    BY <1>1, <1>2, <2>1 DEF ClockInv, T1IsCurrent, NobodyTakes, OneClockUnlessOverlapping
<1>5. CASE StorePending(a)
  <2>1. /\ app[a].pc = "pending" /\ app'[a].pc = "last" /\ pending' = app[a].seq
        /\ app'[a].alone = app[a].alone /\ app'[a].t1 = app[a].t1 /\ UNCHANGED requests
    BY <1>5, GotoEffect DEF StorePending, At, SameCall, medium
  <2>2. \A r \in requests : r.seq # pending'
    BY <1>3, <2>1, NotSent
  <2> QED
    BY <1>1, <1>2, <2>1, <2>2 DEF ClockInv, T1IsCurrent, NobodyTakes, OneClockUnlessOverlapping
<1>6. CASE SendAccepted(a)
  <2> DEFINE sent == [seq |-> app[a].seq, t1 |-> app[a].t1, alone |-> app[a].alone,
                      session |-> app[a].session]
  <2>1. /\ app[a].pc = "send" /\ app'[a] = Idle /\ UNCHANGED pending
        /\ requests' = requests \union {sent}
    BY <1>6, ReturnEffect DEF SendAccepted, At, shared
  <2>2. sent.alone => sent.t1 = adjustments /\ NobodyTakes
    BY <2>1 DEF ClockInv, T1IsCurrent
  <2>3. app'[a].alone = FALSE
    BY <2>1 DEF Idle
  <2> HIDE DEF sent
  <2> QED
    BY <1>1, <1>2, <2>1, <2>2, <2>3 DEF ClockInv, T1IsCurrent, NobodyTakes, OneClockUnlessOverlapping
<1> QED
  BY <1>4, <1>5, <1>6

\* The worker takes no response while a call that began alone is under way, and
\* the one it takes is of the request that is awaited.
LEMMA ClockAnswer ==
    ASSUME OneThread, TypeOK, ExchangeInv, SessionInv, ClockInv, WorkerSteps
    PROVE  ClockInv'
<1>1. UNCHANGED <<app, requests>>
  BY DEF WorkerSteps, Respond, OnRadioPacketReceived, MatchPending, ClearPending, SubmitSample, medium
<1>2. CASE (\E r \in requests : Respond(r)) \/ \E r \in responses : OnRadioPacketReceived(r)
  <2>1. UNCHANGED <<adjustments, pending, samples>>
    BY <1>2 DEF Respond, OnRadioPacketReceived, world, shared
  <2>2. worker' = worker \/ (worker.pc = "idle" /\ worker'.pc = "received")
    BY <1>2 DEF Respond, OnRadioPacketReceived
  <2> QED
    BY <1>1, <2>1, <2>2 DEF ClockInv, T1IsCurrent, NobodyTakes, OneClockUnlessOverlapping
<1>3. CASE MatchPending
  <2>1. worker.pc = "received" /\ UNCHANGED <<adjustments, pending, samples>>
    BY <1>3 DEF MatchPending, world, shared
  <2>2. CASE pending # 0 /\ pending = worker.packet.seq
    <3>1. worker'.pc = "matched" /\ worker'.packet = worker.packet
      BY <1>3, <2>2 DEF MatchPending, TypeOK
    <3>2. worker.packet \in requests
      BY <2>1 DEF ExchangeInv, AnswersOnly
    <3>3. \A a \in App : app[a].pc \in {"last", "send", "failed"} => FALSE
      <4>1. \A a \in App : app[a].pc \in {"last", "send", "failed"} => a \in InFlight /\ pending = app[a].seq
        BY <2>2 DEF SessionInv, ThisSession, InFlight
      <4> QED
        BY <2>2, <3>2, <4>1, NotSent
    <3> QED
      BY <1>1, <2>1, <2>2, <3>1, <3>2, <3>3 DEF ClockInv, T1IsCurrent, OneClockUnlessOverlapping
  <2>3. CASE ~(pending # 0 /\ pending = worker.packet.seq)
    <3>1. worker'.pc = "idle"
      BY <1>3, <2>3 DEF MatchPending, Resting
    <3> QED
      BY <1>1, <2>1, <3>1 DEF ClockInv, T1IsCurrent, NobodyTakes, OneClockUnlessOverlapping
  <2> QED
    BY <2>2, <2>3
<1>4. CASE ClearPending
  <2>1. /\ worker.pc = "matched" /\ worker'.pc = "cleared" /\ worker'.packet = worker.packet
        /\ pending' = 0 /\ UNCHANGED <<adjustments, samples>>
    BY <1>4 DEF ClearPending, world, TypeOK
  <2> QED
    BY <1>1, <2>1, NotSent DEF ClockInv, T1IsCurrent, NobodyTakes, OneClockUnlessOverlapping
<1>5. CASE SubmitSample
  <2> PICK L : L = Len(samples)
    OBVIOUS
  <2>1. worker.pc = "cleared" /\ worker'.pc = "idle" /\ UNCHANGED pending
    BY <1>5 DEF SubmitSample, Resting, shared
  <2>2. T1IsCurrent'
    BY <1>1, <2>1 DEF ClockInv, T1IsCurrent, NobodyTakes
  <2>3. Submitted.alone => Submitted.t1 = Submitted.t4
    BY <2>1 DEF Submitted, RecoverSystemTimestamp, ClockInv, T1IsCurrent, NobodyTakes
  <2>5. /\ L \in Nat /\ DOMAIN samples = 1 .. L /\ DOMAIN samples' = 1 .. L + 1
        /\ samples'[L + 1] = Submitted /\ \A i \in 1 .. L : samples'[i] = samples[i]
    BY <1>5, SubmitEffect
  <2>6. \A i \in 1 .. L + 1 : i = L + 1 \/ i \in 1 .. L
    BY <1>5, SubmitEffect
  <2>7. OneClockUnlessOverlapping'
    BY <2>3, <2>5, <2>6 DEF ClockInv, OneClockUnlessOverlapping
  <2> QED
    BY <2>2, <2>7 DEF ClockInv
<1> QED
  BY <1>2, <1>3, <1>4, <1>5 DEF WorkerSteps

LEMMA ClockStep ==
    ASSUME OneThread
    PROVE  TypeOK /\ ExchangeInv /\ SessionInv /\ ClockInv /\ [Next]_vars => ClockInv'
<1> SUFFICES ASSUME TypeOK, ExchangeInv, SessionInv, ClockInv, [Next]_vars PROVE ClockInv'
  OBVIOUS
<1>1. CASE Tick \/ RadioStartStop \/ UNCHANGED vars
  <2>1. UNCHANGED <<adjustments, pending, app, worker, requests, samples>>
    BY <1>1 DEF Tick, RadioStartStop, vars, world, shared, medium
  <2> QED
    BY <2>1 DEF ClockInv, T1IsCurrent, NobodyTakes, OneClockUnlessOverlapping
<1> QED
  BY <1>1, ClockQuiet, ClockRequest, ClockAnswer DEF Next, RequestSteps

\* With one application thread, the synchronizer itself never adjusts the clock
\* between T1 and T4 of a sample whose request was begun while no response was
\* awaited or being taken.
THEOREM OneClock == ASSUME OneThread, NoReuse PROVE Spec => []OneClockUnlessOverlapping
<1>1. TypeOK /\ ExchangeInv /\ SessionInv /\ ClockInv /\ [Next]_vars => ClockInv'
  BY ClockStep
<1>2. ClockInv => OneClockUnlessOverlapping
  BY DEF ClockInv
<1> QED
  BY <1>1, <1>2, ClockInit, TypeCorrect, ExchangeInvariant, SessionInvariant, PTL DEF Spec
=============================================================================
