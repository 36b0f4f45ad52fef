----------------------- MODULE RadioClockSynchronizer -----------------------
(***************************************************************************)
(* RadioClockSynchronizer in client mode against a reference.  Threads of  *)
(* the application run Update, RequestSynchronization, Initialize and      *)
(* Shutdown; RadioWorker's thread runs OnRadioPacketReceived.  They share  *)
(* atomics and take no lock around the exchange, so every store to one of  *)
(* those atomics, every clock read and every Send is a step of its own, as *)
(* is the worker's check of _initialized.  One step are the checks that    *)
(* the application makes of it with the load that follows them, and the    *)
(* stores of Shutdown and of the end of Initialize; see Close.             *)
(*                                                                         *)
(* A configuration is refused, or is one of a client, and packets are well *)
(* formed, so later checks of modes, sizes and addresses never fail here.  *)
(* The medium loses, repeats and reorders.  A timestamp of the system      *)
(* clock is represented by the number of adjustments the clock had seen    *)
(* when it was read: samples are submitted to that clock.                  *)
(***************************************************************************)
EXTENDS Integers, FiniteSets, Sequences

CONSTANTS App,          \* threads of the application
          Interval,     \* SynchronizationIntervalMilliseconds, in ticks
          TimeModulus,  \* 2^64, the modulus of the monotonic clock's ticks
          SeqModulus,   \* 2^32, the modulus of _nextSequence
          MaxTime,      \* bound: ticks of the monotonic clock
          MaxRequests,  \* bound: calls of RequestSynchronization
          MaxSessions   \* bound: calls of Initialize

ASSUME ClockAssumption ==
    /\ Interval \in Nat \ {0}
    /\ MaxTime \in Nat \ {0} /\ TimeModulus \in Nat /\ MaxTime + Interval < TimeModulus
    /\ SeqModulus \in Nat \ {0, 1}
    /\ MaxRequests \in Nat
    /\ MaxSessions \in Nat

VARIABLES now,           \* the monotonic clock; 0 is never read from it
          adjustments,   \* adjustments of the system clock so far
          started,       \* the radio's IsStarted
          initialized,   \* _initialized
          nextSequence,  \* _nextSequence
          pending,       \* _pendingSequence, 0 if none
          lastRequest,   \* _lastRequestMonotonicNanoseconds, 0 if none
          app,           \* what each application thread is doing
          worker,        \* what the worker is doing with a response
          requests,      \* requests on the medium
          responses,     \* responses on the medium
          stats,         \* the counters of the client side
          samples,       \* the samples submitted, in order
          session,       \* history: calls of Initialize so far
          attempts       \* history: the requests begun since Initialize, in order

shared == <<initialized, nextSequence, pending, lastRequest>>
medium == <<requests, responses>>
world  == <<now, adjustments, started>>
vars   == <<world, shared, app, worker, medium, stats, samples, session, attempts>>

Idle    == [pc |-> "idle", now |-> 0, update |-> FALSE, seq |-> 0, t1 |-> 0,
            alone |-> FALSE, session |-> 0]
Resting == [pc |-> "idle", packet |-> [seq |-> 0, t1 |-> 0, alone |-> FALSE, session |-> 0]]

Init ==
    /\ now = 1 /\ adjustments = 0 /\ started \in BOOLEAN
    /\ initialized = FALSE /\ nextSequence = 1 /\ pending = 0 /\ lastRequest = 0
    /\ app = [a \in App |-> Idle]
    /\ worker = Resting
    /\ requests = {} /\ responses = {}
    /\ stats = [attempted |-> 0, sent |-> 0, failed |-> 0,
                received |-> 0, accepted |-> 0, rejected |-> 0]
    /\ samples = <<>>
    /\ session = 0
    /\ attempts = <<>>

Count(counter) == stats' = [stats EXCEPT ![counter] = @ + 1]

At(a, pc) == app[a].pc = pc
Goto(a, pc) == app' = [app EXCEPT ![a].pc = pc]
Return(a) == app' = [app EXCEPT ![a] = Idle]

-----------------------------------------------------------------------------
(* Initialize and Shutdown, each called while no other call of its thread  *)
(* is under way.                                                           *)

\* The stores of Shutdown.  A callback that is past its checks may go on, so
\* the worker takes no part in when it is closed: between the first store and
\* the second it could only match, as it may before both of them, and clear
\* what the second clears.  Another thread of the application could begin a
\* request between them; the runs have one thread.
Close ==
    /\ initialized' = FALSE
    /\ pending' = 0
    /\ lastRequest' = 0

Shutdown(a) ==
    /\ At(a, "idle")
    /\ Close
    /\ UNCHANGED <<world, nextSequence, app, worker, medium, stats, samples, session, attempts>>

Initialize(a) ==
    /\ At(a, "idle")
    /\ session < MaxSessions
    /\ Close
    /\ Goto(a, "opening")
    /\ UNCHANGED <<world, nextSequence, worker, medium, stats, samples, session, attempts>>

Open(a) ==
    /\ At(a, "opening")
    /\ session < MaxSessions
    /\ pending' = 0 /\ lastRequest' = 0
    /\ initialized' = TRUE
    /\ session' = session + 1
    /\ attempts' = <<>>
    /\ Return(a)
    /\ UNCHANGED <<world, nextSequence, worker, medium, stats, samples>>

\* The configuration is refused, or the subscription: what was open is closed.
InitializeFails(a) ==
    /\ At(a, "opening")
    /\ Return(a)
    /\ UNCHANGED <<world, shared, worker, medium, stats, samples, session, attempts>>

-----------------------------------------------------------------------------
(* Update.                                                                 *)

Update(a) ==
    /\ At(a, "idle")
    /\ initialized
    /\ app' = [app EXCEPT ![a] = [Idle EXCEPT !.pc = "update", !.now = now, !.update = TRUE]]
    /\ UNCHANGED <<world, shared, worker, medium, stats, samples, session, attempts>>

\* The time since the last request, of unsigned numbers: of the two, the
\* time was read first.
Elapsed(a) == (app[a].now - lastRequest) % TimeModulus

\* Broken variant of Due: a tick early.
DueEarly(a) == lastRequest = 0 \/ Elapsed(a) + 1 >= Interval

Due(a) == lastRequest = 0 \/ Elapsed(a) >= Interval

UpdateDue(a) ==
    /\ At(a, "update")
    /\ IF Due(a) THEN Goto(a, "request") ELSE Return(a)
    /\ UNCHANGED <<world, shared, worker, medium, stats, samples, session, attempts>>

-----------------------------------------------------------------------------
(* RequestSynchronization, called by Update or by the application.         *)

Request(a) ==
    /\ At(a, "idle")
    /\ Goto(a, "request")
    /\ UNCHANGED <<world, shared, worker, medium, stats, samples, session, attempts>>

\* History, for attempts.
Begun(a, refused) == Append(attempts, [at |-> now, update |-> app[a].update, refused |-> refused])

\* Broken variant of Refuse: the failure is not counted.
RefuseUncounted(a) ==
    /\ At(a, "request")
    /\ ~initialized \/ ~started
    /\ stats.attempted < MaxRequests
    /\ Count("attempted")
    /\ attempts' = Begun(a, TRUE)
    /\ Return(a)
    /\ UNCHANGED <<world, shared, worker, medium, samples, session>>

\* The call is counted, and ends here if it cannot send at all.  The time of the
\* last request stays what it was.
Refuse(a) ==
    /\ At(a, "request")
    /\ ~initialized \/ ~started
    /\ stats.attempted < MaxRequests
    /\ stats' = [stats EXCEPT !.attempted = @ + 1, !.failed = @ + 1]
    /\ attempts' = Begun(a, TRUE)
    /\ Return(a)
    /\ UNCHANGED <<world, shared, worker, medium, samples, session>>

\* Broken variant of NextSequence: no wrap.
NextSequenceUnwrapped(seq) == seq + 1

NextSequence(seq) == (seq + 1) % SeqModulus

\* 0 is not a sequence number: the number after it is taken.  That is when the
\* numbers have been round once and begin to be used again.
TakeSequence(a) ==
    /\ At(a, "request")
    /\ initialized /\ started
    /\ stats.attempted < MaxRequests
    /\ Count("attempted")
    /\ LET seq == IF nextSequence = 0 THEN 1 ELSE nextSequence
       IN  /\ nextSequence' = NextSequence(seq)
           /\ app' = [app EXCEPT ![a].pc = "stamp", ![a].seq = seq,
                                  ![a].session = session]
    /\ UNCHANGED <<world, initialized, pending, lastRequest, worker, medium, samples, session, attempts>>

\* History, for alone: no earlier response is awaited or being taken.
NoneAwaited == pending = 0 /\ worker.pc \notin {"matched", "cleared"}

ReadT1(a) ==
    /\ At(a, "stamp")
    /\ app' = [app EXCEPT ![a].pc = "pending", ![a].t1 = adjustments, ![a].alone = NoneAwaited]
    /\ UNCHANGED <<world, shared, worker, medium, stats, samples, session, attempts>>

StorePending(a) ==
    /\ At(a, "pending")
    /\ pending' = app[a].seq
    /\ Goto(a, "last")
    /\ UNCHANGED <<world, initialized, nextSequence, lastRequest, worker, medium, stats, samples,
                   session, attempts>>

StoreLast(a) ==
    /\ At(a, "last")
    /\ lastRequest' = now
    /\ attempts' = Begun(a, FALSE)
    /\ Goto(a, "send")
    /\ UNCHANGED <<world, initialized, nextSequence, pending, worker, medium, stats, samples, session>>

SendAccepted(a) ==
    /\ At(a, "send")
    /\ requests' = requests \union {[seq |-> app[a].seq, t1 |-> app[a].t1,
                                  alone |-> app[a].alone, session |-> app[a].session]}
    /\ Count("sent")
    /\ Return(a)
    /\ UNCHANGED <<world, shared, worker, responses, samples, session, attempts>>

SendRejected(a) ==
    /\ At(a, "send")
    /\ Goto(a, "failed")
    /\ UNCHANGED <<world, shared, worker, medium, stats, samples, session, attempts>>

\* Broken variant of ForgetPending: the sequence stays pending.
KeepPending(a) ==
    /\ At(a, "failed")
    /\ Count("failed")
    /\ Return(a)
    /\ UNCHANGED <<world, shared, worker, medium, samples, session, attempts>>

ForgetPending(a) ==
    /\ At(a, "failed")
    /\ pending' = 0
    /\ Count("failed")
    /\ Return(a)
    /\ UNCHANGED <<world, initialized, nextSequence, lastRequest, worker, medium, samples, session,
                   attempts>>

-----------------------------------------------------------------------------
(* OnRadioPacketReceived: ProcessRequest on the reference, ProcessResponse *)
(* on the client.                                                          *)

\* Of a packet of either kind, a sequence number of 0 is refused.
DecodeHeader(r) == r.seq # 0

\* A response comes; the rest of the callback does not ask again whether the
\* synchronizer is initialized.
OnRadioPacketReceived(r) ==
    /\ worker.pc = "idle"
    /\ initialized
    /\ r \in responses
    /\ DecodeHeader(r)
    /\ worker' = [pc |-> "received", packet |-> r]
    /\ UNCHANGED <<world, shared, app, medium, stats, samples, session, attempts>>

\* The system clock when the packet came: read now, less the time since.  So
\* it is of the clock as it is adjusted now.
RecoverSystemTimestamp == adjustments

Respond(r) ==
    /\ r \in requests
    /\ r \notin responses
    /\ responses' = responses \union {r}
    /\ UNCHANGED <<world, shared, app, worker, requests, stats, samples, session, attempts>>

\* Broken variant of MatchPending: any response will do while one is awaited.
MatchAnyPending ==
    /\ worker.pc = "received"
    /\ worker' = IF pending # 0 THEN [worker EXCEPT !.pc = "matched"] ELSE Resting
    /\ UNCHANGED <<world, shared, app, medium, stats, samples, session, attempts>>

\* A response whose sequence is not the pending one is dropped.
MatchPending ==
    /\ worker.pc = "received"
    /\ worker' = IF pending # 0 /\ pending = worker.packet.seq
                 THEN [worker EXCEPT !.pc = "matched"]
                 ELSE Resting
    /\ UNCHANGED <<world, shared, app, medium, stats, samples, session, attempts>>

\* Broken variant of ClearPending: the response can be taken again.
CountOnly ==
    /\ worker.pc = "matched"
    /\ Count("received")
    /\ worker' = [worker EXCEPT !.pc = "cleared"]
    /\ UNCHANGED <<world, shared, app, medium, samples, session, attempts>>

ClearPending ==
    /\ worker.pc = "matched"
    /\ pending' = 0
    /\ Count("received")
    /\ worker' = [worker EXCEPT !.pc = "cleared"]
    /\ UNCHANGED <<world, initialized, nextSequence, lastRequest, app, medium, samples, session,
                   attempts>>

\* The clock's owner takes the sample, and may adjust the clock, or not.
SubmitSample ==
    /\ worker.pc = "cleared"
    /\ samples' = Append(samples, [seq |-> worker.packet.seq, t1 |-> worker.packet.t1,
                                   t4 |-> RecoverSystemTimestamp, alone |-> worker.packet.alone,
                                   session |-> worker.packet.session, during |-> session])
    /\ \/ Count("accepted") /\ adjustments' = adjustments + 1
       \/ Count("rejected") /\ UNCHANGED adjustments
    /\ worker' = Resting
    /\ UNCHANGED <<now, started, shared, app, medium, session, attempts>>

-----------------------------------------------------------------------------
Tick ==
    /\ now < MaxTime
    /\ now' = now + 1
    /\ UNCHANGED <<adjustments, started, shared, app, worker, medium, stats, samples, session, attempts>>

RadioStartStop ==
    /\ started' = ~started
    /\ UNCHANGED <<now, adjustments, shared, app, worker, medium, stats, samples, session, attempts>>

RequestSteps(a) ==
    \/ Refuse(a) \/ TakeSequence(a) \/ ReadT1(a) \/ StorePending(a) \/ StoreLast(a)
    \/ SendAccepted(a) \/ SendRejected(a) \/ ForgetPending(a)

WorkerSteps ==
    \/ \E r \in requests : Respond(r)
    \/ \E r \in responses : OnRadioPacketReceived(r)
    \/ MatchPending
    \/ ClearPending
    \/ SubmitSample

Next ==
    \/ \E a \in App : \/ Shutdown(a) \/ Initialize(a) \/ Open(a) \/ InitializeFails(a)
                      \/ Update(a) \/ UpdateDue(a)
                      \/ Request(a) \/ RequestSteps(a)
    \/ WorkerSteps
    \/ Tick \/ RadioStartStop

Spec == Init /\ [][Next]_vars

-----------------------------------------------------------------------------
Sequence == 0 .. SeqModulus - 1
Packet   == [seq : Sequence, t1 : Nat, alone : BOOLEAN, session : Nat]
AppState == [pc : {"idle", "opening", "update", "request", "stamp", "pending", "last", "send", "failed"},
             now : 0 .. MaxTime, update : BOOLEAN, seq : Sequence, t1 : Nat, alone : BOOLEAN, session : Nat]
Sample   == [seq : Sequence, t1 : Nat, t4 : Nat, alone : BOOLEAN, session : Nat, during : Nat]
Attempt  == [at : 1 .. MaxTime, update : BOOLEAN, refused : BOOLEAN]

TypeOK ==
    /\ now \in 1 .. MaxTime /\ adjustments \in Nat /\ started \in BOOLEAN
    /\ initialized \in BOOLEAN
    /\ {nextSequence, pending} \subseteq Sequence
    /\ lastRequest \in 0 .. MaxTime
    /\ app \in [App -> AppState]
    /\ worker \in [pc : {"idle", "received", "matched", "cleared"}, packet : Packet]
    /\ \A r \in requests \union responses : r \in Packet
    /\ stats \in [{"attempted", "sent", "failed", "received", "accepted", "rejected"} -> Nat]
    /\ samples \in Seq(Sample)
    /\ session \in 0 .. MaxSessions
    /\ attempts \in Seq(Attempt)

\* One exchange yields one sample, however often its response arrives and
\* although the pending sequence is read and cleared in two steps.
SampledOnce ==
    \A i, j \in DOMAIN samples : samples[i].seq = samples[j].seq => i = j

\* A response is matched only to a request of the present Initialize: a late
\* one from before a Shutdown is dropped.  One that was matched already is not
\* stopped by a Shutdown, nor by the Initialize after it.
MatchedInItsSession ==
    [][worker'.pc = "matched" /\ worker.pc = "received" => worker'.packet.session = session]_vars

\* So a sample may be submitted in a later session than that of its request,
\* but it is the first of that session: no session gets two such samples, nor
\* one after a sample of its own.
OneStraySample ==
    \A i, j \in DOMAIN samples :
        j < i /\ samples[j].during = samples[i].during => samples[i].session = samples[i].during

\* A sample's T1 is the one of the request whose response was awaited: no
\* later request was pending when the response was taken.
OnlyLatestIsAwaited ==
    [][worker'.pc = "matched" /\ worker.pc = "received" =>
         \A r \in requests : r.session = session => r.seq <= worker'.packet.seq]_vars

\* Update begins a request only when Interval has passed since the last one of
\* the session that was not refused, whoever began that, and whether its Send
\* was accepted or not.  A refused one does not count as the last request.
IntervalIsKept ==
    \A i, j \in DOMAIN attempts :
        j < i /\ attempts[i].update /\ ~attempts[j].refused => attempts[i].at - attempts[j].at >= Interval

\* A pending sequence is that of a request on its way: one that could not be
\* sent does not stay pending.
PendingWasSent ==
    pending # 0 =>
        \/ \E r \in requests : r.seq = pending
        \/ \E a \in App : app[a].seq = pending /\ app[a].pc \in {"last", "send", "failed"}

InFlight == {a \in App : app[a].pc \in {"stamp", "pending", "last", "send", "failed"}}

\* Each attempt ends as sent or failed, each response taken as a sample that
\* was accepted or rejected.
StatisticsAddUp ==
    /\ stats.attempted = stats.sent + stats.failed + Cardinality(InFlight)
    /\ stats.received = stats.accepted + stats.rejected + (IF worker.pc = "cleared" THEN 1 ELSE 0)

\* T1 and T4 of a sample are readings of one clock, that is, the synchronizer
\* adjusts it between them only when the request was begun while the response
\* to an earlier one was awaited or being taken: that response may do it.
OneClockUnlessOverlapping ==
    \A i \in DOMAIN samples : samples[i].alone => samples[i].t1 = samples[i].t4
=============================================================================
