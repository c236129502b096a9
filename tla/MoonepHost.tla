----------------------------- MODULE MoonepHost ----------------------------
(***************************************************************************)
(* The host side of the MoonEP operators on one rank: the wrappers of      *)
(* moonep_plan.py, prefetch_weight.py and reduce_grad.py, the stream guard  *)
(* sync_transport_stream and the closing finish_op of moonep_context.py.   *)
(*                                                                         *)
(* One host thread calls operators, each on a stream of its choice, and     *)
(* appends kernels, event records and event waits to that stream.  Streams  *)
(* run concurrently, the items of one stream in order.  The kernels share   *)
(* flags and staging slots, so the guard must make the kernels of all       *)
(* operators run in the order of the calls.  One event object is recorded   *)
(* again by each operator; a wait is for its last record at the time of the *)
(* call.  Streams and events are external.                                 *)
(*                                                                         *)
(* The layout a plan computes is checked late, by the operator that closes  *)
(* with a barrier.  A layout is bad when tokens_per_expert does not add up  *)
(* to the rows of the rank: the caller passes both.                        *)
(***************************************************************************)
EXTENDS Naturals, Sequences

CONSTANTS Streams,      \* the streams of the device
          MaxCalls,     \* bound: operator calls
          Kinds         \* the operators called

NoStream == "none"

ASSUME MaxCallsAssumption == MaxCalls \in Nat
ASSUME StreamsAssumption == NoStream \notin Streams
ASSUME KindsAssumption ==
    Kinds \subseteq {"plan", "plan_verify", "prefetch", "prefetch_async",
                     "reduce", "reduce_barrier_false"}

VARIABLES
    calls,      \* operators called so far: the number of the current one
    kind,       \* the operator of the current call
    cur,        \* its stream: torch.npu.current_stream()
    prog,       \* what its wrapper still has to do
    tstream,    \* context.transport_stream
    tevent,     \* the call that recorded context.transport_event last, or 0
    queue,      \* queue[s]: items of stream s that have not begun
    running,    \* running[s]: the call whose kernel runs on s, or 0
    fired,      \* calls whose record of the event the device has reached
    pending,    \* context.pending_overflow: "none", "good" or "bad"
    layout,     \* the layout of the last plan
    raised      \* an operator has raised since that plan

vars == <<calls, kind, cur, prog, tstream, tevent, queue, running, fired,
          pending, layout, raised>>
device == <<queue, running, fired>>
overflow == <<pending, layout, raised>>

Kernel(i) == [item |-> "kernel", call |-> i]
Wait(i)   == [item |-> "wait", call |-> i]
Record(i) == [item |-> "record", call |-> i]

SymBarrier == <<"launch", "synchronize">>

\* Mutant: the pending layout is never looked at.
FinishOpUnchecked(async_finish) ==
    IF async_finish THEN <<"record">> ELSE SymBarrier \o <<"record">>

FinishOp(async_finish) ==
    IF async_finish THEN <<"record">>
                    ELSE SymBarrier \o <<"record", "check">>

MoonepPlan(verify) ==
    <<"guard", "launch", "record", "note">>
        \o IF verify THEN <<"check">> ELSE << >>
PrefetchWeight(async_finish) == <<"guard", "launch">> \o FinishOp(async_finish)
ReduceGrad(barrier) ==
    <<"guard">> \o SymBarrier \o <<"launch">> \o FinishOp(barrier)

Wrapper(k) == CASE k = "plan"                 -> MoonepPlan(FALSE)
                [] k = "plan_verify"          -> MoonepPlan(TRUE)
                [] k = "prefetch"             -> PrefetchWeight(FALSE)
                [] k = "prefetch_async"       -> PrefetchWeight(TRUE)
                [] k = "reduce"               -> ReduceGrad(TRUE)
                [] k = "reduce_barrier_false" -> ReduceGrad(FALSE)

Init ==
    /\ calls = 0
    /\ kind = "none"
    /\ cur = NoStream
    /\ prog = << >>
    /\ tstream = NoStream
    /\ tevent = 0
    /\ queue = [s \in Streams |-> << >>]
    /\ running = [s \in Streams |-> 0]
    /\ fired = {}
    /\ pending = "none"
    /\ layout = "none"
    /\ raised = FALSE

Doing(what) == prog # << >> /\ Head(prog) = what
Enqueue(x) == queue' = [queue EXCEPT ![cur] = Append(@, x)]

-----------------------------------------------------------------------------
\* The caller calls an operator on one of the streams.  Without a plan there is
\* nothing to call the others with: create_weight_view, whose views a prefetch
\* takes, and reduce_grad raise as long as last_plan_shape is None.
Call ==
    /\ prog = << >>
    /\ calls < MaxCalls
    /\ \E k \in Kinds :
          /\ layout = "none" => k \in {"plan", "plan_verify"}
          /\ kind' = k
          /\ prog' = Wrapper(k)
    /\ cur' \in Streams
    /\ calls' = calls + 1
    /\ UNCHANGED <<tstream, tevent, device, overflow>>

\* Mutant: the new stream is noted, but it does not wait.
SyncTransportStreamUnordered ==
    /\ Doing("guard")
    /\ tstream' = cur
    /\ UNCHANGED <<calls, cur, tevent, device, overflow>>

\* Mutant: the event is recorded anew before the wait is taken on it.
SyncTransportStreamSelf ==
    /\ Doing("guard")
    /\ IF tstream \in {NoStream, cur} \/ tevent = 0
         THEN UNCHANGED queue
         ELSE Enqueue(Wait(calls))
    /\ tstream' = cur
    /\ UNCHANGED <<calls, cur, tevent, running, fired, overflow>>

\* sync_transport_stream: on another stream than the last call, wait for the
\* event recorded last.
SyncTransportStream ==
    /\ Doing("guard")
    /\ IF tstream \in {NoStream, cur} \/ tevent = 0
         THEN UNCHANGED queue
         ELSE Enqueue(Wait(tevent))
    /\ tstream' = cur
    /\ UNCHANGED <<calls, cur, tevent, running, fired, overflow>>

Guard ==
    /\ SyncTransportStream
    /\ prog' = Tail(prog)
    /\ UNCHANGED kind

\* Behind the guard the operator raises over its arguments, or has nothing to
\* do on a single rank: it launches no kernel and records no event, but its
\* stream is noted.  (A prefetch may have queued the copies of its own rows by
\* then, which are not in the model.)  It vouches for no layout.
Refuse ==
    /\ SyncTransportStream
    /\ prog' = << >>
    /\ kind' = "none"

Launch ==
    /\ Doing("launch")
    /\ Enqueue(Kernel(calls))
    /\ prog' = Tail(prog)
    /\ UNCHANGED <<calls, kind, cur, tstream, tevent, running, fired, overflow>>

\* torch.npu.current_stream().synchronize()
Synchronize ==
    /\ Doing("synchronize")
    /\ queue[cur] = << >> /\ running[cur] = 0
    /\ prog' = Tail(prog)
    /\ UNCHANGED <<calls, kind, cur, tstream, tevent, device, overflow>>

RecordTransportEvent ==
    /\ Doing("record")
    /\ Enqueue(Record(calls))
    /\ tevent' = calls
    /\ prog' = Tail(prog)
    /\ UNCHANGED <<calls, kind, cur, tstream, running, fired, overflow>>

\* moonep_plan leaves its layout for a later check.
NotePending ==
    /\ Doing("note")
    /\ layout' \in {"good", "bad"}
    /\ pending' = layout'
    /\ raised' = FALSE
    /\ prog' = Tail(prog)
    /\ UNCHANGED <<calls, kind, cur, tstream, tevent, device>>

\* check_pending_overflow: reading the layout back waits for the stream.
CheckPendingOverflow ==
    /\ Doing("check")
    /\ pending # "none" => queue[cur] = << >> /\ running[cur] = 0
    /\ pending' = "none"
    /\ raised' = (raised \/ pending = "bad")
    /\ prog' = Tail(prog)
    /\ UNCHANGED <<calls, kind, cur, tstream, tevent, device, layout>>

\* The device: a kernel begins, and ends.
KernelBegin(s) ==
    /\ running[s] = 0
    /\ queue[s] # << >> /\ Head(queue[s]).item = "kernel"
    /\ running' = [running EXCEPT ![s] = Head(queue[s]).call]
    /\ queue' = [queue EXCEPT ![s] = Tail(@)]
    /\ UNCHANGED <<calls, kind, cur, prog, tstream, tevent, fired, overflow>>

KernelEnd(s) ==
    /\ running[s] # 0
    /\ running' = [running EXCEPT ![s] = 0]
    /\ UNCHANGED <<calls, kind, cur, prog, tstream, tevent, queue, fired,
                   overflow>>

\* A stream passes an event record, or a wait whose record has been passed.
PassEvent(s) ==
    /\ running[s] = 0
    /\ queue[s] # << >>
    /\ LET x == Head(queue[s])
       IN  \/ x.item = "record" /\ fired' = fired \cup {x.call}
           \/ x.item = "wait" /\ x.call \in fired /\ UNCHANGED fired
    /\ queue' = [queue EXCEPT ![s] = Tail(@)]
    /\ UNCHANGED <<calls, kind, cur, prog, tstream, tevent, running, overflow>>

Finished ==
    /\ calls = MaxCalls /\ prog = << >>
    /\ \A s \in Streams : queue[s] = << >> /\ running[s] = 0
    /\ UNCHANGED vars

Host == \/ Call \/ Guard \/ Refuse \/ Launch \/ Synchronize
        \/ RecordTransportEvent \/ NotePending \/ CheckPendingOverflow

Next == \/ Host
        \/ \E s \in Streams : KernelBegin(s) \/ KernelEnd(s) \/ PassEvent(s)
        \/ Finished

Spec == Init /\ [][Next]_vars

\* The host thread runs, kernels end and streams go on.
FairSpec == /\ Spec
            /\ WF_vars(Host)
            /\ \A s \in Streams :
                  WF_vars(KernelBegin(s) \/ KernelEnd(s) \/ PassEvent(s))

-----------------------------------------------------------------------------
\* A kernel of call i has not ended, on whatever stream.
Unfinished(i) ==
    \E s \in Streams : \/ running[s] = i
                       \/ \E j \in DOMAIN queue[s] : queue[s][j] = Kernel(i)

(* While a kernel runs, no kernel of an earlier call is still to end: the   *)
(* flags and staging slots see the operators in the order of the calls,     *)
(* whatever streams the caller has used for them.                           *)
CallOrder ==
    \A s \in Streams : \A i \in 1..MaxCalls :
        i < running[s] => ~Unfinished(i)

\* The operators that look at the pending layout before they return.
Checking == {"plan_verify", "prefetch", "reduce_barrier_false"}

(* When an operator that closes with the barrier has returned and none has  *)
(* raised since the last plan, the layout of that plan is good, whatever    *)
(* operators have been called in between without looking at it.             *)
LayoutVouchedFor ==
    prog = << >> /\ kind \in Checking /\ ~raised => layout = "good"

(* All calls return and all their kernels end: the waits of the guard never *)
(* wait for each other.                                                     *)
EveryCallCompletes ==
    <>[](/\ calls = MaxCalls /\ prog = << >>
         /\ \A i \in 1..MaxCalls : ~Unfinished(i))

-----------------------------------------------------------------------------
(* Why the layout is vouched for, and why the kernels run in order.         *)

Steps == {"guard", "launch", "synchronize", "record", "note", "check"}

\* What a wrapper still has to do: the guard comes first, and one record
\* behind all launches.
WellFormed(p) ==
    /\ p \in Seq(Steps)
    /\ \A i \in 1 .. Len(p) :
         /\ p[i] = "guard" => i = 1
         /\ p[i] \in {"guard", "launch"} =>
              \E j \in i + 1 .. Len(p) : p[j] = "record"
         /\ p[i] = "record" =>
              \A j \in i + 1 .. Len(p) : p[j] \notin {"guard", "launch", "record"}

ToDo(what) == \E i \in 1 .. Len(prog) : prog[i] = what

\* The current call is between the guard and the record.
Launching == ToDo("record") /\ ~Doing("guard")

\* How far the current call has got: whether it has chosen its stream and
\* recorded the event.
CallInv ==
    /\ calls \in 0 .. MaxCalls /\ WellFormed(prog)
    /\ cur \in Streams \cup {NoStream} /\ tstream \in Streams \cup {NoStream}
    /\ prog # << >> => cur \in Streams /\ calls > 0
    /\ prog # << >> /\ ~Doing("guard") => tstream = cur
    /\ tstream = NoStream => calls = 0 \/ (calls = 1 /\ Doing("guard"))
    /\ tevent \in 0 .. calls /\ (ToDo("record") => tevent < calls)

\* The layout of the last plan is held back until somebody looks at it, and
\* the last thing a checking operator does is to look.
OverflowInv ==
    /\ layout \in {"none", "good", "bad"} /\ pending \in {"none", layout}
    /\ raised \in BOOLEAN
    /\ ~raised /\ pending = "none" /\ layout # "none" => layout = "good"
    /\ kind \in Checking =>
         /\ prog = << >> => pending = "none"
         /\ prog # << >> => prog[Len(prog)] = "check"
         /\ layout # "none" \/ ToDo("note")

Items == [item : {"kernel", "wait", "record"}, call : 1 .. MaxCalls]

\* All that is on the streams belongs to calls up to the last record, but for
\* the current call while it launches on its own stream; events are recorded
\* before they are waited for.
ItemInv(s, p) ==
    LET x == queue[s][p]
    IN  /\ x.call <= calls
        /\ x.item # "kernel" => x.call <= tevent
        /\ x.call > tevent => s = cur /\ x.call = calls /\ Launching
        /\ x.item # "wait" => \A q \in p + 1 .. Len(queue[s]) :
             queue[s][q].item = "kernel" =>
               \/ x.call < queue[s][q].call
               \/ x.item = "kernel" /\ x.call = queue[s][q].call

RunningInv(s) ==
    /\ running[s] <= calls
    /\ running[s] > tevent => s = cur /\ running[s] = calls /\ Launching

QueuesInv ==
    /\ queue \in [Streams -> Seq(Items)] /\ running \in [Streams -> 0 .. MaxCalls]
    /\ fired \subseteq 1 .. tevent
    /\ \A s \in Streams : RunningInv(s) /\ \A p \in 1 .. Len(queue[s]) : ItemInv(s, p)

\* A kernel of call i has not ended on stream s.
Open(i, s) == \/ running[s] = i
              \/ \E p \in 1 .. Len(queue[s]) : queue[s][p] = Kernel(i)

\* Before place p, stream s waits for an event of call i or later.
Held(s, p, i) ==
    \E q \in 1 .. p - 1 : /\ queue[s][q].item = "wait"
                         /\ i <= queue[s][q].call /\ queue[s][q].call \notin fired

\* Nothing overtakes a kernel of another stream.
OrderInv ==
    \A i \in 1 .. MaxCalls : \A t \in Streams : Open(i, t) =>
        /\ \A k \in fired : k < i
        /\ \A s \in Streams : running[s] <= i
        /\ \A s \in Streams \ {t} :
             /\ \A p \in 1 .. Len(queue[s]) :
                  queue[s][p].item # "wait" /\ i <= queue[s][p].call => Held(s, p, i)
             /\ s = tstream => Held(s, Len(queue[s]) + 1, i)

HostInv == CallInv /\ OverflowInv /\ QueuesInv /\ OrderInv
=============================================================================
