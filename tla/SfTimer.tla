------------------------------- MODULE SfTimer -------------------------------
(***************************************************************************)
(* sf_timer: the timer wheel of one worker.                                *)
(*                                                                         *)
(* A timer of k ticks goes into the bucket k places after the current one. *)
(* The wheel is turned by polling, by as many ticks as have passed since   *)
(* the last turn, and the buckets it passes are handed to sf_timer_input,  *)
(* which fires them chunk by chunk and may leave some for the next poll.   *)
(* Any worker may stop a timer: before safe_clib_time by clearing its slot *)
(* and freeing its timer_info, later by zeroing the timer_info.            *)
(*                                                                         *)
(* Time is counted in fractions of a tick.  Chunks are abstracted to the   *)
(* sets of slots they hold, each named by its timer; a submit that finds   *)
(* the chunk pool empty or asks for too many ticks changes nothing.        *)
(***************************************************************************)
EXTENDS Integers, FiniteSets

CONSTANTS
  Timer,          \* timers, each submitted at most once
  MAX_TICKS,      \* SF_TIMER_MAX_TICKS = number of buckets
  SLOT_CNT,       \* SF_TW_TIMER_SLOT_CNT, timers in a chunk
  Ticks,          \* the tick counts that are asked for
  Unit,           \* timer_interval, in units of time
  StopDelay,      \* longest time between check and clear in a stop
  MaxNow          \* bound: the end of time

\* ip_reass asks for ten ticks a second, so never for less than two; a stop
\* runs to its end within the two ticks that safe_clib_time leaves it.
ASSUME SfTimerAssumption ==
  /\ IsFiniteSet(Timer)
  /\ MAX_TICKS \in Nat \ {0}
  /\ SLOT_CNT \in Nat \ {0}
  /\ Ticks \subseteq Nat \ {0, 1}
  /\ Unit \in Nat \ {0}
  /\ StopDelay \in 0 .. 2 * Unit
  /\ MaxNow \in Nat

VARIABLES
  now,
  last_run_time, next_run_time, pre_bucket_index,
  poll, nticks, ret_cnt, \* the poll: idle, turning the wheel, draining
  slot,                \* where the timer's slot is: see Places
  safe_clib_time,      \* of the timer_record
  state,               \* what the submitter knows about the timer
  checked,             \* when a stop in progress looked at the clock
  due                  \* when the wheel time says that the timer expires

wheelVars == <<last_run_time, next_run_time, pre_bucket_index>>
pollVars  == <<poll, nticks, ret_cnt>>
timerVars == <<slot, safe_clib_time, state, checked, due>>
allVars == <<now, wheelVars, pollVars, timerVars>>

Buckets == 0 .. MAX_TICKS - 1
Expired == -1      \* in a chunk of expire_chunk_list
Nowhere == -2      \* not submitted, or its chunk was freed
Places  == Buckets \cup {Expired, Nowhere}

ExpireList == {t \in Timer : slot[t] = Expired}

TimerInit ==
  /\ now = 0
  /\ last_run_time = 0 /\ next_run_time = 0 /\ pre_bucket_index = 0
  /\ poll = "idle" /\ nticks = 0 /\ ret_cnt = 0
  /\ slot = [t \in Timer |-> Nowhere]
  /\ safe_clib_time = [t \in Timer |-> 0]
  /\ state = [t \in Timer |-> "new"]
  /\ checked = [t \in Timer |-> 0]
  /\ due = [t \in Timer |-> 0]

\* Time passes, but no stop takes longer than StopDelay.
Tick ==
  /\ now < MaxNow
  /\ \A t \in Timer : state[t] = "stopping" => now - checked[t] < StopDelay
  /\ now' = now + 1
  /\ UNCHANGED <<wheelVars, pollVars, timerVars>>

-----------------------------------------------------------------------------
(* The worker that owns the wheel                                          *)

\* i & SF_TW_TIMER_BUCKET_MASK
Masked(i) == i % MAX_TICKS

BucketAfter(k) == Masked(pre_bucket_index + k)

\* Mutant: safe until the moment the timer is due.
SafeTime_Due(k) == last_run_time + k * Unit
SafeTime(k) == last_run_time + (k - 2) * Unit

\* sf_submit_timer_tw; more than MAX_TICKS is refused.
Submit(t, k) ==
  /\ poll = "idle"
  /\ state[t] = "new"
  /\ k <= MAX_TICKS
  /\ slot' = [slot EXCEPT ![t] = BucketAfter(k)]
  /\ safe_clib_time' = [safe_clib_time EXCEPT ![t] = SafeTime(k)]
  /\ state' = [state EXCEPT ![t] = "armed"]
  /\ due' = [due EXCEPT ![t] = last_run_time + k * Unit]
  /\ UNCHANGED <<now, wheelVars, pollVars, checked>>

\* sf_tw_timer_expire_internal reads the clock.
PollExpire ==
  /\ poll = "idle"
  /\ ExpireList = {}
  /\ now >= next_run_time
  /\ nticks' = (now - last_run_time) \div Unit
  /\ next_run_time' = now + Unit
  /\ poll' = "turn"
  /\ UNCHANGED <<now, last_run_time, pre_bucket_index, ret_cnt, timerVars>>

NextBucket == Masked(pre_bucket_index + 1)

\* Mutant: the slots are left in a bucket that is only passed on the way.
ExpiredBy_LastOnly(b) == {t \in Timer : slot[t] = b /\ nticks = 1}
\* The slots of bucket b, which the wheel has come to.
ExpiredBy(b) == {t \in Timer : slot[t] = b}

\* One tick: the chunks of the next bucket join expire_chunk_list.  (The code
\* adds up last_run_time after the last one; only this worker reads it.)
TurnTick ==
  /\ poll = "turn"
  /\ nticks > 0
  /\ nticks' = nticks - 1
  /\ pre_bucket_index' = NextBucket
  /\ last_run_time' = last_run_time + Unit
  /\ slot' = [t \in Timer |-> IF t \in ExpiredBy(NextBucket) THEN Expired
                              ELSE slot[t]]
  /\ UNCHANGED <<now, next_run_time, poll, ret_cnt, safe_clib_time, state,
                 checked, due>>

TurnDone ==
  /\ poll = "turn"
  /\ nticks = 0
  /\ poll' = "drain"
  /\ ret_cnt' = 0
  /\ UNCHANGED <<now, wheelVars, nticks, timerVars>>

\* A poll that finds chunks left over from the last one does not turn.
PollLeftOver ==
  /\ poll = "idle"
  /\ ExpireList # {}
  /\ poll' = "drain"
  /\ ret_cnt' = 0
  /\ UNCHANGED <<now, wheelVars, nticks, timerVars>>

\* Mutant: what is left of the list when the poll stops is forgotten.
LeftInList_Lost(S, cnt) == IF cnt >= SLOT_CNT THEN {} ELSE ExpireList \ S
\* The slots still on expire_chunk_list after the chunk S was taken off.
LeftInList(S, cnt) == ExpireList \ S

\* One chunk: the timers in its slots that are not cleared go to their
\* handlers, and the chunk is freed.  The poll ends once it has passed on
\* SLOT_CNT timers.
DrainChunk(S) ==
  /\ poll = "drain"
  /\ S # {} /\ S \subseteq ExpireList /\ Cardinality(S) <= SLOT_CNT
  /\ ret_cnt' = ret_cnt + Cardinality({t \in S : state[t] # "stopped"})
  /\ slot' = [t \in Timer |->
                IF t \in ExpireList /\ t \notin LeftInList(S, ret_cnt')
                THEN Nowhere ELSE slot[t]]
  /\ state' = [t \in Timer |->
                 IF t \in S /\ state[t] = "armed" THEN "fired"
                 ELSE IF t \in S /\ state[t] = "zeroed" THEN "dropped"
                 ELSE state[t]]
  /\ poll' = IF ret_cnt' >= SLOT_CNT THEN "idle" ELSE "drain"
  /\ UNCHANGED <<now, wheelVars, nticks, safe_clib_time, checked, due>>

DrainDone ==
  /\ poll = "drain"
  /\ ExpireList = {}
  /\ poll' = "idle"
  /\ UNCHANGED <<now, wheelVars, nticks, ret_cnt, timerVars>>

-----------------------------------------------------------------------------
(* Any worker: sf_stop_timer_void_tw of a timer that has not been handled  *)

StopCheck(t) ==
  /\ state[t] = "armed"
  /\ now < safe_clib_time[t]
  /\ state' = [state EXCEPT ![t] = "stopping"]
  /\ checked' = [checked EXCEPT ![t] = now]
  /\ UNCHANGED <<now, wheelVars, pollVars, slot, safe_clib_time, due>>

\* The slot is cleared through slot_handler and the timer_info is freed.
StopClear(t) ==
  /\ state[t] = "stopping"
  /\ state' = [state EXCEPT ![t] = "stopped"]
  /\ UNCHANGED <<now, wheelVars, pollVars, slot, safe_clib_time, checked, due>>

StopBusy(t) ==
  /\ state[t] = "armed"
  /\ now >= safe_clib_time[t]
  /\ state' = [state EXCEPT ![t] = "zeroed"]
  /\ UNCHANGED <<now, wheelVars, pollVars, slot, safe_clib_time, checked, due>>

-----------------------------------------------------------------------------
Poll ==
  \/ PollExpire
  \/ TurnTick
  \/ TurnDone
  \/ PollLeftOver
  \/ \E S \in SUBSET Timer : DrainChunk(S)
  \/ DrainDone

TimerNext ==
  \/ Tick
  \/ \E t \in Timer, k \in Ticks : Submit(t, k)
  \/ Poll
  \/ \E t \in Timer : StopCheck(t) \/ StopClear(t) \/ StopBusy(t)

TimerSpec == TimerInit /\ [][TimerNext]_allVars

\* The clock runs (up to the bound), the wheel is polled and stops return.
FairSpec ==
  /\ TimerSpec
  /\ WF_allVars(Tick) /\ WF_allVars(Poll)
  /\ \A t \in Timer : WF_allVars(StopClear(t))

-----------------------------------------------------------------------------
(* Properties                                                              *)

\* Type invariant: every variable keeps its range; the index stays on the wheel.
TimerTypeOK ==
  /\ now \in 0 .. MaxNow
  /\ last_run_time \in Nat /\ next_run_time \in Nat
  /\ pre_bucket_index \in Buckets
  /\ poll \in {"idle", "turn", "drain"}
  /\ nticks \in Nat /\ ret_cnt \in Nat
  /\ slot \in [Timer -> Places]
  /\ safe_clib_time \in [Timer -> Nat]
  /\ state \in [Timer -> {"new", "armed", "stopping", "stopped", "zeroed",
                          "fired", "dropped"}]
  /\ checked \in [Timer -> Nat]
  /\ due \in [Timer -> Nat]

\* A stop that found the clock before safe_clib_time clears a slot that is
\* still in its bucket: never one in a chunk that is being fired or was freed.
StopInTime == \A t \in Timer : state[t] = "stopping" => slot[t] \in Buckets

\* No timer expires before its time: its slot leaves the bucket only when the
\* clock has reached the tick count that was asked for, counted from the time
\* of the wheel, around the wheel's end and for a full turn of MAX_TICKS too.
NotEarly ==
  \A t \in Timer :
    slot[t] = Expired \/ state[t] \in {"fired", "dropped"} => due[t] <= now

\* No timer is passed over: a slot that is still in a bucket is due after the
\* time to which the wheel has been turned, however far one poll turned it.
NotPassedOver == \A t \in Timer : slot[t] \in Buckets => last_run_time < due[t]

\* Timers leave the wheel when they are due: none before, and none is left behind
\* in a bucket the wheel has passed, however late it is polled.
OnTime == TimerTypeOK /\ NotEarly /\ NotPassedOver

\* A timer that nobody stops fires, as long as there is time left for it (two
\* more ticks for the poll to come round), whatever a poll leaves on its list.
AllFire ==
  \A t \in Timer :
    state[t] \in {"armed", "stopping"} /\ due[t] + 2 * Unit <= MaxNow
      ~> state[t] \in {"fired", "stopped", "dropped"}
-----------------------------------------------------------------------------
(* The inductive invariant behind the safety properties                    *)

\* The wheel never runs ahead of the clock.
WheelInv ==
  /\ last_run_time + nticks * Unit <= now
  /\ poll # "turn" => nticks = 0

\* A timer that is waited for has a slot; how far the slot is from the current
\* bucket says when the timer is due.
SlotInv ==
  \A t \in Timer :
    /\ slot[t] \in Buckets =>
         \E k \in 1 .. MAX_TICKS :
           /\ slot[t] = Masked(pre_bucket_index + k)
           /\ due[t] = last_run_time + k * Unit
    /\ state[t] \in {"armed", "stopping", "zeroed"} => slot[t] # Nowhere
    /\ slot[t] # Nowhere => state[t] \notin {"new", "fired", "dropped"}
    /\ slot[t] = Expired \/ state[t] \in {"fired", "dropped"}
         => due[t] <= now

\* A stop in progress has the time that safe_clib_time left it.
StopInv ==
  \A t \in Timer :
    /\ state[t] \in {"armed", "stopping"}
         => safe_clib_time[t] = due[t] - 2 * Unit
    /\ state[t] = "stopping" =>
         /\ now - checked[t] <= StopDelay
         /\ checked[t] < safe_clib_time[t]

\* The inductive invariant: no timer that is waited for loses its slot, and
\* slots, clock and stops agree on when each timer is due.
TimerIInv == TimerTypeOK /\ WheelInv /\ SlotInv /\ StopInv
=============================================================================
