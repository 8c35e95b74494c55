--------------------------- MODULE MessageThrottle ---------------------------
(***************************************************************************)
(* MessageThrottle.wait (twitch_connector/throttle.py): a caller returns   *)
(* only when at most WindowLimit messages, its own included, were let      *)
(* through in any WindowSeconds, and its channel had none for Interval     *)
(* seconds.  The connector calls it from the one thread that consumes; the *)
(* model lets Thread share it, as _send_lock is there for: each looks at   *)
(* the state under the lock and sleeps outside it.  Time is the monotonic  *)
(* clock in whole units; it is read twice under the lock, once to decide   *)
(* and once for the record, and may advance in between.                    *)
(***************************************************************************)
EXTENDS Integers, Sequences

CONSTANTS Thread, PacedChannel,
          WindowLimit, WindowSeconds, Interval,
          MaxClock,    \* bound on the clock
          MaxSends     \* bound on the number of messages let through

ASSUME ThrottleAssumption ==
    /\ WindowLimit \in Nat \ {0}
    /\ WindowSeconds \in Nat
    /\ Interval \in Nat
    /\ MaxClock \in Nat
    /\ MaxSends \in Nat

VARIABLES
    clock,       \* time.monotonic()
    timestamps,  \* _send_timestamps
    last,        \* _channel_last_sent: [PacedChannel -> time, or Never]
    place,          \* [Thread -> "out" | "asleep" | "granting"]
    channel,     \* [Thread -> the channel it waits for]
    wake,        \* [Thread -> when its time.sleep returns]
    sent         \* history: every message let through, in order

throttleVars == << clock, timestamps, last, place, channel, wake, sent >>

Never == -1

ThrottleInit ==
    /\ clock = 0
    /\ timestamps = << >>
    /\ last = [ch \in PacedChannel |-> Never]
    /\ place = [t \in Thread |-> "out"]
    /\ channel \in [Thread -> PacedChannel]
    /\ wake = [t \in Thread |-> 0]
    /\ sent = << >>

\* Mutant: the decision is made without _send_lock.
NeverLocked == FALSE

Locked == \E t \in Thread : place[t] = "granting"

\* send() calls wait() for a channel; the first look at the state is due now.
Call(t, ch) ==
    /\ place[t] = "out"
    /\ Len(sent) < MaxSends
    /\ place' = [place EXCEPT ![t] = "asleep"]
    /\ channel' = [channel EXCEPT ![t] = ch]
    /\ wake' = [wake EXCEPT ![t] = clock]
    /\ UNCHANGED << clock, timestamps, last, sent >>

\* The popleft loop drops the entries that have left the window, from the
\* front, up to the first that has not: n of them.
Expired(i) == clock - timestamps[i] >= WindowSeconds

Pops(n) ==
    /\ \A i \in 1 .. n : Expired(i)
    /\ n < Len(timestamps) => ~Expired(n + 1)

\* Mutant: the wait is for the newest entry to leave.
WindowDueNewest(kept) ==
    IF Len(kept) >= WindowLimit THEN kept[Len(kept)] + WindowSeconds ELSE clock

\* The moments the caller may have to wait for: the oldest entry leaving a
\* full window, the end of the channel's interval.
WindowDue(kept) ==
    IF Len(kept) >= WindowLimit THEN kept[1] + WindowSeconds ELSE clock

ChannelDue(ch) == IF last[ch] = Never THEN clock ELSE last[ch] + Interval

Later(x, y) == IF x >= y THEN x ELSE y

\* One pass of the loop body up to the decision, under the lock.
Look(t) ==
    /\ place[t] = "asleep"
    /\ clock >= wake[t]
    /\ ~Locked
    /\ \E n \in 0 .. Len(timestamps) :
        LET kept == SubSeq(timestamps, n + 1, Len(timestamps))
            due  == Later(WindowDue(kept), ChannelDue(channel[t]))
        IN  /\ Pops(n)
            /\ timestamps' = kept
            /\ \/ /\ due <= clock
                  /\ place' = [place EXCEPT ![t] = "granting"]
                  /\ UNCHANGED wake
               \/ /\ due > clock
                  /\ wake' = [wake EXCEPT ![t] = due]
                  /\ UNCHANGED place
    /\ UNCHANGED << clock, last, channel, sent >>

\* Still under the lock: sent_at = time.monotonic() again, and return.
Grant(t) ==
    /\ place[t] = "granting"
    /\ timestamps' = Append(timestamps, clock)
    /\ last' = [last EXCEPT ![channel[t]] = clock]
    /\ sent' = Append(sent, [at |-> clock, ch |-> channel[t]])
    /\ place' = [place EXCEPT ![t] = "out"]
    /\ UNCHANGED << clock, channel, wake >>

Tick ==
    /\ clock < MaxClock
    /\ clock' = clock + 1
    /\ UNCHANGED << timestamps, last, place, channel, wake, sent >>

ThrottleNext ==
    \/ \E t \in Thread, ch \in PacedChannel : Call(t, ch)
    \/ \E t \in Thread : Look(t) \/ Grant(t)
    \/ Tick

ThrottleSpec == ThrottleInit /\ [][ThrottleNext]_throttleVars

-----------------------------------------------------------------------------
(* Properties *)

Time == Nat

ThrottleTypeOK ==
    /\ clock \in Time
    /\ timestamps \in Seq(Time)
    /\ last \in [PacedChannel -> Time \cup {Never}]
    /\ place \in [Thread -> {"out", "asleep", "granting"}]
    /\ channel \in [Thread -> PacedChannel]
    /\ wake \in [Thread -> Time]
    /\ sent \in Seq([at : Time, ch : PacedChannel])

\* No window of WindowSeconds sees more than WindowLimit messages: the message
\* WindowLimit places after another is at least WindowSeconds later.  It holds at
\* the very end of the window (>=) although the deque forgets, what is recorded is a
\* later reading of the clock than what was decided on, and callers may compete.
WindowRespected ==
    \A i \in 1 .. Len(sent) - WindowLimit :
        sent[i + WindowLimit].at - sent[i].at >= WindowSeconds

\* Two messages to one channel are at least Interval apart, whatever was sent
\* to other channels in between.
ChannelSpaced ==
    \A i, j \in DOMAIN sent :
        i < j /\ sent[i].ch = sent[j].ch => sent[j].at - sent[i].at >= Interval

\* Both limits, for every message ever let through (MessageThrottle.wait).
LimitsRespected == WindowRespected /\ ChannelSpaced

\* Nobody sleeps past the first moment its message could go: a pending sleep
\* ends exactly when a message with WindowLimit - 1 successors leaves the
\* window or the interval after a message to the same channel ends.
NoOversleep ==
    \A t \in Thread : place[t] = "asleep" /\ wake[t] > clock =>
        \E i \in DOMAIN sent :
            \/ /\ i + WindowLimit <= Len(sent) + 1
               /\ wake[t] = sent[i].at + WindowSeconds
            \/ /\ sent[i].ch = channel[t]
               /\ wake[t] = sent[i].at + Interval

=============================================================================
