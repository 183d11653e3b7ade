----------------------------- MODULE RateLimiter -----------------------------
(***************************************************************************)
(* Throttling of failed logins and of client registrations: per source     *)
(* address, per user name and globally, over a sliding window, in a table  *)
(* of at most MaxBuckets buckets. Checking and recording are two separate  *)
(* critical sections of the same mutex. What is recorded bears the time    *)
(* read inside the section; the check and the cleanup loop read the clock  *)
(* before they wait for the mutex, so the time `at` they judge by may be   *)
(* any earlier one.                                                        *)
(***************************************************************************)
EXTENDS Integers, Sequences, FiniteSets

CONSTANTS
  Tasks,        \* requests that have passed the check at the same time
  Sources, Users,
  Base,         \* max_failed_logins
  UserFactor, GlobalFactor,   \* 2 and 16 in the code
  Window,       \* login_window
  MaxBuckets,   \* max_login_buckets
  None,
  MaxTime       \* bound of the model: the clock stops here

ASSUME LimitAssumption ==
  /\ Base \in Nat \ {0} /\ UserFactor \in Nat \ {0} /\ GlobalFactor \in Nat \ {0}
  /\ Window \in Nat \ {0} /\ MaxBuckets \in Nat \ {0} /\ MaxTime \in Nat
  /\ IsFiniteSet(Tasks)

Logins        == [use : {"login"}, source : Sources, user : Users]
Registrations == [use : {"dcr"}, source : Sources]
Attempts      == Logins \cup Registrations

Keys == ({"login", "dcr"} \X {"source"} \X Sources)
          \cup ({"login"} \X {"user"} \X Users)
          \cup ({"login", "dcr"} \X {"global"} \X {None})

\* login_rate_limit_keys, registration_rate_limit_keys
KeysOf(a) ==
  IF a.use = "login"
  THEN << <<"login", "source", a.source>>, <<"login", "user", a.user>>,
          <<"login", "global", None>> >>
  ELSE << <<"dcr", "source", a.source>>, <<"dcr", "global", None>> >>

KeySet(a) == {KeysOf(a)[i] : i \in DOMAIN KeysOf(a)}

LimitOf(k) == CASE k[2] = "source" -> Base
                [] k[2] = "user"   -> Base * UserFactor
                [] k[2] = "global" -> Base * GlobalFactor

VARIABLES
  now,
  failed,       \* failed_logins: the times recorded for each key that has a bucket
  stage, job,      \* requests between the check and their outcome
  recorded      \* history: times recorded for a key since its bucket was last
                \* cleared or evicted

limiterVars == <<now, failed, stage, job, recorded>>

NoAttempt == [use |-> "none"]

LimiterInit ==
  /\ now = 1
  /\ failed = << >>
  /\ stage = [t \in Tasks |-> "idle"]
  /\ job = [t \in Tasks |-> NoAttempt]
  /\ recorded = [k \in Keys |-> <<>>]

Tick ==
  /\ now < MaxTime
  /\ now' = now + 1
  /\ UNCHANGED <<failed, stage, job, recorded>>

-----------------------------------------------------------------------------
(* rate_limited *)

\* now.saturating_sub(window), of the time that was read
Cutoff(at) == IF at > Window THEN at - Window ELSE 0

Restricted(f, ks) == [k \in DOMAIN f \cap ks |-> f[k]]

\* pop_front while the front is not later than `last`.
PopFront(times, last) ==
  LET first == CHOOSE i \in 1..(Len(times) + 1) :
                 /\ \A j \in 1..(i - 1) : times[j] <= last
                 /\ i <= Len(times) => times[i] > last
  IN  SubSeq(times, first, Len(times))

InWindow_Inclusive(times, at) == PopFront(times, Cutoff(at) - 1)   \* Mutant: off by one.

InWindow(times, at) == PopFront(times, Cutoff(at))

Limited(k, at) == k \in DOMAIN failed /\ Len(InWindow(failed[k], at)) >= LimitOf(k)

\* any(): keys are looked at in order, up to the first that is limited.
Looked(a, at) ==
  LET ks == KeysOf(a) IN
  {ks[i] : i \in {j \in DOMAIN ks : \A h \in 1..(j - 1) : ~Limited(ks[h], at)}}

\* Looking at a bucket drops what has left the window, and an empty bucket.
Pruned(ks, at) ==
  LET f == [k \in DOMAIN failed |->
              IF k \in ks THEN InWindow(failed[k], at) ELSE failed[k]]
  IN  Restricted(f, {k \in DOMAIN f : f[k] # <<>>})

Rejected(a, at) == \E k \in KeySet(a) : Limited(k, at)

Reject(a, at) ==
  /\ Rejected(a, at)
  /\ failed' = Pruned(Looked(a, at), at)
  /\ UNCHANGED <<now, stage, job, recorded>>

Pass(t, a, at) ==
  /\ stage[t] = "idle"
  /\ ~Rejected(a, at)
  /\ failed' = Pruned(Looked(a, at), at)
  /\ stage' = [stage EXCEPT ![t] = "passed"]
  /\ job' = [job EXCEPT ![t] = a]
  /\ UNCHANGED <<now, recorded>>

\* The cleanup loop looks at every bucket.
Sweep(at) ==
  /\ failed' = Pruned(Keys, at)
  /\ UNCHANGED <<now, stage, job, recorded>>

-----------------------------------------------------------------------------
(* record_rate_event, clear_login_success *)

\* The buckets that may be evicted: those whose first event is the oldest. (The
\* map is iterated in an arbitrary order.)
Oldest(f) == {k \in DOMAIN f : \A h \in DOMAIN f : f[k][1] <= f[h][1]}

Push(f, k) == [h \in DOMAIN f \cup {k} |->
                 IF h # k THEN f[h]
                 ELSE Append(IF k \in DOMAIN f THEN f[k] ELSE <<>>, now)]

RecordOne_Late(f, k) ==   \* Mutant: evicts only when over capacity.
  IF k \notin DOMAIN f /\ Cardinality(DOMAIN f) > MaxBuckets
  THEN {Push(Restricted(f, DOMAIN f \ {o}), k) : o \in Oldest(f)}
  ELSE {Push(f, k)}

RecordOne_Any(f, k) ==   \* Mutant: evicts for a key that has a bucket, too.
  IF Cardinality(DOMAIN f) >= MaxBuckets
  THEN {Push(Restricted(f, DOMAIN f \ {o}), k) : o \in Oldest(f)}
  ELSE {Push(f, k)}

RecordOne(f, k) ==
  IF k \notin DOMAIN f /\ Cardinality(DOMAIN f) >= MaxBuckets
  THEN {Push(Restricted(f, DOMAIN f \ {o}), k) : o \in Oldest(f)}
  ELSE {Push(f, k)}

\* Key after key: a later key may push out an earlier one.
RecordEach(fs, k) == UNION {RecordOne(f, k) : f \in fs}

RecordAll(f, ks) ==
  LET two == RecordEach(RecordOne(f, ks[1]), ks[2])
  IN  IF Len(ks) = 2 THEN two ELSE RecordEach(two, ks[3])

Leave(t) ==
  /\ stage' = [stage EXCEPT ![t] = "idle"]
  /\ job' = [job EXCEPT ![t] = NoAttempt]

\* The password is wrong; or a registration, right or wrong, is attempted.
Record(t) ==
  /\ stage[t] = "passed"
  /\ failed' \in RecordAll(failed, KeysOf(job[t]))
  /\ recorded' = [k \in Keys |->
                    IF k \notin DOMAIN failed' THEN <<>>
                    ELSE IF k \notin KeySet(job[t]) THEN recorded[k]
                    ELSE Append(IF failed'[k] = <<now>> THEN <<>>
                                ELSE recorded[k], now)]
  /\ Leave(t)
  /\ UNCHANGED now

\* The login succeeds: only the global bucket keeps its count.
Cleared(t) == {k \in KeySet(job[t]) : k[2] # "global"}

Succeed(t) ==
  /\ stage[t] = "passed"
  /\ job[t].use = "login"
  /\ failed' = Restricted(failed, DOMAIN failed \ Cleared(t))
  /\ recorded' = [k \in Keys |-> IF k \in Cleared(t) THEN <<>> ELSE recorded[k]]
  /\ Leave(t)
  /\ UNCHANGED now

\* The client goes away before its attempt is recorded.
Abandon(t) ==
  /\ stage[t] = "passed"
  /\ Leave(t)
  /\ UNCHANGED <<now, failed, recorded>>

LimiterNext ==
  \/ Tick
  \/ \E at \in 1..now :
       \/ Sweep(at)
       \/ \E a \in Attempts : Reject(a, at) \/ \E t \in Tasks : Pass(t, a, at)
  \/ \E t \in Tasks : Record(t) \/ Succeed(t) \/ Abandon(t)

LimiterSpec == LimiterInit /\ [][LimiterNext]_limiterVars
-----------------------------------------------------------------------------
(* Properties *)

\* Types; the table is bounded, and so is each bucket: requests that pass the check
\* together can exceed a limit only by their own number, less one.
LimiterTypeOK ==
  /\ now \in Nat \ {0}
  /\ DOMAIN failed \subseteq Keys /\ Cardinality(DOMAIN failed) <= MaxBuckets
  /\ \A k \in DOMAIN failed :
       /\ failed[k] \in Seq(1..now) \ {<<>>}
       /\ Len(failed[k])
            + Cardinality({t \in Tasks : stage[t] = "passed" /\ k \in KeySet(job[t])})
          <= LimitOf(k) - 1 + Cardinality(Tasks)
  /\ stage \in [Tasks -> {"idle", "passed"}]
  /\ job \in [Tasks -> Attempts \cup {NoAttempt}]
  /\ recorded \in [Keys -> Seq(1..now)]

\* The events since Window seconds before the time `at`.
Recent(k, at) ==
  Cardinality({i \in DOMAIN recorded[k] : at - recorded[k][i] < Window})

\* Pruning is invisible: an attempt is rejected if one of its keys has reached its
\* limit within the last Window seconds, counting from the last successful login or
\* eviction, however old the time the check judges by, and whatever other checks and
\* sweeps, with older or later times, have dropped; and it is rejected only if one
\* has reached it within Window seconds of that time. Nobody is locked out for
\* longer, rejected attempts do not extend a lockout, and no pruned event was due.
ThrottleIsExact ==
  \A a \in Attempts, at \in 1..now :
    /\ (\E k \in KeySet(a) : Recent(k, now) >= LimitOf(k)) => Rejected(a, at)
    /\ Rejected(a, at) => \E k \in KeySet(a) : Recent(k, at) >= LimitOf(k)

\* A bucket with events in the window disappears only for a successful login,
\* which never clears a global one, or because the table is full; then no bucket
\* that stays is older.
BucketsLeaveOnlyFor ==
  [][\A k \in DOMAIN failed \ DOMAIN failed' :
       \/ InWindow(failed[k], now) = <<>>
       \/ k[2] # "global" /\ \E t \in Tasks : stage[t] = "passed" /\ stage'[t] = "idle"
                                              /\ k \in Cleared(t)
       \/ /\ Cardinality(DOMAIN failed') = MaxBuckets
          /\ DOMAIN failed' \ DOMAIN failed # {}
          /\ \A h \in DOMAIN failed' : failed[k][1] <= failed'[h][1]]_limiterVars
=============================================================================
