--------------------------- MODULE TimeConversion ---------------------------
(***************************************************************************)
(* The conversions between file times that acid-store makes:              *)
(*   unix_file_time (src/src/repo/file/metadata.rs), which turns the       *)
(*     (st_*time, st_*time_nsec) of a stat into a SystemTime when a file's *)
(*     UnixMetadata is read;                                               *)
(*   to_system_time and to_timespec (src/src/repo/file/fuse/fs.rs), which  *)
(*     turn the kernel's Timespec of setattr into the SystemTime kept in   *)
(*     the entry's metadata and back into the Timespec getattr replies.    *)
(* Around them, one entry's time as the FileRepo keeps it, set by reading  *)
(* a file's metadata or by setattr, and read by getattr.                   *)
(*                                                                         *)
(* Data abstraction.  A time counts ticks: NS ticks make a second (a tick  *)
(* stands for a nanosecond).  Seconds are integers of W bits where the     *)
(* code has i64 or u64, so a cast wraps modulo 2^W and a SystemTime, whose *)
(* seconds are an i64, holds MinSec .. MaxSec seconds.  Adding a Duration  *)
(* to or taking one from a SystemTime panics when the result falls out of  *)
(* that range (checked_add(..).expect), as does Duration::new when its     *)
(* seconds overflow.  abs and unary minus of the least i64 panic in a      *)
(* debug build and wrap in a release build (DebugBuild).                   *)
(***************************************************************************)
EXTENDS Integers

CONSTANTS
    W,           \* the bits of an i64 or u64
    NS,          \* ticks per second (nanoseconds per second)
    DebugBuild,  \* whether integer overflow panics (debug) or wraps (release)
    Panic        \* the result of a conversion that panics

Half == 2^(W - 1)

Mod == 2 * Half

MinSec == -Half

MaxSec == Half - 1

ASSUME TimeAssumption ==
    /\ W \in Nat \ {0}
    /\ Half \in Nat \ {0}
    /\ NS \in Nat \ {0}
    /\ DebugBuild \in BOOLEAN
    /\ Panic \notin Int
    /\ Panic \notin [sec : Int, nsec : Int]

\* The ticks a SystemTime can hold: an i64 of seconds and the ticks below one.
Times == (MinSec * NS)..(MaxSec * NS + NS - 1)

\* A Timespec the kernel passes: an i64 of seconds and 0 <= nsec < NS.
KernelTimes == [sec : MinSec..MaxSec, nsec : 0..(NS - 1)]

\* x as u64, for an i64 x.
AsU64(x) == x % Mod

\* x as i64, for a u64 x.
AsI64(x) == ((x + Half) % Mod) - Half

\* i64::abs and unary minus: the least i64 overflows.
Overflowing(x) == IF DebugBuild THEN Panic ELSE x

Abs(x) == CASE x = MinSec -> Overflowing(x)
            [] x < 0      -> -x
            [] OTHER      -> x

Neg(x) == IF x = MinSec THEN Overflowing(x) ELSE -x

\* SystemTime + Duration and SystemTime - Duration.
AddDur(t, d) == IF t = Panic \/ d = Panic \/ t + d \notin Times THEN Panic ELSE t + d

SubDur(t, d) == IF t = Panic \/ d = Panic \/ t - d \notin Times THEN Panic ELSE t - d

\* Duration::new(secs, nanos): the nanos carry into the u64 seconds.
DurationNew(secs, nanos) ==
    IF secs + nanos \div NS >= Mod THEN Panic ELSE secs * NS + nanos

Epoch == 0

-----------------------------------------------------------------------------
\* unix_file_time(secs, nsec)
UnixFileTime(secs, nsec) ==
    LET fileTime == IF secs > 0 THEN AddDur(Epoch, AsU64(secs) * NS)
                                ELSE SubDur(Epoch, AsU64(secs) * NS)
    IN  IF nsec > 0 THEN AddDur(fileTime, AsU64(nsec))
                    ELSE SubDur(fileTime, AsU64(nsec))

\* to_system_time(time)
ToSystemTime(ts) ==
    LET secs == Abs(ts.sec)
        duration == IF secs = Panic THEN Panic
                    ELSE DurationNew(AsU64(secs), IF ts.nsec < 0 THEN -ts.nsec ELSE ts.nsec)
    IN  IF ts.sec > 0 THEN AddDur(Epoch, duration) ELSE SubDur(Epoch, duration)

\* Mutant: the Err branch keeps the sub-second nanoseconds positive.
ToTimespecPositiveNsec(t) ==
    IF t >= Epoch
    THEN [sec |-> AsI64(t \div NS), nsec |-> t % NS]
    ELSE LET sec == Neg(AsI64((Epoch - t) \div NS))
         IN  IF sec = Panic THEN Panic ELSE [sec |-> sec, nsec |-> (Epoch - t) % NS]

\* Mutant: the Ok branch takes as_nanos (all of the duration) for nsec.
ToTimespecAsNanos(t) ==
    IF t >= Epoch
    THEN [sec |-> AsI64(t \div NS), nsec |-> t]
    ELSE LET sec == Neg(AsI64((Epoch - t) \div NS))
         IN  IF sec = Panic THEN Panic ELSE [sec |-> sec, nsec |-> -((Epoch - t) % NS)]

\* to_timespec(time): duration_since(UNIX_EPOCH) is Ok from the epoch on,
\* and an Err holding the distance to the epoch before it.
ToTimespec(t) ==
    IF t >= Epoch
    THEN [sec |-> AsI64(t \div NS), nsec |-> t % NS]
    ELSE LET sec == Neg(AsI64((Epoch - t) \div NS))
         IN  IF sec = Panic THEN Panic ELSE [sec |-> sec, nsec |-> -((Epoch - t) % NS)]

\* The time a Timespec stands for.
ToTicks(ts) == ts.sec * NS + ts.nsec

-----------------------------------------------------------------------------
VARIABLES
    time,      \* the entry's time in its UnixMetadata (a SystemTime)
    reply,     \* the Timespec the last getattr replied, or NoReply
    setTo,     \* the Timespec of the last setattr, or NoReply
    panicked   \* whether a conversion panicked

vars == <<time, reply, setTo, panicked>>

NoReply == [sec |-> 0, nsec |-> NS]

\* default_metadata stamps a new entry with SystemTime::now(), any time.
Init ==
    /\ time \in Times
    /\ reply = NoReply
    /\ setTo = NoReply
    /\ panicked = FALSE

\* UnixMetadata::from_file on a file whose stat holds (secs, nsec).
FromFile(secs, nsec) ==
    LET t == UnixFileTime(secs, nsec) IN
    /\ ~panicked
    /\ IF t = Panic
       THEN panicked' = TRUE /\ UNCHANGED <<time, reply, setTo>>
       ELSE time' = t /\ reply' = NoReply /\ setTo' = NoReply /\ UNCHANGED panicked

\* setattr with an atime: metadata.accessed = to_system_time(atime).
SetAttr(ts) ==
    LET t == ToSystemTime(ts) IN
    /\ ~panicked
    /\ IF t = Panic
       THEN panicked' = TRUE /\ UNCHANGED <<time, reply, setTo>>
       ELSE time' = t /\ reply' = NoReply /\ setTo' = ts /\ UNCHANGED panicked

\* getattr: entry_attr replies atime: to_timespec(metadata.accessed).
GetAttr ==
    LET r == ToTimespec(time) IN
    /\ ~panicked
    /\ IF r = Panic
       THEN panicked' = TRUE /\ UNCHANGED <<time, reply, setTo>>
       ELSE reply' = r /\ UNCHANGED <<time, setTo, panicked>>

Next ==
    \/ \E secs \in MinSec..MaxSec, nsec \in 0..(NS - 1) : FromFile(secs, nsec)
    \/ \E ts \in KernelTimes : SetAttr(ts)
    \/ GetAttr

Spec == Init /\ [][Next]_vars

-----------------------------------------------------------------------------
TypeOK ==
    /\ time \in Times
    /\ reply \in [sec : MinSec..MaxSec, nsec : (1 - NS)..(NS - 1)] \cup {NoReply}
    /\ setTo \in KernelTimes \cup {NoReply}
    /\ panicked \in BOOLEAN

(***************************************************************************)
(* The Timespec getattr replies stands for the time the entry holds:       *)
(* to_timespec keeps the sign of the seconds and of the nanoseconds        *)
(* together on both sides of the epoch, down to the least i64.             *)
(***************************************************************************)
ReplyExact == reply # NoReply => ToTicks(reply) = time

(***************************************************************************)
(* A time set with setattr reads back unchanged with getattr (utimensat    *)
(* then stat), for every Timespec the kernel may pass.                     *)
(***************************************************************************)
SetAttrRoundTrip == setTo # NoReply /\ reply # NoReply => reply = setTo

=============================================================================
