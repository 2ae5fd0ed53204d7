------------------------- MODULE TimeConversionProofs -------------------------
(***************************************************************************)
(* Proofs about TimeConversion for every width W of the integers and every *)
(* number NS of ticks per second, in debug and in release builds.          *)
(***************************************************************************)
EXTENDS TimeConversion, TLAPS

ReplyType == [sec : MinSec..MaxSec, nsec : (1 - NS)..(NS - 1)]

\* The facts about the constants the arithmetic needs.
LEMMA Constants ==
    /\ Half \in Nat \ {0}
    /\ NS \in Nat \ {0}
    /\ Mod = 2 * Half
    /\ MinSec = -Half
    /\ MaxSec = Half - 1
    /\ Times = (-Half * NS)..(Half * NS - 1)
BY TimeAssumption DEF Mod, MinSec, MaxSec, Times

\* as i64 of a u64 below 2^(W-1) is the same number, and of 2^(W-1) the least i64.
LEMMA AsI64Small ==
    ASSUME NEW x \in 0..Half
    PROVE  AsI64(x) = IF x = Half THEN -Half ELSE x
<1>1. Half \in Nat \ {0} /\ Mod = 2 * Half
  BY Constants
<1>2. CASE x < Half
  <2>1. (x + Half) % Mod = x + Half
    BY <1>1, <1>2
  <2>. QED  BY <1>1, <2>1, <1>2 DEF AsI64
<1>3. CASE x = Half
  <2>1. (x + Half) % Mod = 0
    BY <1>1, <1>3
  <2>. QED  BY <1>1, <2>1, <1>3 DEF AsI64
<1>. QED  BY <1>1, <1>2, <1>3

\* The quotient and remainder of a time by NS.
LEMMA Split ==
    ASSUME NEW e \in 0..(Half * NS)
    PROVE  /\ e \div NS \in 0..Half
           /\ e % NS \in 0..(NS - 1)
           /\ e = (e \div NS) * NS + (e % NS)
           /\ e < Half * NS => e \div NS < Half
<1>1. Half \in Nat \ {0} /\ NS \in Nat \ {0}
  BY Constants
<1>2. e = (e \div NS) * NS + (e % NS) /\ e % NS \in 0..(NS - 1)
  BY <1>1
<1>3. e \div NS \in Nat
  BY <1>1
<1>4. (e \div NS) * NS <= Half * NS
  BY <1>1, <1>2
<1>5. e \div NS <= Half
  BY <1>1, <1>3, <1>4
<1>6. e < Half * NS => (e \div NS) * NS < Half * NS
  BY <1>1, <1>2
<1>7. e < Half * NS => e \div NS < Half
  BY <1>1, <1>3, <1>6
<1>. QED  BY <1>2, <1>3, <1>5, <1>7

\* Negating a quotient-and-remainder split.
LEMMA NegatedSplit ==
    ASSUME NEW a \in Int, NEW b \in Int, NEW c \in Int, NEW d \in Int, NEW u \in Int,
           d = a * b + c, d = -u
    PROVE  (-a) * b + (-c) = u
OBVIOUS

\* The time before the epoch that a distance e to it stands for.
LEMMA NegatedDistance ==
    ASSUME NEW e \in 0..(Half * NS), NEW u \in Int, e = -u
    PROVE  (-(e \div NS)) * NS + (-(e % NS)) = u
<1>1. Half \in Nat \ {0} /\ NS \in Nat \ {0}
  BY Constants
<1>2. e = (e \div NS) * NS + (e % NS) /\ e \div NS \in Int /\ e % NS \in Int
  BY <1>1, Split
<1>. QED  BY <1>1, <1>2, NegatedSplit

(***************************************************************************)
(* to_timespec, when it does not panic, returns a Timespec of the replied  *)
(* type that stands for exactly the time it was given.                     *)
(***************************************************************************)
LEMMA ToTimespecExact ==
    ASSUME NEW t \in Times, ToTimespec(t) # Panic
    PROVE  /\ ToTimespec(t) \in ReplyType
           /\ ToTicks(ToTimespec(t)) = t
<1>1. /\ Half \in Nat \ {0} /\ NS \in Nat \ {0}
      /\ MinSec = -Half /\ MaxSec = Half - 1
      /\ t \in (-Half * NS)..(Half * NS - 1)
  BY Constants
<1>2. CASE t >= Epoch
  <2>1. t \in 0..(Half * NS) /\ t < Half * NS
    BY <1>1, <1>2 DEF Epoch
  <2>2. /\ t \div NS \in 0..(Half - 1)
        /\ t % NS \in 0..(NS - 1)
        /\ t = (t \div NS) * NS + (t % NS)
    BY <1>1, <2>1, Split
  <2>3. AsI64(t \div NS) = t \div NS
    BY <1>1, <2>2, AsI64Small
  <2>4. ToTimespec(t) = [sec |-> t \div NS, nsec |-> t % NS]
    BY <1>1, <1>2, <2>3 DEF ToTimespec, Epoch
  <2>. QED  BY <1>1, <2>2, <2>4 DEF ReplyType, ToTicks
<1>3. CASE t < Epoch
  <2>. DEFINE e == Epoch - t
              q == e \div NS
              r == e % NS
  <2>1. e \in 0..(Half * NS) /\ e = -t
    BY <1>1, <1>3 DEF Epoch
  <2>2. q \in 0..Half /\ r \in 0..(NS - 1) /\ e = q * NS + r
    BY <1>1, <2>1, Split
  <2>3. AsI64(q) = IF q = Half THEN -Half ELSE q
    BY <1>1, <2>2, AsI64Small
  <2>4. Neg(AsI64(q)) # Panic
    BY <1>1, <1>3 DEF ToTimespec, Epoch
  <2>5. Neg(AsI64(q)) = -q
    <3>1. CASE q = Half
      <4>1. AsI64(q) = MinSec
        BY <1>1, <2>3, <3>1
      <4>2. Neg(AsI64(q)) = Overflowing(MinSec)
        BY <4>1 DEF Neg
      <4>3. Overflowing(MinSec) = MinSec
        BY <2>4, <4>2 DEF Overflowing
      <4>. QED  BY <1>1, <3>1, <4>1, <4>2, <4>3
    <3>2. CASE q # Half
      <4>1. AsI64(q) = q /\ q # MinSec
        BY <1>1, <2>2, <2>3, <3>2
      <4>. QED  BY <4>1 DEF Neg
    <3>. QED  BY <3>1, <3>2
  <2>6. ToTimespec(t) = [sec |-> -q, nsec |-> -r]
    BY <1>1, <1>3, <2>4, <2>5 DEF ToTimespec, Epoch
  <2>7. -q \in MinSec..MaxSec /\ -r \in (1 - NS)..(NS - 1)
    BY <1>1, <2>2
  <2>8. ToTicks(ToTimespec(t)) = (-q) * NS + (-r)
    BY <2>6 DEF ToTicks
  <2>9. (-q) * NS + (-r) = t
    BY <1>1, <2>1, NegatedDistance
  <2>. QED  BY <2>6, <2>7, <2>8, <2>9 DEF ReplyType
<1>. QED  BY <1>1, <1>2, <1>3 DEF Epoch

\* SystemTime + Duration and SystemTime - Duration give a time or panic.
LEMMA DurationResult ==
    ASSUME NEW t, NEW d
    PROVE  /\ AddDur(t, d) \in Times \cup {Panic}
           /\ SubDur(t, d) \in Times \cup {Panic}
BY DEF AddDur, SubDur

LEMMA ConversionResults ==
    /\ \A secs \in MinSec..MaxSec, nsec \in 0..(NS - 1) :
          UnixFileTime(secs, nsec) \in Times \cup {Panic}
    /\ \A ts \in KernelTimes : ToSystemTime(ts) \in Times \cup {Panic}
BY DurationResult DEF UnixFileTime, ToSystemTime

-----------------------------------------------------------------------------
\* The inductive invariant: the type, and the replied Timespec being exact.
IInv == TypeOK /\ ReplyExact

LEMMA InitIInv == Init => IInv
<1>1. NoReply \notin ReplyType
  BY Constants DEF NoReply, ReplyType
<1>. QED  BY <1>1 DEF Init, IInv, TypeOK, ReplyExact

LEMMA NextIInv == IInv /\ [Next]_vars => IInv'
<1> SUFFICES ASSUME IInv, [Next]_vars PROVE IInv'
  OBVIOUS
<1>1. ASSUME NEW secs \in MinSec..MaxSec, NEW nsec \in 0..(NS - 1), FromFile(secs, nsec)
      PROVE  IInv'
  <2>1. UnixFileTime(secs, nsec) \in Times \cup {Panic}
    BY ConversionResults
  <2>. QED  BY <1>1, <2>1 DEF FromFile, IInv, TypeOK, ReplyExact
<1>2. ASSUME NEW ts \in KernelTimes, SetAttr(ts)
      PROVE  IInv'
  <2>1. ToSystemTime(ts) \in Times \cup {Panic}
    BY ConversionResults
  <2>. QED  BY <1>2, <2>1 DEF SetAttr, IInv, TypeOK, ReplyExact
<1>3. CASE GetAttr
  <2>1. CASE ToTimespec(time) = Panic
    BY <1>3, <2>1 DEF GetAttr, IInv, TypeOK, ReplyExact
  <2>2. CASE ToTimespec(time) # Panic
    <3>1. time \in Times
      BY DEF IInv, TypeOK
    <3>2. ToTimespec(time) \in ReplyType /\ ToTicks(ToTimespec(time)) = time
      BY <3>1, <2>2, ToTimespecExact
    <3>3. reply' = ToTimespec(time) /\ UNCHANGED <<time, setTo, panicked>>
      BY <1>3, <2>2 DEF GetAttr
    <3>. QED  BY <3>2, <3>3 DEF IInv, TypeOK, ReplyExact, ReplyType
  <2>. QED  BY <2>1, <2>2
<1>4. CASE UNCHANGED vars
  BY <1>4 DEF vars, IInv, TypeOK, ReplyExact
<1>. QED  BY <1>1, <1>2, <1>3, <1>4 DEF Next

(***************************************************************************)
(* Every Timespec getattr replies stands for the entry's time, in every    *)
(* build and for every width: to_timespec's handling of times before the   *)
(* epoch, down to the least i64, is exact.                                 *)
(***************************************************************************)
THEOREM ReplyAlwaysExact == Spec => []ReplyExact
<1>1. Init => IInv
  BY InitIInv
<1>2. IInv /\ [Next]_vars => IInv'
  BY NextIInv
<1>3. IInv => ReplyExact
  BY DEF IInv
<1>. QED  BY <1>1, <1>2, <1>3, PTL DEF Spec

(***************************************************************************)
(* The entry's time is always a SystemTime, and every replied Timespec has *)
(* seconds within i64 and nanoseconds below a second in magnitude.         *)
(***************************************************************************)
THEOREM TypeCorrect == Spec => []TypeOK
<1>1. Init => IInv
  BY InitIInv
<1>2. IInv /\ [Next]_vars => IInv'
  BY NextIInv
<1>3. IInv => TypeOK
  BY DEF IInv
<1>. QED  BY <1>1, <1>2, <1>3, PTL DEF Spec
=============================================================================
