-------------------------- MODULE AgentLoop_proofs --------------------------
(* Theorems about AgentLoop, for every set of labels, every depth cap and  *)
(* every number of calls a turn may ask for.                               *)
EXTENDS AgentLoop, SequenceTheorems, FiniteSetTheorems, WellFoundedInduction, TLAPS

-----------------------------------------------------------------------------
(* Numbers and sequences.                                                  *)

(* Every non-empty set of naturals has a least element: the intervals that *)
(* end in its members are well-founded under strict inclusion.             *)
LEMMA LeastElement ==
  ASSUME NEW T \in SUBSET Nat, T # {}
  PROVE  \E k \in T : \A i \in T : k <= i
<1> DEFINE Intervals == {0 .. k : k \in T}
<1>1. Intervals \subseteq FiniteSubsetsOf(Nat) /\ Intervals # {}
  <2>1. \A k \in T : IsFiniteSet(0 .. k)
    BY FS_Interval
  <2>2. \A k \in T : 0 .. k \in SUBSET Nat
    OBVIOUS
  <2> QED
    BY <2>1, <2>2 DEF FiniteSubsetsOf
<1>2. PICK I \in Intervals : \A J \in Intervals : <<J, I>> \notin StrictSubsetOrdering(Nat)
  BY <1>1, FS_StrictSubsetOrderingWellFounded, WFMin
<1>3. PICK k \in T : I = 0 .. k
  OBVIOUS
<1>4. ASSUME NEW i \in T, i < k
      PROVE  FALSE
  <2>1. 0 .. i \subseteq 0 .. k /\ k \in 0 .. k /\ k \notin 0 .. i
    BY <1>4
  <2>2. 0 .. i \in SUBSET Nat /\ 0 .. k \in SUBSET Nat /\ 0 .. i # 0 .. k
    BY <2>1
  <2>3. <<0 .. i, I>> \in StrictSubsetOrdering(Nat)
    BY <1>3, <2>1, <2>2, Zenon DEF StrictSubsetOrdering
  <2> QED
    BY <1>2, <2>3
<1> QED
  BY <1>4

(* So Max and Min are what they should be on a set of numbers below n.     *)
LEMMA ExtremesExist ==
  ASSUME NEW n \in Nat, NEW T \in SUBSET (1 .. n), T # {}
  PROVE  /\ Min(T) \in T /\ \A i \in T : Min(T) <= i
         /\ Max(T) \in T /\ \A i \in T : i <= Max(T)
<1>1. \E k \in T : \A i \in T : k <= i
  BY LeastElement
<1>2. \E k \in T : \A i \in T : i <= k
  <2> DEFINE U == {n - i : i \in T}
  <2>1. U \in SUBSET Nat /\ U # {}
    <3>1. \A i \in T : n - i \in Nat
      OBVIOUS
    <3> QED
      BY <3>1
  <2>2. PICK u \in U : \A j \in U : u <= j
    BY <2>1, LeastElement
  <2>3. PICK k \in T : u = n - k
    OBVIOUS
  <2>4. ASSUME NEW i \in T
        PROVE  i <= k
    <3>1. u <= n - i
      BY <2>2
    <3> QED
      BY <2>3, <3>1
  <2> QED
    BY <2>4
<1>3. Min(T) \in T /\ \A i \in T : Min(T) <= i
  BY <1>1 DEF Min
<1>4. Max(T) \in T /\ \A i \in T : i <= Max(T)
  BY <1>2 DEF Max
<1> QED
  BY <1>3, <1>4

(* A sequence without its i-th element. *)
LEMMA RemoveAtProperties ==
  ASSUME NEW S, NEW s \in Seq(S), NEW i \in DOMAIN s
  PROVE  /\ RemoveAt(s, i) \in Seq(S)
         /\ Len(RemoveAt(s, i)) = Len(s) - 1
         /\ \A j \in 1 .. Len(s) - 1 :
              RemoveAt(s, i)[j] = IF j < i THEN s[j] ELSE s[j + 1]
<1> DEFINE front == SubSeq(s, 1, i - 1)
           back  == SubSeq(s, i + 1, Len(s))
<1>1. i \in 1 .. Len(s) /\ Len(s) \in Nat
  BY LenProperties
<1>2. /\ front \in Seq(S) /\ Len(front) = i - 1
      /\ \A j \in 1 .. i - 1 : front[j] = s[j]
  BY <1>1, LenProperties, SubSeqProperties
<1>3. /\ back \in Seq(S) /\ Len(back) = Len(s) - i
      /\ \A j \in 1 .. Len(s) - i : back[j] = s[i + j]
  BY <1>1, LenProperties, SubSeqProperties
<1> HIDE DEF front, back
<1>4. /\ front \o back \in Seq(S) /\ Len(front \o back) = Len(front) + Len(back)
      /\ \A j \in 1 .. Len(front) + Len(back) :
           (front \o back)[j] = IF j <= Len(front) THEN front[j] ELSE back[j - Len(front)]
  BY <1>2, <1>3, ConcatProperties
<1>5. Len(front) + Len(back) = Len(s) - 1
  BY <1>1, <1>2, <1>3
<1>6. ASSUME NEW j \in 1 .. Len(s) - 1
      PROVE  (front \o back)[j] = IF j < i THEN s[j] ELSE s[j + 1]
  <2>1. (front \o back)[j] = IF j <= i - 1 THEN front[j] ELSE back[j - (i - 1)]
    BY <1>2, <1>4, <1>5
  <2>2. CASE j < i
    BY <1>1, <1>2, <2>1, <2>2
  <2>3. CASE ~(j < i)
    <3>1. j - (i - 1) \in 1 .. Len(s) - i /\ i + (j - (i - 1)) = j + 1
      BY <1>1, <2>3
    <3>2. back[j - (i - 1)] = s[j + 1]
      BY <1>3, <3>1
    <3> QED
      BY <1>1, <2>1, <2>3, <3>2
  <2> QED
    BY <2>2, <2>3
<1> QED
  BY <1>4, <1>5, <1>6 DEF RemoveAt, front, back

-----------------------------------------------------------------------------
(* The call stack.                                                         *)

(* A frame of the host or the engine at work; the others wait for what     *)
(* they called to return.                                                  *)
Working == {"turn", "request", "resumed", "groups", "call"}
Resting == {"return", "tick"}

(* Nothing of s is at work. *)
Rests(s) == \A i \in DOMAIN s : s[i].at \in Resting

(* A stack works on a known label in its last frame at most, and lies on a *)
(* tick while a parked tool is still to be timed out.                      *)
StackOK(s) ==
  /\ s \in Seq(Frames)
  /\ \A i \in 1 .. Len(s) - 1 : s[i].at \in Resting
  /\ \A i \in DOMAIN s : s[i].at # "tick" => s[i].key \in asked
  /\ due # {} => s # <<>> /\ s[1].at = "tick"

LEMMA TopIsAFrame ==
  ASSUME StackOK(stack), stack # <<>>
  PROVE  /\ Top \in Frames
         /\ Top.at # "tick" => Top.key \in asked
BY LenProperties, EmptySeq DEF StackOK, Top, Last

(* A stack that rests has nothing at work on its top. *)
LEMMA NothingRuns ==
  ASSUME NEW s \in Seq(Frames), Rests(s)
  PROVE  s = <<>> \/ Last(s).at \in Resting
BY LenProperties, EmptySeq DEF Rests, Last

(* What is left when the top returns. *)
LEMMA Popped ==
  ASSUME StackOK(stack), stack # <<>>, Top.at # "tick" \/ due = {}
  PROVE  StackOK(Front(stack)) /\ Rests(Front(stack))
<1> DEFINE n == Len(stack)
<1>1. stack \in Seq(Frames) /\ n \in Nat \ {0} /\ DOMAIN stack = 1 .. n
  BY LenProperties, EmptySeq DEF StackOK
<1>2. /\ Front(stack) \in Seq(Frames) /\ Len(Front(stack)) = n - 1
      /\ \A i \in 1 .. n - 1 : Front(stack)[i] = stack[i]
  BY <1>1, SubSeqProperties, LenProperties DEF Front
<1>3. DOMAIN Front(stack) = 1 .. n - 1
  BY <1>2, LenProperties
<1>4. Rests(Front(stack))
  BY <1>2, <1>3 DEF StackOK, Rests
<1>5. ASSUME due # {}
      PROVE  Front(stack) # <<>> /\ Front(stack)[1].at = "tick"
  <2>1. stack[1].at = "tick" /\ stack[n].at # "tick"
    BY <1>5 DEF StackOK, Top, Last
  <2>2. n - 1 \in Nat \ {0}
    BY <1>1, <2>1
  <2> QED
    BY <1>2, <2>1, <2>2, EmptySeq
<1> QED
  BY <1>1, <1>2, <1>3, <1>4, <1>5 DEF StackOK, Rests

(* A call on a stack that rests. *)
LEMMA Pushed ==
  ASSUME NEW s, StackOK(s), Rests(s), NEW f \in Frames, f.at # "tick" => f.key \in asked
  PROVE  /\ StackOK(Append(s, f))
         /\ Append(s, f) # <<>> /\ Last(Append(s, f)) = f
         /\ f.at \in Resting => Rests(Append(s, f))
<1> DEFINE t == Append(s, f)
           n == Len(s)
<1>1. s \in Seq(Frames) /\ n \in Nat /\ DOMAIN s = 1 .. n
  BY LenProperties DEF StackOK
<1>2. /\ t \in Seq(Frames) /\ t # <<>> /\ Len(t) = n + 1
      /\ \A i \in 1 .. n : t[i] = s[i]
      /\ t[n + 1] = f
  BY <1>1, AppendProperties
<1>3. DOMAIN t = 1 .. n + 1
  BY <1>2, LenProperties
<1> HIDE DEF t
<1>4. \A i \in 1 .. Len(t) - 1 : t[i].at \in Resting
  BY <1>1, <1>2 DEF Rests
<1>5. \A i \in DOMAIN t : t[i].at # "tick" => t[i].key \in asked
  BY <1>1, <1>2, <1>3 DEF StackOK
<1>6. due # {} => t[1].at = "tick"
  <2>1. due # {} => n \in Nat \ {0}
    BY <1>1, EmptySeq DEF StackOK
  <2> QED
    BY <1>2, <2>1 DEF StackOK
<1>7. f.at \in Resting => Rests(t)
  BY <1>1, <1>2, <1>3 DEF Rests
<1>8. Last(t) = f
  BY <1>2 DEF Last
<1> QED
  BY <1>2, <1>4, <1>5, <1>6, <1>7, <1>8 DEF StackOK, t

-----------------------------------------------------------------------------
(* The parked tools.                                                       *)

(* No call is parked twice. *)
Apart(s) ==
  \A i, j \in DOMAIN s : i # j => <<s[i].key, s[i].call>> # <<s[j].key, s[j].call>>

(* The calls of label k that are parked. *)
Held(s, k) == {s[i].call : i \in {j \in DOMAIN s : s[j].key = k}}

(* An answer takes one parked call away. *)
LEMMA Unparked ==
  ASSUME NEW s \in Seq(Park), Apart(s), NEW i \in DOMAIN s
  PROVE  /\ RemoveAt(s, i) \in Seq(Park) /\ Apart(RemoveAt(s, i))
         /\ ToSet(RemoveAt(s, i)) = ToSet(s) \ {s[i]}
         /\ \A k : Held(RemoveAt(s, i), k)
                     = IF k = s[i].key THEN Held(s, k) \ {s[i].call} ELSE Held(s, k)
<1> DEFINE t == RemoveAt(s, i)
           was(j) == IF j < i THEN j ELSE j + 1
<1>1. Len(s) \in Nat /\ DOMAIN s = 1 .. Len(s) /\ i \in 1 .. Len(s)
  BY LenProperties
<1>2. /\ t \in Seq(Park) /\ Len(t) = Len(s) - 1
      /\ \A j \in 1 .. Len(s) - 1 : t[j] = s[was(j)]
  BY RemoveAtProperties
<1>3. DOMAIN t = 1 .. Len(s) - 1
  BY <1>2, LenProperties
<1> HIDE DEF t
<1>4. \A j \in DOMAIN t : was(j) \in DOMAIN s /\ was(j) # i /\ t[j] = s[was(j)]
  BY <1>1, <1>2, <1>3
<1>5. \A j, k \in DOMAIN t : j # k => was(j) # was(k)
  BY <1>1, <1>3
<1>6. \A h \in DOMAIN s \ {i} : \E j \in DOMAIN t : was(j) = h
  <2> SUFFICES ASSUME NEW h \in DOMAIN s \ {i}
               PROVE  \E j \in DOMAIN t : was(j) = h
    OBVIOUS
  <2>1. CASE h < i
    BY <1>1, <1>3, <2>1
  <2>2. CASE ~(h < i)
    <3>1. h - 1 \in DOMAIN t /\ was(h - 1) = h
      BY <1>1, <1>3, <2>2
    <3> QED
      BY <3>1
  <2> QED
    BY <2>1, <2>2
<1> HIDE DEF was
<1>7. Apart(t)
  BY <1>4, <1>5 DEF Apart
<1>8. \A h \in DOMAIN s \ {i} : <<s[h].key, s[h].call>> # <<s[i].key, s[i].call>>
  BY DEF Apart
<1>9. ToSet(t) = ToSet(s) \ {s[i]}
  BY <1>4, <1>6, <1>8 DEF ToSet
<1>10. ASSUME NEW k
       PROVE  Held(t, k) = IF k = s[i].key THEN Held(s, k) \ {s[i].call} ELSE Held(s, k)
  BY <1>4, <1>6, <1>8 DEF Held
<1> QED
  BY <1>2, <1>7, <1>9, <1>10 DEF t

(* A tool that waits joins the parked ones. *)
LEMMA Parking ==
  ASSUME NEW s \in Seq(Park), Apart(s), NEW p \in Park, p.call \notin Held(s, p.key)
  PROVE  /\ Append(s, p) \in Seq(Park) /\ Apart(Append(s, p))
         /\ ToSet(Append(s, p)) = ToSet(s) \cup {p}
         /\ \A k : Held(Append(s, p), k)
                     = IF k = p.key THEN Held(s, k) \cup {p.call} ELSE Held(s, k)
<1> DEFINE t == Append(s, p)
           n == Len(s)
<1>1. n \in Nat /\ DOMAIN s = 1 .. n
  BY LenProperties
<1>2. /\ t \in Seq(Park) /\ Len(t) = n + 1
      /\ \A i \in 1 .. n : t[i] = s[i]
      /\ t[n + 1] = p
  BY AppendProperties
<1>3. DOMAIN t = DOMAIN s \cup {n + 1} /\ n + 1 \notin DOMAIN s
  BY <1>1, <1>2, LenProperties
<1>4. \A i \in DOMAIN s : t[i] = s[i]
  BY <1>1, <1>2
<1> HIDE DEF t, n
<1>5. \A i \in DOMAIN s : <<s[i].key, s[i].call>> # <<p.key, p.call>>
  BY DEF Held
<1>6. Apart(t)
  BY <1>2, <1>3, <1>4, <1>5 DEF Apart
<1>7. ToSet(t) = ToSet(s) \cup {p}
  BY <1>2, <1>3, <1>4 DEF ToSet
<1>8. ASSUME NEW k
      PROVE  Held(t, k) = IF k = p.key THEN Held(s, k) \cup {p.call} ELSE Held(s, k)
  BY <1>2, <1>3, <1>4 DEF Held
<1> QED
  BY <1>2, <1>6, <1>7, <1>8 DEF t

-----------------------------------------------------------------------------
(* The invariant.                                                          *)

TypeInv ==
  /\ ridOf \in [Keys -> Nat] /\ ridSeq \in Nat
  /\ owner \in Seq(Keys) /\ live \subseteq DOMAIN owner
  /\ calls \in [Keys -> Seq(Kinds)] /\ depth \in [Keys -> 0 .. DepthCap]
  /\ next \in [Keys -> Nat \ {0}] /\ waiting \in [Keys -> SUBSET Nat]
  /\ parked \in Seq(Park) /\ due \subseteq ToSet(parked)
  /\ asked \subseteq Keys /\ cancelled \subseteq Keys
  /\ loops \subseteq Keys /\ late \subseteq Keys
  /\ finals \in [Keys -> Nat] /\ errs \in [Keys -> Nat]

(* Where the loop of label k is: its turn is live in the engine, calls of  *)
(* its turn wait for an answer, or the host is about to start a group or a *)
(* turn of it.                                                             *)
Streams(k) == \E id \in live : owner[id] = k
Waits(k)   == waiting[k] # {}
Starts(k)  == (Running("turn") \/ Running("groups")) /\ Top.key = k
Busy(k)    == Streams(k) \/ Waits(k) \/ Starts(k)

(* The calls of the current group the host has still to run. *)
ToRun(k) == IF Running("call") /\ Top.key = k THEN Top.id .. next[k] - 1 ELSE {}

(* The engine works on a live request of the label, the host on a call of  *)
(* the group.                                                              *)
FrameInv ==
  /\ StackOK(stack)
  /\ InEngine => Top.id \in live /\ owner[Top.id] = Top.key
  /\ Running("call") => Top.id \in 1 .. next[Top.key] - 1

OneTurnEach == \A a, b \in live : a # b => owner[a] # owner[b]

(* A call without an answer is parked, or the host has yet to run it; a    *)
(* mutating one is the only one.                                           *)
CallsOf(k) ==
  /\ waiting[k] = Held(parked, k) \cup ToRun(k)
  /\ Held(parked, k) \cap ToRun(k) = {}
  /\ waiting[k] \subseteq DOMAIN calls[k]
  /\ \A i \in waiting[k] : Mutates(calls[k][i]) => waiting[k] = {i}

(* A loop is in one place at a time. *)
PhaseOf(k) ==
  /\ ~(Streams(k) /\ Waits(k))
  /\ ~(Streams(k) /\ Starts(k))
  /\ ~(Waits(k) /\ Starts(k))

(* Every turn but the first was paid for with a tool round. *)
CountOf(k) ==
  Cardinality(Turns(k)) <= IF Waits(k) \/ Starts(k) THEN depth[k] ELSE depth[k] + 1

(* A loop nobody cancelled is registered while it is somewhere, and has    *)
(* its one terminal event or error when it is nowhere.                     *)
BooksOf(k) ==
  /\ k \notin asked =>
       /\ ~Busy(k) /\ Turns(k) = {} /\ ridOf[k] = 0
       /\ finals[k] = 0 /\ errs[k] = 0 /\ k \notin late
  /\ k \in asked \ cancelled =>
       /\ k \notin late
       /\ k \in loops <=> Busy(k)
       /\ finals[k] + errs[k] = IF Busy(k) THEN 0 ELSE 1

KeyInv(k) == CallsOf(k) /\ PhaseOf(k) /\ CountOf(k) /\ BooksOf(k)

LoopInv ==
  /\ TypeInv /\ FrameInv /\ OneTurnEach /\ Apart(parked)
  /\ \A k \in Keys : KeyInv(k)

-----------------------------------------------------------------------------
(* What the steps share.                                                   *)

(* The step leaves everything of label k as it was. *)
Same(k) ==
  /\ waiting'[k] = waiting[k] /\ calls'[k] = calls[k] /\ depth'[k] = depth[k]
  /\ finals'[k] = finals[k] /\ errs'[k] = errs[k] /\ ridOf'[k] = ridOf[k]
  /\ Held(parked, k)' = Held(parked, k) /\ ToRun(k)' = ToRun(k)
  /\ Turns(k)' = Turns(k)
  /\ Streams(k)' <=> Streams(k)
  /\ Starts(k)' <=> Starts(k)
  /\ k \in late' <=> k \in late
  /\ k \in loops' <=> k \in loops
  /\ k \in asked' <=> k \in asked
  /\ k \in cancelled' <=> k \in cancelled

LEMMA Untouched ==
  ASSUME NEW k \in Keys, KeyInv(k), Same(k)
  PROVE  KeyInv(k)'
BY DEF KeyInv, CallsOf, PhaseOf, CountOf, BooksOf, Busy, Waits, Same

(* The group that starts at next[k] is the run of calls up to its last     *)
(* one, and a mutating call is a group of its own.                         *)
LEMMA GroupIsARun ==
  ASSUME TypeInv, NEW k \in Keys, next[k] <= Len(calls[k])
  PROVE  /\ Max(GroupOf(k)) \in next[k] .. Len(calls[k])
         /\ GroupOf(k) = next[k] .. Max(GroupOf(k))
         /\ GroupOf(k) \subseteq DOMAIN calls[k]
         /\ \A i \in GroupOf(k) : Mutates(calls[k][i]) => GroupOf(k) = {i}
<1> DEFINE first == next[k]
           n == Len(calls[k])
           G == GroupOf(k)
<1>1. first \in Nat \ {0} /\ n \in Nat /\ DOMAIN calls[k] = 1 .. n /\ first <= n
  BY LenProperties DEF TypeInv
<1>2. G \subseteq first .. n /\ first \in G
  BY <1>1 DEF GroupOf
<1>3. \A i \in G : first .. i \subseteq G
  BY <1>1 DEF GroupOf
<1>4. \A i \in G : Mutates(calls[k][i]) => G = {i}
  BY <1>1 DEF GroupOf
<1> HIDE DEF G
<1>5. Max(G) \in G /\ \A i \in G : i <= Max(G)
  <2>1. G \in SUBSET (1 .. n) /\ G # {}
    BY <1>1, <1>2
  <2> QED
    BY <1>1, <2>1, ExtremesExist
<1>6. G = first .. Max(G)
  <2>1. \A i \in G : i \in first .. Max(G)
    BY <1>1, <1>2, <1>5
  <2>2. first .. Max(G) \subseteq G
    BY <1>3, <1>5
  <2> QED
    BY <2>1, <2>2
<1> QED
  BY <1>1, <1>2, <1>4, <1>5, <1>6 DEF G

LEMMA FramesAreFrames ==
  ASSUME NEW at \in Working \cup Resting, NEW k \in Keys \cup {NoKey}, NEW id \in Nat
  PROVE  /\ Frame(at, k, id) \in Frames
         /\ Frame(at, k, id).at = at /\ Frame(at, k, id).key = k /\ Frame(at, k, id).id = id
BY DEF Frame, Frames, Working, Resting

(* The engine's frame gives way to the storing of its return value. *)
LEMMA EngineReturns ==
  ASSUME TypeInv, FrameInv, InEngine
  PROVE  /\ StackOK(Unwound) /\ Rests(Unwound)
         /\ Top.key \in asked /\ Top.key \in Keys /\ Top.id \in live /\ owner[Top.id] = Top.key
<1>1. stack # <<>> /\ Top.at \in {"request", "resumed"} /\ Top.at # "tick"
  BY DEF InEngine, Running
<1>2. Top \in Frames /\ Top.key \in asked
  BY <1>1, TopIsAFrame DEF FrameInv
<1>3. StackOK(Front(stack)) /\ Rests(Front(stack))
  BY <1>1, Popped DEF FrameInv
<1>4. Top.key \in Keys /\ Top.id \in Nat
  BY <1>2 DEF Frames, TypeInv
<1> DEFINE f == Frame("return", Top.key, Top.id)
<1>5. f \in Frames /\ f.at = "return" /\ f.key = Top.key
  <2>1. "return" \in Working \cup Resting
    BY DEF Resting
  <2> QED
    BY <1>4, <2>1, FramesAreFrames
<1> HIDE DEF f
<1>6. StackOK(Append(Front(stack), f)) /\ Rests(Append(Front(stack), f))
  BY <1>2, <1>3, <1>5, Pushed DEF Resting
<1> QED
  BY <1>2, <1>3, <1>4, <1>6 DEF Unwound, f, FrameInv

(* After a call of the group the host runs the next one of it, or none. *)
LEMMA CallReturns ==
  ASSUME TypeInv, FrameInv, Running("call")
  PROVE  /\ Top.key \in asked /\ Top.key \in Keys /\ Top.id \in Nat
         /\ StackOK(NextCall)
         /\ Top.id + 1 = next[Top.key] => Rests(NextCall)
         /\ Top.id + 1 # next[Top.key] =>
              NextCall # <<>> /\ Last(NextCall) = Frame("call", Top.key, Top.id + 1)
<1>1. stack # <<>> /\ Top.at = "call" /\ Top.at # "tick"
  BY DEF Running
<1>2. Top \in Frames /\ Top.key \in asked
  BY <1>1, TopIsAFrame DEF FrameInv
<1>3. StackOK(Front(stack)) /\ Rests(Front(stack))
  BY <1>1, Popped DEF FrameInv
<1>4. Top.key \in Keys /\ Top.id \in Nat /\ Top.id + 1 \in Nat
  BY <1>2 DEF Frames, TypeInv
<1> DEFINE f == Frame("call", Top.key, Top.id + 1)
<1>5. f \in Frames /\ f.key = Top.key
  BY <1>4, FramesAreFrames DEF Working
<1> HIDE DEF f
<1>6. /\ StackOK(Append(Front(stack), f))
      /\ Append(Front(stack), f) # <<>> /\ Last(Append(Front(stack), f)) = f
  BY <1>2, <1>3, <1>5, Pushed
<1> QED
  BY <1>2, <1>3, <1>4, <1>6 DEF NextCall, f

-----------------------------------------------------------------------------
(* The steps of a turn.                                                    *)

(* No loop is about to start and no call is about to run. *)
NothingStarts == \A k \in Keys : ~Starts(k) /\ ToRun(k) = {}

(* A step that starts nothing and leaves every loop where it was may speak *)
(* for one that is at work, give a label its id or add to what a turn asks *)
(* for.                                                                    *)
LEMMA QuietStep ==
  ASSUME LoopInv, NothingStarts, NothingStarts',
         waiting' = waiting /\ parked' = parked /\ owner' = owner /\ live' = live,
         depth' = depth /\ finals' = finals /\ errs' = errs /\ loops' = loops,
         asked' = asked /\ cancelled' = cancelled,
         \A k \in Keys : k \notin asked => ridOf'[k] = ridOf[k],
         \A k \in Keys : calls'[k] = calls[k] \/ ~Waits(k),
         late' = late \/ \E t \in Keys : Busy(t) /\ late' = IsLate(t)
  PROVE  OneTurnEach' /\ Apart(parked)' /\ \A k \in Keys : KeyInv(k)'
<1>1. OneTurnEach /\ Apart(parked) /\ \A k \in Keys : KeyInv(k)
  BY DEF LoopInv
<1>2. OneTurnEach' /\ Apart(parked)'
  BY <1>1 DEF OneTurnEach
<1>3. ASSUME NEW k \in Keys
      PROVE  KeyInv(k)'
  <2>1. CallsOf(k) /\ PhaseOf(k) /\ CountOf(k) /\ BooksOf(k)
    BY <1>1 DEF KeyInv
  <2>2. /\ ~Starts(k) /\ ~Starts(k)' /\ ToRun(k) = {} /\ ToRun(k)' = {}
        /\ (Streams(k)' <=> Streams(k)) /\ (Waits(k)' <=> Waits(k)) /\ Turns(k)' = Turns(k)
    BY DEF NothingStarts, Streams, Waits, Turns
  <2>3. Busy(k)' <=> Busy(k)
    BY <2>2 DEF Busy
  <2>4. CallsOf(k)'
    BY <2>1, <2>2 DEF CallsOf, Waits
  <2>5. PhaseOf(k)'
    BY <2>1, <2>2 DEF PhaseOf
  <2>6. CountOf(k)'
    BY <2>1, <2>2 DEF CountOf
  <2>7. k \notin asked \/ k \in asked \ cancelled => (k \in late' <=> k \in late)
    BY <2>1 DEF BooksOf, IsLate
  <2>8. BooksOf(k)'
    BY <2>1, <2>2, <2>3, <2>7 DEF BooksOf
  <2> QED
    BY <2>4, <2>5, <2>6, <2>8 DEF KeyInv
<1> QED
  BY <1>2, <1>3

(* The engine emits, or takes a tool block, on a live request. *)
LEMMA EngineIsBusy ==
  ASSUME LoopInv, InEngine, NEW t, t = Top.key
  PROVE  /\ t \in Keys /\ Streams(t) /\ Busy(t) /\ ~Waits(t)
         /\ NothingStarts
<1>1. TypeInv /\ FrameInv /\ \A k \in Keys : KeyInv(k)
  BY DEF LoopInv
<1>2. t \in Keys /\ Top.id \in live /\ owner[Top.id] = t
  BY <1>1, EngineReturns
<1>3. Streams(t)
  BY <1>2 DEF Streams
<1>4. ~Waits(t)
  BY <1>1, <1>2, <1>3 DEF KeyInv, PhaseOf
<1>5. NothingStarts
  BY DEF NothingStarts, Starts, ToRun, InEngine, Running
<1> QED
  BY <1>2, <1>3, <1>4, <1>5 DEF Busy

(* A stack that rests starts nothing. *)
LEMMA RestStartsNothing ==
  ASSUME Rests(stack)', StackOK(stack)'
  PROVE  /\ NothingStarts'
         /\ ~InEngine' /\ ~Running("call")'
<1>1. stack' = <<>> \/ Last(stack').at \in Resting
  BY NothingRuns DEF StackOK
<1> QED
  BY <1>1 DEF NothingStarts, Starts, ToRun, InEngine, Running, Top, Resting

LEMMA EmitTokenKeeps ==
  ASSUME LoopInv, EmitToken
  PROVE  LoopInv'
<1>1. PICK t : t = Top.key
  OBVIOUS
<1>2. InEngine /\ late' = IsLate(t)
  BY <1>1 DEF EmitToken
<1>3. t \in Keys /\ Busy(t) /\ NothingStarts
  BY <1>1, <1>2, EngineIsBusy
<1>4. /\ stack' = stack /\ ridOf' = ridOf /\ ridSeq' = ridSeq /\ loops' = loops /\ calls' = calls
      /\ depth' = depth /\ next' = next /\ waiting' = waiting /\ parked' = parked
      /\ due' = due /\ asked' = asked /\ cancelled' = cancelled
      /\ finals' = finals /\ errs' = errs /\ owner' = owner /\ live' = live
  BY DEF EmitToken, idVars, turnVars
<1>5. NothingStarts'
  BY <1>3, <1>4 DEF NothingStarts, Starts, ToRun, Running, Top
<1>6. TypeInv'
  BY <1>2, <1>3, <1>4 DEF LoopInv, TypeInv, IsLate
<1>7. FrameInv'
  BY <1>4 DEF LoopInv, FrameInv, StackOK, InEngine, Running, Top
<1>8. OneTurnEach' /\ Apart(parked)' /\ \A k \in Keys : KeyInv(k)'
  BY <1>2, <1>3, <1>4, <1>5, QuietStep
<1> QED
  BY <1>6, <1>7, <1>8 DEF LoopInv

LEMMA CollectToolKeeps ==
  ASSUME LoopInv, NEW kind \in Kinds, CollectTool(kind)
  PROVE  LoopInv'
<1>1. PICK t : t = Top.key
  OBVIOUS
<1>2. InEngine /\ calls' = [calls EXCEPT ![t] = Append(@, kind)]
  BY <1>1 DEF CollectTool
<1>3. t \in Keys /\ ~Waits(t) /\ NothingStarts
  BY <1>1, <1>2, EngineIsBusy
<1>4. /\ stack' = stack /\ ridOf' = ridOf /\ ridSeq' = ridSeq /\ loops' = loops
      /\ depth' = depth /\ next' = next /\ waiting' = waiting /\ parked' = parked
      /\ due' = due /\ asked' = asked /\ cancelled' = cancelled
      /\ finals' = finals /\ errs' = errs /\ late' = late /\ owner' = owner /\ live' = live
  BY DEF CollectTool, idVars, seenVars
<1>5. NothingStarts'
  BY <1>3, <1>4 DEF NothingStarts, Starts, ToRun, Running, Top
<1>6. TypeInv'
  <2>1. calls \in [Keys -> Seq(Kinds)]
    BY DEF LoopInv, TypeInv
  <2>2. Append(calls[t], kind) \in Seq(Kinds)
    BY <1>3, <2>1, AppendProperties
  <2>3. calls' \in [Keys -> Seq(Kinds)]
    BY <1>2, <2>1, <2>2
  <2> QED
    BY <1>4, <2>3 DEF LoopInv, TypeInv
<1>7. FrameInv'
  BY <1>4 DEF LoopInv, FrameInv, StackOK, InEngine, Running, Top
<1>8. \A k \in Keys : calls'[k] = calls[k] \/ ~Waits(k)
  BY <1>2, <1>3 DEF LoopInv, TypeInv
<1>9. OneTurnEach' /\ Apart(parked)' /\ \A k \in Keys : KeyInv(k)'
  BY <1>3, <1>4, <1>5, <1>8, QuietStep
<1> QED
  BY <1>6, <1>7, <1>9 DEF LoopInv

LEMMA PauseKeeps ==
  ASSUME LoopInv, Pause
  PROVE  LoopInv'
<1>1. InEngine /\ stack' = Unwound
  BY DEF Pause, InEngine
<1>2. NothingStarts /\ StackOK(Unwound) /\ Rests(Unwound)
  BY <1>1, EngineIsBusy, EngineReturns DEF LoopInv
<1>3. /\ ridOf' = ridOf /\ ridSeq' = ridSeq /\ loops' = loops /\ calls' = calls
      /\ depth' = depth /\ next' = next /\ waiting' = waiting /\ parked' = parked
      /\ due' = due /\ asked' = asked /\ cancelled' = cancelled
      /\ finals' = finals /\ errs' = errs /\ late' = late /\ owner' = owner /\ live' = live
  BY DEF Pause, idVars, turnVars, seenVars
<1>4. StackOK(stack)' /\ Rests(stack)'
  BY <1>1, <1>2, <1>3 DEF StackOK
<1>5. NothingStarts' /\ ~InEngine' /\ ~Running("call")'
  BY <1>4, RestStartsNothing
<1>6. TypeInv' /\ FrameInv'
  BY <1>3, <1>4, <1>5 DEF LoopInv, TypeInv, FrameInv
<1>7. OneTurnEach' /\ Apart(parked)' /\ \A k \in Keys : KeyInv(k)'
  BY <1>2, <1>3, <1>5, QuietStep
<1> QED
  BY <1>6, <1>7 DEF LoopInv

(* Return, tick's return and Tick below leave every loop where it was. *)
LEMMA ReturnKeeps ==
  ASSUME LoopInv, Return
  PROVE  LoopInv'
<1>1. /\ stack # <<>> /\ Top.at = "return" /\ stack' = Front(stack)
      /\ ridOf' = [ridOf EXCEPT ![Top.key] = Top.id]
  BY DEF Return, Running
<1>2. StackOK(stack) /\ Top \in Frames /\ Top.key \in asked
  BY <1>1, TopIsAFrame DEF LoopInv, FrameInv
<1>3. StackOK(Front(stack)) /\ Rests(Front(stack))
  BY <1>1, <1>2, Popped
<1>4. NothingStarts
  BY <1>1 DEF NothingStarts, Starts, ToRun, Running
<1>5. /\ ridSeq' = ridSeq /\ loops' = loops /\ calls' = calls
      /\ depth' = depth /\ next' = next /\ waiting' = waiting /\ parked' = parked
      /\ due' = due /\ asked' = asked /\ cancelled' = cancelled
      /\ finals' = finals /\ errs' = errs /\ late' = late /\ owner' = owner /\ live' = live
  BY DEF Return, turnVars, seenVars
<1>6. StackOK(stack)' /\ Rests(stack)'
  BY <1>1, <1>3, <1>5 DEF StackOK
<1>7. NothingStarts' /\ ~InEngine' /\ ~Running("call")'
  BY <1>6, RestStartsNothing
<1>8. ridOf' \in [Keys -> Nat] /\ \A k \in Keys : k \notin asked => ridOf'[k] = ridOf[k]
  BY <1>1, <1>2 DEF LoopInv, TypeInv, Frames
<1>9. TypeInv' /\ FrameInv'
  BY <1>5, <1>6, <1>7, <1>8 DEF LoopInv, TypeInv, FrameInv
<1>10. OneTurnEach' /\ Apart(parked)' /\ \A k \in Keys : KeyInv(k)'
  BY <1>4, <1>5, <1>7, <1>8, QuietStep
<1> QED
  BY <1>9, <1>10 DEF LoopInv

LEMMA TickReturnsKeeps ==
  ASSUME LoopInv, TickReturns
  PROVE  LoopInv'
<1>1. stack # <<>> /\ Top.at = "tick" /\ due = {} /\ stack' = Front(stack)
  BY DEF TickReturns, Running
<1>2. StackOK(Front(stack)) /\ Rests(Front(stack))
  BY <1>1, Popped DEF LoopInv, FrameInv
<1>3. NothingStarts
  BY <1>1 DEF NothingStarts, Starts, ToRun, Running
<1>4. /\ ridOf' = ridOf /\ ridSeq' = ridSeq /\ loops' = loops /\ calls' = calls
      /\ depth' = depth /\ next' = next /\ waiting' = waiting /\ parked' = parked
      /\ due' = due /\ asked' = asked /\ cancelled' = cancelled
      /\ finals' = finals /\ errs' = errs /\ late' = late /\ owner' = owner /\ live' = live
  BY DEF TickReturns, idVars, turnVars, seenVars
<1>5. StackOK(stack)' /\ Rests(stack)'
  BY <1>1, <1>2, <1>4 DEF StackOK
<1>6. NothingStarts' /\ ~InEngine' /\ ~Running("call")'
  BY <1>5, RestStartsNothing
<1>7. TypeInv' /\ FrameInv'
  BY <1>4, <1>5, <1>6 DEF LoopInv, TypeInv, FrameInv
<1>8. OneTurnEach' /\ Apart(parked)' /\ \A k \in Keys : KeyInv(k)'
  BY <1>3, <1>4, <1>6, QuietStep
<1> QED
  BY <1>7, <1>8 DEF LoopInv

LEMMA StartTurnKeeps ==
  ASSUME LoopInv, StartTurn, NEW t, t = Top.key, NEW n, n = Len(owner) + 1
  PROVE  LoopInv'
<1> DEFINE f == Frame("request", t, n)
<1>1. TypeInv /\ FrameInv /\ OneTurnEach /\ Apart(parked) /\ (\A k \in Keys : KeyInv(k))
  BY DEF LoopInv
<1>2. /\ stack # <<>> /\ Top.at = "turn" /\ Starts(t)
      /\ owner' = Append(owner, t) /\ live' = live \cup {n}
      /\ stack' = Append(Front(stack), f)
  BY DEF StartTurn, Running, Starts
<1>3. /\ ridOf' = ridOf /\ ridSeq' = ridSeq /\ loops' = loops /\ calls' = calls
      /\ depth' = depth /\ next' = next /\ waiting' = waiting /\ parked' = parked
      /\ due' = due /\ asked' = asked /\ cancelled' = cancelled
      /\ finals' = finals /\ errs' = errs /\ late' = late
  BY DEF StartTurn, turnVars, seenVars
<1> HIDE DEF f
<1>4. StackOK(Front(stack)) /\ Rests(Front(stack)) /\ t \in asked /\ t \in Keys
  BY <1>1, <1>2, Popped, TopIsAFrame DEF FrameInv, TypeInv
<1>5. n \in Nat /\ n \notin DOMAIN owner /\ n \notin live
  BY <1>1, LenProperties DEF TypeInv
<1>6. f \in Frames /\ f.at = "request" /\ f.key = t /\ f.id = n
  <2>1. "request" \in Working \cup Resting
    BY DEF Working
  <2> QED
    BY <1>4, <1>5, <2>1, FramesAreFrames DEF f
<1>7. /\ owner' \in Seq(Keys) /\ DOMAIN owner' = DOMAIN owner \cup {n}
      /\ owner'[n] = t /\ \A id \in DOMAIN owner : owner'[id] = owner[id]
  <2>1. owner \in Seq(Keys) /\ Len(owner) \in Nat /\ DOMAIN owner = 1 .. Len(owner)
    BY <1>1, LenProperties DEF TypeInv
  <2>2. /\ owner' \in Seq(Keys) /\ Len(owner') = Len(owner) + 1
        /\ \A i \in 1 .. Len(owner) : owner'[i] = owner[i]
        /\ owner'[Len(owner) + 1] = t
    BY <1>2, <1>4, <2>1, AppendProperties
  <2> QED
    BY <2>1, <2>2, LenProperties
<1>8. stack' # <<>> /\ Last(stack') = f /\ StackOK(stack')
  BY <1>2, <1>4, <1>6, Pushed
<1>9. TypeInv'
  BY <1>1, <1>2, <1>3, <1>7 DEF TypeInv
<1>10. FrameInv'
  BY <1>2, <1>3, <1>6, <1>7, <1>8 DEF FrameInv, StackOK, InEngine, Running, Top
<1>11. \A k \in Keys : ~Starts(k)' /\ ToRun(k)' = {} /\ ToRun(k) = {}
  BY <1>2, <1>6, <1>8 DEF Starts, ToRun, Running, Top
<1>12. CallsOf(t) /\ CountOf(t) /\ BooksOf(t) /\ ~Streams(t) /\ ~Waits(t)
  BY <1>1, <1>2, <1>4 DEF KeyInv, PhaseOf
<1>13. OneTurnEach'
  <2>1. \A a \in live : a \in DOMAIN owner /\ owner'[a] = owner[a] /\ owner[a] # t
    BY <1>1, <1>7, <1>12 DEF TypeInv, Streams
  <2> QED
    BY <1>1, <1>2, <1>7, <2>1 DEF OneTurnEach
<1>14. ASSUME NEW k \in Keys \ {t}
       PROVE  Same(k)
  <2>1. Turns(k)' = Turns(k)
    BY <1>7, <1>14 DEF Turns
  <2>2. Streams(k)' <=> Streams(k)
    BY <1>1, <1>2, <1>7, <1>14 DEF Streams, TypeInv
  <2>3. ~Starts(k)
    BY <1>14 DEF Starts
  <2> QED
    BY <1>3, <1>11, <2>1, <2>2, <2>3 DEF Same
<1>15. KeyInv(t)'
  <2>1. CallsOf(t)'
    BY <1>3, <1>4, <1>11, <1>12 DEF CallsOf
  <2>2. PhaseOf(t)' /\ Streams(t)' /\ ~Waits(t)'
    BY <1>2, <1>3, <1>4, <1>7, <1>11, <1>12 DEF PhaseOf, Streams, Waits
  <2>3. CountOf(t)'
    <3>1. Turns(t)' = Turns(t) \cup {n} /\ n \notin Turns(t)
      BY <1>5, <1>7 DEF Turns
    <3>2. IsFiniteSet(Turns(t)) /\ Cardinality(Turns(t)) \in Nat
      <4>1. Turns(t) \in SUBSET (1 .. Len(owner)) /\ Len(owner) \in Nat
        BY <1>1, LenProperties DEF Turns, TypeInv
      <4>2. IsFiniteSet(1 .. Len(owner))
        BY <4>1, FS_Interval
      <4> QED
        BY <4>1, <4>2, FS_Subset, FS_CardinalityType
    <3>3. Cardinality(Turns(t)') = Cardinality(Turns(t)) + 1
      BY <3>1, <3>2, FS_AddElement
    <3>4. Cardinality(Turns(t)) <= depth[t]
      BY <1>2, <1>12 DEF CountOf
    <3>5. depth'[t] = depth[t] /\ depth[t] \in Int
      BY <1>1, <1>3, <1>4 DEF TypeInv
    <3> QED
      BY <1>4, <1>11, <2>2, <3>2, <3>3, <3>4, <3>5 DEF CountOf
  <2>4. BooksOf(t)'
    BY <1>2, <1>3, <1>4, <1>12, <2>2 DEF BooksOf, Busy
  <2> QED
    BY <2>1, <2>2, <2>3, <2>4 DEF KeyInv
<1>16. \A k \in Keys : KeyInv(k)'
  BY <1>1, <1>14, <1>15, Untouched
<1> QED
  BY <1>1, <1>3, <1>9, <1>10, <1>13, <1>16 DEF LoopInv

(* A request that ends, for whatever reason, settles its label: its turn   *)
(* is over and one terminal event or error is added.                       *)
LEMMA LabelSettles ==
  ASSUME TypeInv, OneTurnEach, NEW j \in Keys, KeyInv(j),
         NEW id \in live, owner[id] = j, live' = live \ {id}, owner' = owner,
         NothingStarts, NothingStarts',
         waiting' = waiting, parked' = parked, depth' = depth, asked' = asked,
         calls'[j] = calls[j] \/ calls'[j] = <<>>,
         finals'[j] + errs'[j] = finals[j] + errs[j] + 1,
         j \in late' => j \in late \/ finals[j] + errs[j] > 0,
         j \notin loops', cancelled \subseteq cancelled'
  PROVE  KeyInv(j)'
<1>1. CallsOf(j) /\ PhaseOf(j) /\ CountOf(j) /\ BooksOf(j)
  BY DEF KeyInv
<1>2. Streams(j) /\ Busy(j) /\ ~Waits(j)
  BY <1>1 DEF Streams, Busy, PhaseOf
<1>3. /\ ~Starts(j)' /\ ToRun(j)' = {} /\ ToRun(j) = {} /\ Turns(j)' = Turns(j)
      /\ ~Waits(j)' /\ Held(parked, j)' = Held(parked, j)
  BY <1>2 DEF NothingStarts, Turns, Waits
<1>4. ~Streams(j)'
  BY DEF Streams, OneTurnEach
<1>5. CallsOf(j)'
  BY <1>1, <1>2, <1>3 DEF CallsOf, Waits
<1>6. PhaseOf(j)' /\ ~Busy(j)'
  BY <1>3, <1>4 DEF PhaseOf, Busy
<1>7. CountOf(j)'
  BY <1>1, <1>2, <1>3 DEF CountOf, NothingStarts
<1>8. j \in asked
  BY <1>1, <1>2 DEF BooksOf
<1>9. BooksOf(j)'
  BY <1>1, <1>2, <1>6, <1>8 DEF BooksOf
<1> QED
  BY <1>5, <1>6, <1>7, <1>9 DEF KeyInv

(* The labels that did not own a request are left alone when it ends. *)
LEMMA OthersStream ==
  ASSUME TypeInv, NEW id \in live, live' = live \ {id}, owner' = owner,
         NEW k \in Keys, owner[id] # k
  PROVE  (Streams(k)' <=> Streams(k)) /\ Turns(k)' = Turns(k)
BY DEF Streams, Turns

(* A turn that ends with nothing to run. *)
EndsTurn(t) ==
  /\ live' = live \ {Top.id} /\ stack' = Unwound
  /\ EmitFinal(t) \/ EmitError(t)
  /\ calls' = calls \/ ForgetCalls(t)
  /\ UNCHANGED <<ridOf, ridSeq, owner, depth, next, waiting, parked, due, asked, cancelled>>

LEMMA EndsTurnKeeps ==
  ASSUME LoopInv, InEngine, NEW t, t = Top.key, NEW id, id = Top.id, EndsTurn(t)
  PROVE  LoopInv'
<1>1. TypeInv /\ FrameInv /\ OneTurnEach /\ Apart(parked) /\ (\A k \in Keys : KeyInv(k))
  BY DEF LoopInv
<1>2. /\ live' = live \ {id} /\ stack' = Unwound
      /\ ridOf' = ridOf /\ ridSeq' = ridSeq /\ owner' = owner /\ depth' = depth
      /\ next' = next /\ waiting' = waiting /\ parked' = parked /\ due' = due
      /\ asked' = asked /\ cancelled' = cancelled
  BY DEF EndsTurn
<1>3. /\ late' = IsLate(t) /\ loops' = loops \ {t}
      /\ \/ finals' = [finals EXCEPT ![t] = @ + 1] /\ errs' = errs
         \/ errs' = [errs EXCEPT ![t] = @ + 1] /\ finals' = finals
      /\ calls' = calls \/ calls' = [calls EXCEPT ![t] = <<>>]
  BY DEF EndsTurn, EmitFinal, EmitError, ForgetCalls
<1>4. t \in Keys /\ id \in live /\ owner[id] = t /\ StackOK(Unwound) /\ Rests(Unwound)
  BY <1>1, EngineReturns
<1>5. StackOK(stack)' /\ Rests(stack)'
  BY <1>2, <1>4 DEF StackOK
<1>6. NothingStarts /\ NothingStarts' /\ ~InEngine' /\ ~Running("call")'
  BY <1>5, RestStartsNothing, EngineIsBusy
<1>7. finals' \in [Keys -> Nat] /\ errs' \in [Keys -> Nat] /\ calls' \in [Keys -> Seq(Kinds)]
  <2>1. finals \in [Keys -> Nat] /\ errs \in [Keys -> Nat] /\ calls \in [Keys -> Seq(Kinds)]
    BY <1>1 DEF TypeInv
  <2>2. finals[t] + 1 \in Nat /\ errs[t] + 1 \in Nat /\ <<>> \in Seq(Kinds)
    BY <1>4, <2>1, EmptySeq
  <2>3. finals' \in [Keys -> Nat]
    BY <1>3, <2>1, <2>2
  <2>5. errs' \in [Keys -> Nat]
    BY <1>3, <2>1, <2>2
  <2>4. calls' \in [Keys -> Seq(Kinds)]
    BY <1>3, <2>1, <2>2
  <2> QED
    BY <2>3, <2>4, <2>5
<1>8. TypeInv' /\ FrameInv'
  BY <1>1, <1>2, <1>3, <1>4, <1>5, <1>6, <1>7 DEF TypeInv, FrameInv, IsLate
<1>9. OneTurnEach'
  BY <1>1, <1>2 DEF OneTurnEach
<1>10. ASSUME NEW k \in Keys \ {t}
       PROVE  Same(k)
  <2>1. (Streams(k)' <=> Streams(k)) /\ Turns(k)' = Turns(k)
    BY <1>1, <1>2, <1>4, OthersStream
  <2>2. /\ finals'[k] = finals[k] /\ errs'[k] = errs[k] /\ calls'[k] = calls[k]
        /\ (k \in late' <=> k \in late) /\ (k \in loops' <=> k \in loops)
    BY <1>1, <1>3 DEF TypeInv, IsLate
  <2> QED
    BY <1>2, <1>6, <2>1, <2>2 DEF Same, NothingStarts
<1>11. KeyInv(t)'
  <2>1. finals'[t] + errs'[t] = finals[t] + errs[t] + 1
    <3>1. finals \in [Keys -> Nat] /\ errs \in [Keys -> Nat]
      BY <1>1 DEF TypeInv
    <3>2. finals[t] \in Nat /\ errs[t] \in Nat
      BY <1>4, <3>1
    <3> QED
      BY <1>3, <1>4, <3>1, <3>2
  <2>2. t \in late' => t \in late \/ finals[t] + errs[t] > 0
    BY <1>3 DEF IsLate
  <2>3. calls'[t] = calls[t] \/ calls'[t] = <<>>
    BY <1>1, <1>3, <1>4 DEF TypeInv
  <2> QED
    BY <1>1, <1>2, <1>3, <1>4, <1>6, <2>1, <2>2, <2>3, LabelSettles
<1>12. \A k \in Keys : KeyInv(k)'
  BY <1>1, <1>10, <1>11, Untouched
<1> QED
  BY <1>1, <1>2, <1>8, <1>9, <1>12 DEF LoopInv

LEMMA TurnEndsKeep ==
  ASSUME LoopInv, EngineFails \/ TurnAnswers \/ TooDeep
  PROVE  LoopInv'
<1>1. InEngine /\ EndsTurn(Top.key)
  BY DEF EngineFails, TurnAnswers, TooDeep, EndsTurn, EmitFinal, EmitError, turnVars
<1>2. PICK t, id : t = Top.key /\ id = Top.id
  OBVIOUS
<1> QED
  BY <1>1, <1>2, EndsTurnKeeps

(* A turn that asked for tools hands over to them, one round deeper. *)
LEMMA DispatchToolsKeeps ==
  ASSUME LoopInv, DispatchTools, NEW t, t = Top.key, NEW id, id = Top.id
  PROVE  LoopInv'
<1> DEFINE f == Frame("groups", t, 0)
<1>1. TypeInv /\ FrameInv /\ OneTurnEach /\ Apart(parked) /\ (\A k \in Keys : KeyInv(k))
  BY DEF LoopInv
<1>2. /\ InEngine /\ depth[t] < DepthCap
      /\ live' = live \ {id} /\ depth' = [depth EXCEPT ![t] = @ + 1]
      /\ stack' = Append(Unwound, f)
      /\ ridOf' = ridOf /\ ridSeq' = ridSeq /\ owner' = owner /\ loops' = loops
      /\ calls' = calls /\ next' = next /\ waiting' = waiting /\ parked' = parked
      /\ due' = due /\ asked' = asked /\ cancelled' = cancelled
      /\ finals' = finals /\ errs' = errs /\ late' = late
  BY DEF DispatchTools, seenVars
<1> HIDE DEF f
<1>3. /\ t \in Keys /\ t \in asked /\ id \in live /\ owner[id] = t
      /\ StackOK(Unwound) /\ Rests(Unwound)
  BY <1>1, <1>2, EngineReturns
<1>4. f \in Frames /\ f.at = "groups" /\ f.key = t
  <2>1. "groups" \in Working \cup Resting
    BY DEF Working
  <2> QED
    BY <1>3, <2>1, FramesAreFrames DEF f
<1>5. stack' # <<>> /\ Last(stack') = f /\ StackOK(stack')
  BY <1>2, <1>3, <1>4, Pushed
<1>6. depth[t] \in 0 .. DepthCap /\ DepthCap \in Nat
  BY <1>1, <1>3, LoopAssumption DEF TypeInv
<1>7. TypeInv'
  <2>1. depth' \in [Keys -> 0 .. DepthCap]
    <3>1. depth[t] + 1 \in 0 .. DepthCap
      BY <1>2, <1>6
    <3> QED
      BY <1>1, <1>2, <3>1 DEF TypeInv
  <2> QED
    BY <1>1, <1>2, <2>1 DEF TypeInv
<1>8. FrameInv'
  BY <1>2, <1>4, <1>5 DEF FrameInv, StackOK, InEngine, Running, Top
<1>9. OneTurnEach'
  BY <1>1, <1>2 DEF OneTurnEach
<1>10. /\ \A k \in Keys : ToRun(k) = {} /\ ToRun(k)' = {} /\ ~Starts(k)
       /\ \A k \in Keys : Starts(k)' <=> k = t
       /\ Streams(t) /\ ~Waits(t)
  <2>1. NothingStarts /\ Streams(t) /\ ~Waits(t)
    BY <1>2, EngineIsBusy
  <2> QED
    BY <1>4, <1>5, <2>1 DEF NothingStarts, Starts, ToRun, Running, Top
<1>11. ASSUME NEW k \in Keys \ {t}
       PROVE  Same(k)
  <2>1. (Streams(k)' <=> Streams(k)) /\ Turns(k)' = Turns(k)
    BY <1>1, <1>2, <1>3, OthersStream
  <2>2. depth'[k] = depth[k]
    BY <1>1, <1>2 DEF TypeInv
  <2> QED
    BY <1>2, <1>10, <2>1, <2>2 DEF Same
<1>12. KeyInv(t)'
  <2>1. CallsOf(t) /\ CountOf(t) /\ BooksOf(t)
    BY <1>1, <1>3 DEF KeyInv
  <2>2. ~Streams(t)' /\ ~Waits(t)' /\ Starts(t)' /\ Turns(t)' = Turns(t)
    BY <1>1, <1>2, <1>3, <1>10 DEF Streams, OneTurnEach, Waits, Turns
  <2>3. CallsOf(t)'
    BY <1>2, <1>3, <1>10, <2>1 DEF CallsOf
  <2>4. PhaseOf(t)'
    BY <2>2 DEF PhaseOf
  <2>5. CountOf(t)'
    <3>1. depth'[t] = depth[t] + 1
      BY <1>1, <1>2, <1>3 DEF TypeInv
    <3> QED
      BY <1>3, <1>10, <2>1, <2>2, <3>1 DEF CountOf
  <2>6. BooksOf(t)'
    BY <1>2, <1>3, <1>10, <2>1, <2>2 DEF BooksOf, Busy
  <2> QED
    BY <2>3, <2>4, <2>5, <2>6 DEF KeyInv
<1>13. \A k \in Keys : KeyInv(k)'
  BY <1>1, <1>11, <1>12, Untouched
<1> QED
  BY <1>1, <1>2, <1>7, <1>8, <1>9, <1>13 DEF LoopInv

-----------------------------------------------------------------------------
(* The tools of a turn.                                                    *)

(* An answer takes its call off those that wait; the last one starts the   *)
(* next group.                                                             *)
LEMMA LabelAnswered ==
  ASSUME TypeInv, NEW t \in Keys, KeyInv(t), NEW i \in waiting[t],
         waiting' = [waiting EXCEPT ![t] = @ \ {i}],
         calls' = calls, depth' = depth, owner' = owner, live' = live, finals' = finals,
         errs' = errs, loops' = loops, asked' = asked, cancelled' = cancelled,
         late' = IsLate(t),
         waiting'[t] = Held(parked, t)' \cup ToRun(t)', Held(parked, t)' \cap ToRun(t)' = {},
         Starts(t)' <=> waiting'[t] = {}
  PROVE  KeyInv(t)'
<1>1. CallsOf(t) /\ PhaseOf(t) /\ CountOf(t) /\ BooksOf(t) /\ waiting'[t] = waiting[t] \ {i}
  BY DEF KeyInv, TypeInv
<1>2. Waits(t) /\ ~Streams(t) /\ ~Starts(t) /\ Busy(t)
  BY <1>1 DEF Waits, PhaseOf, Busy
<1>3. ~Streams(t)' /\ (Waits(t)' <=> ~Starts(t)') /\ Turns(t)' = Turns(t) /\ Busy(t)'
  BY <1>2 DEF Streams, Waits, Turns, Busy
<1>4. CallsOf(t)'
  <2>1. waiting'[t] \subseteq DOMAIN calls[t]
    BY <1>1 DEF CallsOf
  <2>2. \A j \in waiting'[t] : Mutates(calls[t][j]) => waiting'[t] = {j}
    BY <1>1 DEF CallsOf
  <2> QED
    BY <2>1, <2>2 DEF CallsOf
<1>5. PhaseOf(t)'
  BY <1>3 DEF PhaseOf
<1>6. CountOf(t)'
  BY <1>1, <1>2, <1>3 DEF CountOf
<1>7. BooksOf(t)'
  <2>1. t \in asked \ cancelled => late' = late
    BY <1>1, <1>2 DEF BooksOf, IsLate
  <2> QED
    BY <1>1, <1>2, <1>3, <2>1 DEF BooksOf
<1> QED
  BY <1>4, <1>5, <1>6, <1>7 DEF KeyInv

(* runGroup starts a group, or the next turn. *)
LEMMA RunGroupKeeps ==
  ASSUME LoopInv, RunGroup, NEW t, t = Top.key
  PROVE  LoopInv'
<1>1. TypeInv /\ FrameInv /\ OneTurnEach /\ Apart(parked) /\ (\A k \in Keys : KeyInv(k))
  BY DEF LoopInv
<1>2. /\ stack # <<>> /\ Top.at = "groups" /\ Top.at # "tick" /\ Starts(t)
      /\ ridOf' = ridOf /\ ridSeq' = ridSeq /\ owner' = owner /\ live' = live
      /\ loops' = loops /\ depth' = depth /\ parked' = parked
      /\ due' = due /\ asked' = asked /\ cancelled' = cancelled
      /\ finals' = finals /\ errs' = errs /\ late' = late
  BY DEF RunGroup, Running, Starts, idVars, seenVars
<1>3. StackOK(Front(stack)) /\ Rests(Front(stack)) /\ t \in asked /\ t \in Keys
  BY <1>1, <1>2, Popped, TopIsAFrame DEF FrameInv, TypeInv
<1>4. /\ CallsOf(t) /\ PhaseOf(t) /\ CountOf(t) /\ BooksOf(t)
      /\ waiting[t] = {} /\ Held(parked, t) = {} /\ ~Streams(t) /\ Busy(t)
  BY <1>1, <1>2, <1>3 DEF KeyInv, CallsOf, PhaseOf, Waits, Busy
<1>5. /\ \A k \in Keys : ToRun(k) = {} /\ (Starts(k) <=> k = t)
      /\ \A k \in Keys : Held(parked, k)' = Held(parked, k) /\ Turns(k)' = Turns(k)
                         /\ (Streams(k)' <=> Streams(k))
  BY <1>2 DEF ToRun, Starts, Running, Turns, Streams
<1>6. OneTurnEach' /\ Apart(parked)'
  BY <1>1, <1>2 DEF OneTurnEach
<1>7. next[t] \in Nat \ {0}
  BY <1>1, <1>3 DEF TypeInv
<1>8. CASE next[t] > Len(calls[t])
  <2> DEFINE f == Frame("turn", t, 0)
  <2>1. /\ stack' = Append(Front(stack), f) /\ next' = [next EXCEPT ![t] = 1]
        /\ calls' = [calls EXCEPT ![t] = <<>>] /\ waiting' = waiting
    BY <1>8 DEF RunGroup, ForgetCalls
  <2> HIDE DEF f
  <2>2. f \in Frames /\ f.at = "turn" /\ f.key = t
    <3>1. "turn" \in Working \cup Resting
      BY DEF Working
    <3> QED
      BY <1>3, <3>1, FramesAreFrames DEF f
  <2>3. stack' # <<>> /\ Last(stack') = f /\ StackOK(stack')
    BY <1>3, <2>1, <2>2, Pushed
  <2>4. TypeInv'
    <3>1. calls' \in [Keys -> Seq(Kinds)]
      BY <1>1, <2>1, EmptySeq DEF TypeInv
    <3> QED
      BY <1>1, <1>2, <2>1, <3>1 DEF TypeInv
  <2>5. FrameInv'
    BY <1>2, <2>2, <2>3 DEF FrameInv, StackOK, InEngine, Running, Top
  <2>6. \A k \in Keys : ToRun(k)' = {} /\ (Starts(k)' <=> k = t)
    BY <2>2, <2>3 DEF ToRun, Starts, Running, Top
  <2>7. ASSUME NEW k \in Keys \ {t}
        PROVE  Same(k)
    <3>1. calls'[k] = calls[k]
      BY <1>1, <2>1 DEF TypeInv
    <3> QED
      BY <1>2, <1>5, <2>1, <2>6, <3>1 DEF Same
  <2>8. KeyInv(t)'
    <3>1. CallsOf(t)'
      BY <1>3, <1>4, <1>5, <2>1, <2>6 DEF CallsOf
    <3>2. ~Waits(t)' /\ Starts(t)' /\ ~Streams(t)'
      BY <1>3, <1>4, <1>5, <2>1, <2>6 DEF Waits
    <3>3. CountOf(t)'
      BY <1>2, <1>3, <1>4, <1>5, <3>2 DEF CountOf
    <3>4. BooksOf(t)'
      BY <1>2, <1>3, <1>4, <1>5, <3>2 DEF BooksOf, Busy
    <3> QED
      BY <3>1, <3>2, <3>3, <3>4 DEF KeyInv, PhaseOf
  <2> QED
    BY <1>1, <1>6, <2>4, <2>5, <2>7, <2>8, Untouched DEF LoopInv
<1>9. CASE ~(next[t] > Len(calls[t]))
  <2> DEFINE f == Frame("call", t, next[t])
             G == GroupOf(t)
  <2>1. /\ stack' = Append(Front(stack), f) /\ next' = [next EXCEPT ![t] = Max(G) + 1]
        /\ waiting' = [waiting EXCEPT ![t] = G] /\ calls' = calls
    BY <1>9 DEF RunGroup
  <2>2. /\ Max(G) \in next[t] .. Len(calls[t]) /\ G = next[t] .. Max(G)
        /\ G \subseteq DOMAIN calls[t]
        /\ \A i \in G : Mutates(calls[t][i]) => G = {i}
    <3>1. Len(calls[t]) \in Nat
      BY <1>1, <1>3, LenProperties DEF TypeInv
    <3>2. next[t] <= Len(calls[t])
      BY <1>7, <1>9, <3>1
    <3> QED
      BY <1>1, <1>3, <3>2, GroupIsARun
  <2> HIDE DEF f, G
  <2>3. f \in Frames /\ f.at = "call" /\ f.key = t /\ f.id = next[t]
    <3>1. "call" \in Working \cup Resting
      BY DEF Working
    <3> QED
      BY <1>3, <1>7, <3>1, FramesAreFrames DEF f
  <2>4. stack' # <<>> /\ Last(stack') = f /\ StackOK(stack')
    BY <1>3, <2>1, <2>3, Pushed
  <2>5. /\ Max(G) \in Nat \ {0} /\ next'[t] = Max(G) + 1 /\ waiting'[t] = G
        /\ G \subseteq Nat
    <3>1. next'[t] = Max(G) + 1 /\ waiting'[t] = G
      BY <1>1, <1>3, <2>1 DEF TypeInv
    <3>2. Max(G) \in Nat \ {0}
      BY <1>7, <2>2
    <3>3. G \subseteq Nat
      BY <1>7, <2>2
    <3> QED
      BY <3>1, <3>2, <3>3
  <2>6. TypeInv'
    <3>1. next' \in [Keys -> Nat \ {0}]
      <4>1. Max(G) + 1 \in Nat \ {0}
        BY <2>5
      <4> QED
        BY <1>1, <2>1, <4>1 DEF TypeInv
    <3>2. waiting' \in [Keys -> SUBSET Nat]
      BY <1>1, <2>1, <2>5 DEF TypeInv
    <3> QED
      BY <1>1, <1>2, <2>1, <3>1, <3>2 DEF TypeInv
  <2>7. FrameInv'
    <3>1. next[t] \in 1 .. next'[t] - 1
      BY <1>7, <2>2, <2>5
    <3> QED
      BY <1>2, <2>3, <2>4, <3>1 DEF FrameInv, StackOK, InEngine, Running, Top
  <2>8. /\ \A k \in Keys : ~Starts(k)'
        /\ \A k \in Keys : ToRun(k)' = IF k = t THEN next[t] .. next'[t] - 1 ELSE {}
    BY <2>3, <2>4 DEF ToRun, Starts, Running, Top
  <2>9. ToRun(t)' = G
    BY <1>3, <2>2, <2>5, <2>8
  <2>10. ASSUME NEW k \in Keys \ {t}
         PROVE  Same(k)
    <3>1. waiting'[k] = waiting[k]
      BY <1>1, <2>1 DEF TypeInv
    <3> QED
      BY <1>2, <1>5, <2>1, <2>8, <3>1 DEF Same
  <2>11. KeyInv(t)'
    <3>1. CallsOf(t)'
      BY <1>3, <1>4, <1>5, <2>1, <2>2, <2>5, <2>9 DEF CallsOf
    <3>2. Waits(t)' /\ ~Starts(t)' /\ ~Streams(t)'
      <4>1. next[t] \in G
        BY <1>7, <2>2
      <4> QED
        BY <1>3, <1>4, <1>5, <2>5, <2>8, <4>1 DEF Waits
    <3>3. CountOf(t)'
      BY <1>2, <1>3, <1>4, <1>5, <3>2 DEF CountOf
    <3>4. BooksOf(t)'
      BY <1>2, <1>3, <1>4, <1>5, <3>2 DEF BooksOf, Busy
    <3> QED
      BY <3>1, <3>2, <3>3, <3>4 DEF KeyInv, PhaseOf
  <2> QED
    BY <1>1, <1>6, <2>6, <2>7, <2>10, <2>11, Untouched DEF LoopInv
<1> QED
  BY <1>8, <1>9

(* An answer from a stack that otherwise rests: it goes on with the next   *)
(* group when it was the last.                                             *)
LEMMA AnswerGoesOn ==
  ASSUME TypeInv, NEW t \in Keys, t \in asked, NEW c, NEW rest, StackOK(rest), Rests(rest),
         Answered(t, c, rest), asked' = asked, due' \subseteq due
  PROVE  /\ StackOK(stack)'
         /\ ~InEngine' /\ ~Running("call")'
         /\ \A k : ToRun(k)' = {}
         /\ \A k : Starts(k)' <=> k = t /\ waiting'[t] = {}
         /\ waiting'[t] = waiting[t] \ {c}
<1> DEFINE f == Frame("groups", t, 0)
<1>1. /\ waiting' = [waiting EXCEPT ![t] = @ \ {c}]
      /\ stack' = IF waiting[t] \ {c} = {} THEN Append(rest, f) ELSE rest
      /\ waiting'[t] = waiting[t] \ {c}
  BY DEF Answered, TypeInv
<1> HIDE DEF f
<1>2. f \in Frames /\ f.at = "groups" /\ f.key = t
  <2>1. "groups" \in Working \cup Resting
    BY DEF Working
  <2> QED
    BY <2>1, FramesAreFrames DEF f
<1>3. CASE waiting'[t] = {}
  <2>1. stack' # <<>> /\ Last(stack') = f /\ StackOK(stack')
    BY <1>1, <1>2, <1>3, Pushed
  <2>2. StackOK(stack)'
    BY <2>1 DEF StackOK
  <2> QED
    BY <1>1, <1>2, <1>3, <2>1, <2>2 DEF InEngine, Running, ToRun, Starts, Top
<1>4. CASE waiting'[t] # {}
  <2>1. stack' = <<>> \/ Last(stack').at \in Resting
    BY <1>1, <1>4, NothingRuns DEF StackOK
  <2>2. StackOK(stack)'
    BY <1>1, <1>4 DEF StackOK
  <2> QED
    BY <1>1, <1>4, <2>1, <2>2 DEF InEngine, Running, ToRun, Starts, Top, Resting
<1> QED
  BY <1>3, <1>4

(* A parked tool is answered, by whoever settles it. *)
LEMMA ParkedAnswered ==
  ASSUME LoopInv, NothingStarts, NEW i \in DOMAIN parked,
         NEW rest, StackOK(rest), Rests(rest),
         parked' = RemoveAt(parked, i), Answered(parked[i].key, parked[i].call, rest),
         due' = due \ {parked[i]},
         UNCHANGED <<idVars, loops, calls, depth, next, asked, cancelled, finals, errs>>
  PROVE  LoopInv'
<1>1. TypeInv /\ FrameInv /\ OneTurnEach /\ Apart(parked) /\ (\A k \in Keys : KeyInv(k))
  BY DEF LoopInv
<1>2. PICK t, c : t = parked[i].key /\ c = parked[i].call
  OBVIOUS
<1>3. /\ ridOf' = ridOf /\ ridSeq' = ridSeq /\ owner' = owner /\ live' = live
      /\ loops' = loops /\ calls' = calls /\ depth' = depth /\ next' = next
      /\ asked' = asked /\ cancelled' = cancelled /\ finals' = finals /\ errs' = errs
      /\ late' = IsLate(t) /\ waiting' = [waiting EXCEPT ![t] = @ \ {c}]
  BY <1>2 DEF idVars, Answered
<1>4. t \in Keys /\ c \in Nat /\ c \in Held(parked, t) /\ parked \in Seq(Park)
  <2>1. parked \in Seq(Park) /\ parked[i] \in Park
    BY <1>1, LenProperties DEF TypeInv
  <2> QED
    BY <1>2, <2>1 DEF Park, Held
<1>5. c \in waiting[t] /\ waiting[t] = Held(parked, t)
  BY <1>1, <1>4 DEF KeyInv, CallsOf, NothingStarts
<1>6. t \in asked
  BY <1>1, <1>4, <1>5 DEF KeyInv, BooksOf, Busy, Waits
<1>7. /\ RemoveAt(parked, i) \in Seq(Park) /\ Apart(RemoveAt(parked, i))
      /\ ToSet(RemoveAt(parked, i)) = ToSet(parked) \ {parked[i]}
      /\ \A k : Held(RemoveAt(parked, i), k)
                  = IF k = t THEN Held(parked, k) \ {c} ELSE Held(parked, k)
  BY <1>1, <1>2, <1>4, Unparked
<1>8. /\ StackOK(stack)' /\ ~InEngine' /\ ~Running("call")'
      /\ \A k : ToRun(k)' = {}
      /\ \A k : Starts(k)' <=> k = t /\ waiting'[t] = {}
      /\ waiting'[t] = waiting[t] \ {c}
  BY <1>1, <1>2, <1>3, <1>4, <1>6, AnswerGoesOn
<1>9. TypeInv'
  <2>1. waiting' \in [Keys -> SUBSET Nat] /\ late' \subseteq Keys
    BY <1>1, <1>3, <1>4 DEF TypeInv, IsLate
  <2>2. parked' \in Seq(Park) /\ due' \subseteq ToSet(parked)'
    BY <1>1, <1>7 DEF TypeInv
  <2> QED
    BY <1>1, <1>3, <2>1, <2>2 DEF TypeInv
<1>10. FrameInv' /\ OneTurnEach' /\ Apart(parked)'
  BY <1>1, <1>3, <1>7, <1>8 DEF FrameInv, OneTurnEach
<1>11. ASSUME NEW k \in Keys \ {t}
       PROVE  Same(k)
  <2>1. waiting'[k] = waiting[k] /\ (k \in late' <=> k \in late)
    BY <1>1, <1>3 DEF TypeInv, IsLate
  <2>2. Held(parked, k)' = Held(parked, k)
    BY <1>7
  <2>3. ToRun(k)' = ToRun(k) /\ (Starts(k)' <=> Starts(k))
    BY <1>8 DEF NothingStarts
  <2>4. Turns(k)' = Turns(k) /\ (Streams(k)' <=> Streams(k))
    BY <1>3 DEF Turns, Streams
  <2> QED
    BY <1>3, <2>1, <2>2, <2>3, <2>4 DEF Same
<1>12. KeyInv(t)'
  <2>1. /\ waiting'[t] = Held(parked, t)' \cup ToRun(t)'
        /\ Held(parked, t)' \cap ToRun(t)' = {}
    BY <1>5, <1>7, <1>8
  <2> QED
    BY <1>1, <1>3, <1>4, <1>5, <1>8, <2>1, LabelAnswered
<1> QED
  BY <1>1, <1>9, <1>10, <1>11, <1>12, Untouched DEF LoopInv

(* The host runs a call of the group and has its answer at once. *)
LEMMA RunToolKeeps ==
  ASSUME LoopInv, RunTool, NEW t, t = Top.key, NEW i, i = Top.id
  PROVE  LoopInv'
<1>1. TypeInv /\ FrameInv /\ OneTurnEach /\ Apart(parked) /\ (\A k \in Keys : KeyInv(k))
  BY DEF LoopInv
<1>2. /\ Running("call") /\ Answered(t, i, NextCall)
      /\ ridOf' = ridOf /\ ridSeq' = ridSeq /\ owner' = owner /\ live' = live
      /\ loops' = loops /\ calls' = calls /\ depth' = depth /\ next' = next
      /\ parked' = parked /\ due' = due
      /\ asked' = asked /\ cancelled' = cancelled /\ finals' = finals /\ errs' = errs
  BY DEF RunTool, idVars
<1>3. /\ t \in asked /\ t \in Keys /\ i \in Nat
      /\ StackOK(NextCall)
      /\ i + 1 = next[t] => Rests(NextCall)
      /\ i + 1 # next[t] => NextCall # <<>> /\ Last(NextCall) = Frame("call", t, i + 1)
  BY <1>1, <1>2, CallReturns
<1>4. i \in 1 .. next[t] - 1 /\ next[t] \in Nat
  BY <1>1, <1>2, <1>3 DEF FrameInv, TypeInv
<1>5. /\ \A k \in Keys : ToRun(k) = IF k = t THEN i .. next[t] - 1 ELSE {}
      /\ \A k \in Keys : ~Starts(k)
  BY <1>2 DEF ToRun, Starts, Running
<1>6. /\ i \in waiting[t] /\ waiting[t] = Held(parked, t) \cup (i .. next[t] - 1)
      /\ Held(parked, t) \cap (i .. next[t] - 1) = {}
  BY <1>1, <1>3, <1>4, <1>5 DEF KeyInv, CallsOf
<1>7. /\ late' = IsLate(t) /\ waiting' = [waiting EXCEPT ![t] = @ \ {i}]
      /\ stack' = IF waiting[t] \ {i} = {} THEN Append(NextCall, Frame("groups", t, 0))
                                           ELSE NextCall
      /\ waiting'[t] = waiting[t] \ {i}
  BY <1>1, <1>2, <1>3 DEF Answered, TypeInv
<1>8. /\ StackOK(stack)' /\ ~InEngine'
      /\ Running("call")' => Top.id' \in 1 .. next'[Top.key'] - 1
      /\ \A k \in Keys : ToRun(k)' = IF k = t THEN i + 1 .. next[t] - 1 ELSE {}
      /\ \A k \in Keys : Starts(k)' <=> k = t /\ waiting'[t] = {}
  <2>1. CASE i + 1 = next[t]
    <3>1. i + 1 .. next[t] - 1 = {}
      BY <1>4, <2>1
    <3>2. /\ StackOK(stack)' /\ ~InEngine' /\ ~Running("call")'
          /\ \A k : ToRun(k)' = {}
          /\ \A k : Starts(k)' <=> k = t /\ waiting'[t] = {}
      BY <1>1, <1>2, <1>3, <2>1, AnswerGoesOn
    <3> QED
      BY <3>1, <3>2
  <2>2. CASE i + 1 # next[t]
    <3> DEFINE f == Frame("call", t, i + 1)
    <3>1. f.at = "call" /\ f.key = t /\ f.id = i + 1
      BY DEF Frame
    <3>2. i + 1 \in 1 .. next[t] - 1 /\ i + 1 \in i .. next[t] - 1 /\ i + 1 # i
      BY <1>4, <2>2
    <3>3. waiting'[t] # {}
      BY <1>6, <1>7, <3>2
    <3> HIDE DEF f
    <3>4. stack' = NextCall /\ stack' # <<>> /\ Last(stack') = f
      BY <1>3, <1>7, <2>2, <3>3 DEF f
    <3>5. StackOK(stack)'
      BY <1>2, <1>3, <3>4 DEF StackOK
    <3>6. Running("call")' /\ Top' = f /\ ~InEngine' /\ \A k \in Keys : ~Starts(k)'
      BY <3>1, <3>4 DEF Running, InEngine, Starts, Top
    <3>7. \A k \in Keys : ToRun(k)' = IF k = t THEN i + 1 .. next[t] - 1 ELSE {}
      BY <1>2, <3>1, <3>6 DEF ToRun
    <3> QED
      BY <1>2, <3>1, <3>2, <3>3, <3>5, <3>6, <3>7
  <2> QED
    BY <2>1, <2>2
<1>9. TypeInv'
  <2>1. waiting' \in [Keys -> SUBSET Nat] /\ late' \subseteq Keys
    BY <1>1, <1>3, <1>7 DEF TypeInv, IsLate
  <2> QED
    BY <1>1, <1>2, <2>1 DEF TypeInv
<1>10. FrameInv' /\ OneTurnEach' /\ Apart(parked)'
  BY <1>1, <1>2, <1>8 DEF FrameInv, OneTurnEach
<1>11. \A k \in Keys : Held(parked, k)' = Held(parked, k) /\ Turns(k)' = Turns(k)
                       /\ (Streams(k)' <=> Streams(k))
  BY <1>2 DEF Turns, Streams
<1>12. ASSUME NEW k \in Keys \ {t}
       PROVE  Same(k)
  <2>1. waiting'[k] = waiting[k] /\ (k \in late' <=> k \in late)
    BY <1>1, <1>7 DEF TypeInv, IsLate
  <2> QED
    BY <1>2, <1>5, <1>8, <1>11, <2>1 DEF Same
<1>13. KeyInv(t)'
  <2>1. i + 1 .. next[t] - 1 = (i .. next[t] - 1) \ {i} /\ i \in i .. next[t] - 1
    BY <1>4
  <2>2. /\ waiting'[t] = Held(parked, t)' \cup ToRun(t)'
        /\ Held(parked, t)' \cap ToRun(t)' = {}
    <3> DEFINE R == i .. next[t] - 1
    <3>1. ToRun(t)' = R \ {i} /\ i \in R /\ Held(parked, t)' = Held(parked, t)
      BY <1>3, <1>8, <1>11, <2>1
    <3>2. waiting'[t] = (Held(parked, t) \cup R) \ {i} /\ Held(parked, t) \cap R = {}
      BY <1>6, <1>7
    <3> HIDE DEF R
    <3> QED
      BY <3>1, <3>2
  <2>3. Starts(t)' <=> waiting'[t] = {}
    BY <1>3, <1>8
  <2> QED
    BY <1>1, <1>2, <1>3, <1>6, <1>7, <2>2, <2>3, LabelAnswered
<1> QED
  BY <1>1, <1>9, <1>10, <1>12, <1>13, Untouched DEF LoopInv

(* The host parks a call of the group and goes on with the next one. *)
LEMMA ParkToolKeeps ==
  ASSUME LoopInv, ParkTool, NEW t, t = Top.key, NEW i, i = Top.id
  PROVE  LoopInv'
<1>1. TypeInv /\ FrameInv /\ OneTurnEach /\ Apart(parked) /\ (\A k \in Keys : KeyInv(k))
  BY DEF LoopInv
<1>0. PICK timed \in BOOLEAN :
        parked' = Append(parked, [key |-> t, call |-> i, timed |-> timed,
                    why |-> IF calls[t][i] = "hang" THEN "deadline" ELSE "approval"])
  BY Zenon DEF ParkTool
<1>2. PICK p :
        /\ parked' = Append(parked, p)
        /\ p = [key |-> t, call |-> i, timed |-> timed,
                why |-> IF calls[t][i] = "hang" THEN "deadline" ELSE "approval"]
  BY <1>0
<1>3. /\ Running("call") /\ stack' = NextCall /\ late' = IsLate(t)
      /\ ridOf' = ridOf /\ ridSeq' = ridSeq /\ owner' = owner /\ live' = live
      /\ loops' = loops /\ calls' = calls /\ depth' = depth /\ next' = next
      /\ waiting' = waiting /\ due' = due
      /\ asked' = asked /\ cancelled' = cancelled /\ finals' = finals /\ errs' = errs
  BY DEF ParkTool, idVars, turnVars
<1>4. /\ t \in asked /\ t \in Keys /\ i \in Nat
      /\ StackOK(NextCall)
      /\ i + 1 = next[t] => Rests(NextCall)
      /\ i + 1 # next[t] => NextCall # <<>> /\ Last(NextCall) = Frame("call", t, i + 1)
  BY <1>1, <1>3, CallReturns
<1>5. i \in 1 .. next[t] - 1 /\ next[t] \in Nat
  BY <1>1, <1>3, <1>4 DEF FrameInv, TypeInv
<1>6. /\ \A k \in Keys : ToRun(k) = IF k = t THEN i .. next[t] - 1 ELSE {}
      /\ \A k \in Keys : ~Starts(k)
  BY <1>3 DEF ToRun, Starts, Running
<1>7. /\ CallsOf(t) /\ PhaseOf(t) /\ CountOf(t) /\ BooksOf(t)
      /\ i \in waiting[t] /\ waiting[t] = Held(parked, t) \cup (i .. next[t] - 1)
      /\ Held(parked, t) \cap (i .. next[t] - 1) = {}
  BY <1>1, <1>4, <1>5, <1>6 DEF KeyInv, CallsOf
<1>8. p \in Park /\ p.key = t /\ p.call = i /\ i \notin Held(parked, t)
  BY <1>2, <1>4, <1>5, <1>7 DEF Park
<1>9. /\ parked' \in Seq(Park) /\ Apart(parked')
      /\ ToSet(parked') = ToSet(parked) \cup {p}
      /\ \A k : Held(parked', k) = IF k = t THEN Held(parked, k) \cup {i} ELSE Held(parked, k)
  <2>1. parked \in Seq(Park) /\ p.call \notin Held(parked, p.key)
    BY <1>1, <1>8 DEF TypeInv
  <2>2. /\ Append(parked, p) \in Seq(Park) /\ Apart(Append(parked, p))
        /\ ToSet(Append(parked, p)) = ToSet(parked) \cup {p}
        /\ \A k : Held(Append(parked, p), k)
                    = IF k = p.key THEN Held(parked, k) \cup {p.call} ELSE Held(parked, k)
    BY <1>1, <1>8, <2>1, Parking
  <2> QED
    BY <1>2, <1>8, <2>2
<1>10. /\ StackOK(stack)' /\ ~InEngine'
       /\ Running("call")' => Top.id' \in 1 .. next'[Top.key'] - 1
       /\ \A k \in Keys : ToRun(k)' = IF k = t THEN i + 1 .. next[t] - 1 ELSE {}
       /\ \A k \in Keys : ~Starts(k)'
  <2>1. StackOK(stack)'
    BY <1>3, <1>4 DEF StackOK
  <2>2. CASE i + 1 = next[t]
    <3>1. i + 1 .. next[t] - 1 = {}
      BY <1>5, <2>2
    <3>2. stack' = <<>> \/ Last(stack').at \in Resting
      BY <1>3, <1>4, <2>2, NothingRuns DEF StackOK
    <3> QED
      BY <2>1, <3>1, <3>2 DEF InEngine, Running, ToRun, Starts, Top, Resting
  <2>3. CASE i + 1 # next[t]
    <3> DEFINE f == Frame("call", t, i + 1)
    <3>1. f.at = "call" /\ f.key = t /\ f.id = i + 1
      BY DEF Frame
    <3>2. i + 1 \in 1 .. next[t] - 1
      BY <1>5, <2>3
    <3> HIDE DEF f
    <3>3. stack' # <<>> /\ Last(stack') = f
      BY <1>3, <1>4, <2>3 DEF f
    <3>4. Running("call")' /\ Top' = f /\ ~InEngine' /\ \A k \in Keys : ~Starts(k)'
      BY <3>1, <3>3 DEF Running, InEngine, Starts, Top
    <3>5. \A k \in Keys : ToRun(k)' = IF k = t THEN i + 1 .. next[t] - 1 ELSE {}
      BY <1>3, <3>1, <3>4 DEF ToRun
    <3> QED
      BY <1>3, <2>1, <3>1, <3>2, <3>4, <3>5
  <2> QED
    BY <2>2, <2>3
<1>11. TypeInv'
  BY <1>1, <1>3, <1>4, <1>9 DEF TypeInv, IsLate
<1>12. FrameInv' /\ OneTurnEach' /\ Apart(parked)'
  BY <1>1, <1>3, <1>9, <1>10 DEF FrameInv, OneTurnEach
<1>13. \A k \in Keys : /\ Turns(k)' = Turns(k)
                       /\ Streams(k)' <=> Streams(k)
                       /\ Waits(k)' <=> Waits(k)
  BY <1>3 DEF Turns, Streams, Waits
<1>14. ASSUME NEW k \in Keys \ {t}
       PROVE  Same(k)
  <2>1. Held(parked, k)' = Held(parked, k) /\ (k \in late' <=> k \in late)
    BY <1>3, <1>9 DEF IsLate
  <2> QED
    BY <1>3, <1>6, <1>10, <1>13, <2>1 DEF Same
<1>15. KeyInv(t)'
  <2>1. /\ waiting'[t] = Held(parked, t)' \cup ToRun(t)'
        /\ Held(parked, t)' \cap ToRun(t)' = {}
    <3> DEFINE R == i .. next[t] - 1
    <3>1. i + 1 .. next[t] - 1 = R \ {i} /\ i \in R
      BY <1>5
    <3>2. ToRun(t)' = R \ {i} /\ Held(parked, t)' = Held(parked, t) \cup {i}
      BY <1>4, <1>9, <1>10, <3>1
    <3>3. waiting'[t] = Held(parked, t) \cup R /\ Held(parked, t) \cap R = {}
      BY <1>3, <1>7
    <3> HIDE DEF R
    <3> QED
      BY <3>1, <3>2, <3>3
  <2>2. CallsOf(t)'
    BY <1>3, <1>7, <2>1 DEF CallsOf
  <2>3. Waits(t) /\ ~Starts(t) /\ ~Starts(t)' /\ Busy(t) /\ Busy(t)'
    BY <1>4, <1>6, <1>7, <1>10, <1>13 DEF Busy, Waits
  <2>4. PhaseOf(t)' /\ CountOf(t)'
    BY <1>3, <1>4, <1>7, <1>13, <2>3 DEF PhaseOf, CountOf
  <2>5. BooksOf(t)'
    <3>1. t \in asked \ cancelled => late' = late
      BY <1>3, <1>7, <2>3 DEF BooksOf, IsLate
    <3> QED
      BY <1>3, <1>4, <1>7, <2>3, <3>1 DEF BooksOf
  <2> QED
    BY <2>2, <2>4, <2>5 DEF KeyInv
<1> QED
  BY <1>1, <1>11, <1>12, <1>14, <1>15, Untouched DEF LoopInv

-----------------------------------------------------------------------------
(* What is called from outside.                                            *)

LEMMA IdleRests ==
  ASSUME StackOK(stack), Idle
  PROVE  /\ due = {} /\ NothingStarts /\ ~InEngine /\ ~Running("call")
         /\ StackOK(<<>>) /\ Rests(<<>>)
BY EmptySeq DEF StackOK, Rests, Idle, NothingStarts, Starts, ToRun, InEngine, Running

(* A single frame on an empty stack. *)
LEMMA OneFrame ==
  ASSUME due = {}, NEW f \in Frames, f.at # "tick" => f.key \in asked
  PROVE  <<f>> \in Seq(Frames) /\ <<f>> # <<>> /\ Last(<<f>>) = f /\ StackOK(<<f>>)
<1>1. <<f>> \in Seq(Frames) /\ Len(<<f>>) = 1 /\ <<f>>[1] = f /\ DOMAIN <<f>> = 1 .. 1
  OBVIOUS
<1> QED
  BY <1>1, EmptySeq DEF StackOK, Last

(* An approved tool that hangs waits for its deadline instead. *)
LEMMA ApproveKeeps ==
  ASSUME LoopInv, NEW i \in DOMAIN parked, Approve(i)
  PROVE  LoopInv'
<1>1. TypeInv /\ FrameInv /\ OneTurnEach /\ Apart(parked) /\ (\A k \in Keys : KeyInv(k))
  BY DEF LoopInv
<1>2. /\ Idle /\ UNCHANGED <<idVars, loops, calls, depth, next, due, asked, cancelled,
                             finals, errs>>
  BY DEF Approve
<1>3. due = {} /\ NothingStarts /\ ~InEngine /\ ~Running("call") /\ StackOK(<<>>) /\ Rests(<<>>)
  BY <1>1, <1>2, IdleRests DEF FrameInv
<1>4. CASE Answered(parked[i].key, parked[i].call, <<>>) /\ parked' = RemoveAt(parked, i)
  <2>1. due' = due \ {parked[i]}
    BY <1>2, <1>3
  <2> QED
    BY <1>2, <1>3, <1>4, <2>1, ParkedAnswered DEF idVars
<1>5. CASE /\ parked' = Append(RemoveAt(parked, i), [parked[i] EXCEPT !.why = "deadline", !.timed = TRUE])
           /\ late' = IsLate(parked[i].key)
           /\ UNCHANGED <<stack, waiting>>
  <2>1. PICK t, c, p : /\ t = parked[i].key /\ c = parked[i].call
                       /\ p = [parked[i] EXCEPT !.why = "deadline", !.timed = TRUE]
    OBVIOUS
  <2>2. parked \in Seq(Park) /\ parked[i] \in Park
    BY <1>1, LenProperties DEF TypeInv
  <2>3. t \in Keys /\ c \in Held(parked, t) /\ p \in Park /\ p.key = t /\ p.call = c
    BY <2>1, <2>2 DEF Park, Held
  <2>4. /\ RemoveAt(parked, i) \in Seq(Park) /\ Apart(RemoveAt(parked, i))
        /\ \A k : Held(RemoveAt(parked, i), k)
                    = IF k = t THEN Held(parked, k) \ {c} ELSE Held(parked, k)
    BY <1>1, <2>1, <2>2, Unparked
  <2>5. /\ parked' \in Seq(Park) /\ Apart(parked')
        /\ \A k : Held(parked', k)
             = IF k = t THEN Held(RemoveAt(parked, i), k) \cup {c} ELSE Held(RemoveAt(parked, i), k)
    <3> DEFINE kept == RemoveAt(parked, i)
    <3>1. kept \in Seq(Park) /\ Apart(kept) /\ p.call \notin Held(kept, p.key)
      BY <2>3, <2>4
    <3> HIDE DEF kept
    <3>2. /\ Append(kept, p) \in Seq(Park) /\ Apart(Append(kept, p))
          /\ \A k : Held(Append(kept, p), k)
                      = IF k = p.key THEN Held(kept, k) \cup {p.call} ELSE Held(kept, k)
      BY <2>3, <3>1, Parking
    <3> QED
      BY <1>5, <2>1, <2>3, <3>2 DEF kept
  <2>6. \A k : Held(parked', k) = Held(parked, k)
    BY <2>3, <2>4, <2>5
  <2>7. Waits(t) /\ Busy(t) /\ t \in asked
    BY <1>1, <1>3, <2>3 DEF KeyInv, CallsOf, BooksOf, Waits, Busy, NothingStarts
  <2>8. /\ stack' = stack /\ waiting' = waiting /\ late' = IsLate(t)
        /\ ridOf' = ridOf /\ ridSeq' = ridSeq /\ owner' = owner /\ live' = live
        /\ loops' = loops /\ calls' = calls /\ depth' = depth /\ next' = next /\ due' = due
        /\ asked' = asked /\ cancelled' = cancelled /\ finals' = finals /\ errs' = errs
    BY <1>2, <1>5, <2>1 DEF idVars
  <2>9. TypeInv'
    BY <1>1, <1>3, <2>3, <2>5, <2>8 DEF TypeInv, IsLate
  <2>10. FrameInv' /\ OneTurnEach' /\ Apart(parked)'
    BY <1>1, <2>5, <2>8 DEF FrameInv, OneTurnEach, StackOK, InEngine, Running, Top
  <2>11. ASSUME NEW k \in Keys
         PROVE  KeyInv(k)'
    <3>1. /\ Held(parked, k)' = Held(parked, k) /\ Turns(k)' = Turns(k)
          /\ (Streams(k)' <=> Streams(k)) /\ (Starts(k)' <=> Starts(k)) /\ ToRun(k)' = ToRun(k)
      BY <2>6, <2>8 DEF Turns, Streams, Starts, ToRun, Running, Top
    <3>2. CASE k # t
      <4>1. k \in late' <=> k \in late
        BY <2>8, <3>2 DEF IsLate
      <4>2. Same(k)
        BY <2>8, <3>1, <4>1 DEF Same
      <4> QED
        BY <1>1, <4>2, Untouched
    <3>3. CASE k = t
      <4>1. CallsOf(k) /\ PhaseOf(k) /\ CountOf(k) /\ BooksOf(k)
        BY <1>1 DEF KeyInv
      <4>2. CallsOf(k)' /\ PhaseOf(k)' /\ CountOf(k)'
        BY <2>8, <3>1, <4>1 DEF CallsOf, PhaseOf, CountOf, Waits
      <4>3. k \in asked \ cancelled => late' = late
        BY <2>7, <2>8, <3>3, <4>1 DEF BooksOf, IsLate
      <4>4. Busy(k)' <=> Busy(k)
        BY <2>8, <3>1 DEF Busy, Waits
      <4>5. BooksOf(k)'
        BY <2>7, <2>8, <3>3, <4>1, <4>3, <4>4 DEF BooksOf
      <4> QED
        BY <4>2, <4>5 DEF KeyInv
    <3> QED
      BY <3>2, <3>3
  <2> QED
    BY <2>9, <2>10, <2>11 DEF LoopInv
<1> QED
  BY <1>4, <1>5 DEF Approve

LEMMA DenyKeeps ==
  ASSUME LoopInv, NEW i \in DOMAIN parked, Deny(i)
  PROVE  LoopInv'
<1>1. /\ Idle /\ UNCHANGED <<idVars, loops, calls, depth, next, due, asked, cancelled,
                             finals, errs>>
      /\ parked' = RemoveAt(parked, i) /\ Answered(parked[i].key, parked[i].call, <<>>)
  BY DEF Deny
<1>2. due = {} /\ NothingStarts /\ StackOK(<<>>) /\ Rests(<<>>)
  BY <1>1, IdleRests DEF LoopInv, FrameInv
<1>3. due' = due \ {parked[i]}
  BY <1>1, <1>2
<1> QED
  BY <1>1, <1>2, <1>3, ParkedAnswered DEF idVars

(* tick looks for the first parked tool that is due. *)
LEMMA FirstDueIsDue ==
  ASSUME parked \in Seq(Park), due \subseteq ToSet(parked), due # {}
  PROVE  FirstDue \in DOMAIN parked /\ parked[FirstDue] \in due
<1> DEFINE I == {i \in 1 .. Len(parked) : parked[i] \in due}
<1>1. Len(parked) \in Nat /\ DOMAIN parked = 1 .. Len(parked)
  BY LenProperties
<1>2. I \in SUBSET (1 .. Len(parked)) /\ I # {}
  BY <1>1 DEF ToSet
<1>3. FirstDue = Min(I)
  BY <1>2 DEF FirstDue, SelectInSeq
<1>4. Min(I) \in I
  BY <1>1, <1>2, ExtremesExist
<1> QED
  BY <1>1, <1>3, <1>4

LEMMA TimeOutKeeps ==
  ASSUME LoopInv, TimeOut
  PROVE  LoopInv'
<1>1. TypeInv /\ FrameInv
  BY DEF LoopInv
<1>2. PICK i : i = FirstDue
  OBVIOUS
<1>3. /\ stack # <<>> /\ Top.at = "tick" /\ due # {}
      /\ due' = due \ {parked[i]} /\ parked' = RemoveAt(parked, i)
      /\ Answered(parked[i].key, parked[i].call, stack)
      /\ UNCHANGED <<idVars, loops, calls, depth, next, asked, cancelled, finals, errs>>
  BY <1>2 DEF TimeOut, Running
<1>4. i \in DOMAIN parked
  BY <1>1, <1>2, <1>3, FirstDueIsDue DEF TypeInv
<1>5. StackOK(stack) /\ Rests(stack)
  <2>1. StackOK(stack) /\ Len(stack) \in Nat /\ DOMAIN stack = 1 .. Len(stack)
    BY <1>1, LenProperties DEF FrameInv, StackOK
  <2> QED
    BY <1>3, <2>1 DEF StackOK, Rests, Resting, Top, Last
<1>6. NothingStarts
  BY <1>3 DEF NothingStarts, Starts, ToRun, Running
<1> QED
  BY <1>3, <1>4, <1>5, <1>6, ParkedAnswered

LEMMA TickKeeps ==
  ASSUME LoopInv, NEW ripe \in SUBSET ToSet(parked), Tick(ripe)
  PROVE  LoopInv'
<1> DEFINE f == Frame("tick", NoKey, 0)
<1>1. /\ Idle /\ stack' = <<f>> /\ due' = ripe
      /\ ridOf' = ridOf /\ ridSeq' = ridSeq /\ owner' = owner /\ live' = live
      /\ loops' = loops /\ calls' = calls /\ depth' = depth /\ next' = next
      /\ waiting' = waiting /\ parked' = parked /\ late' = late
      /\ asked' = asked /\ cancelled' = cancelled /\ finals' = finals /\ errs' = errs
  BY DEF Tick, idVars, turnVars, seenVars
<1>2. NothingStarts
  BY <1>1, IdleRests DEF LoopInv, FrameInv
<1>3. f \in Frames /\ f.at = "tick"
  <2>1. "tick" \in Working \cup Resting
    BY DEF Resting
  <2> QED
    BY <2>1, FramesAreFrames
<1> HIDE DEF f
<1>4. StackOK(stack)' /\ Rests(stack)'
  <2>1. /\ <<f>> \in Seq(Frames) /\ Len(<<f>>) = 1 /\ <<f>>[1] = f /\ DOMAIN <<f>> = 1 .. 1
        /\ <<f>> # <<>>
    BY <1>3
  <2> QED
    BY <1>1, <1>3, <2>1 DEF StackOK, Rests, Resting
<1>5. NothingStarts' /\ ~InEngine' /\ ~Running("call")'
  BY <1>4, RestStartsNothing
<1>6. TypeInv' /\ FrameInv'
  BY <1>1, <1>4, <1>5 DEF LoopInv, TypeInv, FrameInv
<1>7. OneTurnEach' /\ Apart(parked)' /\ \A k \in Keys : KeyInv(k)'
  BY <1>1, <1>2, <1>5, QuietStep
<1> QED
  BY <1>6, <1>7 DEF LoopInv

LEMMA ResyncKeeps ==
  ASSUME LoopInv, NEW k \in Keys, Resync(k)
  PROVE  LoopInv'
<1>1. TypeInv /\ FrameInv /\ \A j \in Keys : KeyInv(j)
  BY DEF LoopInv
<1>2. PICK id, t : id = ridOf[k] /\ t = owner[id]
  OBVIOUS
<1> DEFINE f == Frame("resumed", t, id)
<1>3. /\ Idle /\ id \in live /\ late' = IsLate(t) /\ stack' = <<f>>
      /\ ridOf' = ridOf /\ ridSeq' = ridSeq /\ owner' = owner /\ live' = live
      /\ loops' = loops /\ calls' = calls /\ depth' = depth /\ next' = next
      /\ waiting' = waiting /\ parked' = parked /\ due' = due
      /\ asked' = asked /\ cancelled' = cancelled /\ finals' = finals /\ errs' = errs
  BY <1>2 DEF Resync, idVars, turnVars
<1>4. due = {} /\ NothingStarts
  BY <1>1, <1>3, IdleRests DEF FrameInv
<1>5. id \in Nat /\ t \in Keys /\ Streams(t) /\ Busy(t)
  <2>1. owner \in Seq(Keys) /\ id \in DOMAIN owner /\ DOMAIN owner = 1 .. Len(owner)
    BY <1>1, <1>3, LenProperties DEF TypeInv
  <2>2. Len(owner) \in Nat /\ owner[id] \in Keys
    BY <2>1, LenProperties
  <2> QED
    BY <1>2, <1>3, <2>1, <2>2 DEF Streams, Busy
<1>6. t \in asked
  BY <1>1, <1>5 DEF KeyInv, BooksOf
<1>7. f \in Frames /\ f.at = "resumed" /\ f.key = t /\ f.id = id
  <2>1. "resumed" \in Working \cup Resting
    BY DEF Working
  <2> QED
    BY <1>5, <2>1, FramesAreFrames
<1> HIDE DEF f
<1>8. stack' # <<>> /\ Last(stack') = f /\ StackOK(stack')
  BY <1>3, <1>4, <1>6, <1>7, OneFrame
<1>9. FrameInv' /\ NothingStarts'
  BY <1>2, <1>3, <1>7, <1>8
     DEF FrameInv, StackOK, InEngine, NothingStarts, Starts, ToRun, Running, Top
<1>10. TypeInv'
  BY <1>1, <1>3, <1>5 DEF TypeInv, IsLate
<1>11. OneTurnEach' /\ Apart(parked)' /\ \A j \in Keys : KeyInv(j)'
  BY <1>3, <1>4, <1>5, <1>9, QuietStep
<1> QED
  BY <1>9, <1>10, <1>11 DEF LoopInv

LEMMA CompletionKeeps ==
  ASSUME LoopInv, NEW t \in Keys, Completion(t)
  PROVE  LoopInv'
<1> DEFINE f == Frame("turn", t, 0)
<1>1. TypeInv /\ FrameInv /\ OneTurnEach /\ Apart(parked) /\ (\A k \in Keys : KeyInv(k))
  BY DEF LoopInv
<1>2. /\ Idle /\ t \notin asked /\ asked' = asked \cup {t} /\ stack' = <<f>>
      /\ ridSeq' = ridSeq + 1 /\ ridOf' = [ridOf EXCEPT ![t] = ridSeq + 1]
      /\ loops' = loops \cup {t}
      /\ owner' = owner /\ live' = live /\ calls' = calls /\ depth' = depth /\ next' = next
      /\ waiting' = waiting /\ parked' = parked /\ due' = due
      /\ cancelled' = cancelled /\ finals' = finals /\ errs' = errs /\ late' = late
  BY DEF Completion, turnVars, seenVars
<1>3. due = {} /\ NothingStarts
  BY <1>1, <1>2, IdleRests DEF FrameInv
<1>4. f \in Frames /\ f.at = "turn" /\ f.key = t
  <2>1. "turn" \in Working \cup Resting
    BY DEF Working
  <2> QED
    BY <2>1, FramesAreFrames
<1> HIDE DEF f
<1>5. stack' # <<>> /\ Last(stack') = f /\ StackOK(stack)'
  <2>1. /\ <<f>> \in Seq(Frames) /\ Len(<<f>>) = 1 /\ <<f>>[1] = f
        /\ DOMAIN <<f>> = 1 .. 1 /\ <<f>> # <<>>
    BY <1>4
  <2> QED
    BY <1>2, <1>3, <1>4, <2>1 DEF StackOK, Last
<1>6. TypeInv'
  <2>1. ridSeq + 1 \in Nat
    BY <1>1 DEF TypeInv
  <2> QED
    BY <1>1, <1>2, <2>1 DEF TypeInv
<1>7. FrameInv' /\ OneTurnEach' /\ Apart(parked)'
  BY <1>1, <1>2, <1>4, <1>5 DEF FrameInv, OneTurnEach, InEngine, Running, Top
<1>8. /\ \A k \in Keys : ToRun(k)' = {} /\ ToRun(k) = {} /\ ~Starts(k)
      /\ \A k \in Keys : Starts(k)' <=> k = t
  BY <1>3, <1>4, <1>5 DEF NothingStarts, Starts, ToRun, Running, Top
<1>9. \A k \in Keys : Held(parked, k)' = Held(parked, k) /\ Turns(k)' = Turns(k)
                      /\ (Streams(k)' <=> Streams(k)) /\ (Waits(k)' <=> Waits(k))
  BY <1>2 DEF Turns, Streams, Waits
<1>10. ASSUME NEW k \in Keys \ {t}
       PROVE  Same(k)
  <2>1. ridOf'[k] = ridOf[k]
    BY <1>1, <1>2 DEF TypeInv
  <2> QED
    BY <1>2, <1>8, <1>9, <2>1 DEF Same
<1>11. KeyInv(t)'
  <2>1. CallsOf(t) /\ PhaseOf(t) /\ BooksOf(t)
    BY <1>1 DEF KeyInv
  <2>2. ~Streams(t)' /\ ~Waits(t)' /\ Starts(t)' /\ Turns(t)' = {}
    BY <1>2, <1>8, <1>9, <2>1 DEF BooksOf, Busy
  <2>3. CallsOf(t)' /\ PhaseOf(t)'
    BY <1>2, <1>8, <1>9, <2>1, <2>2 DEF CallsOf, PhaseOf
  <2>4. CountOf(t)'
    <3>1. depth'[t] \in Nat
      BY <1>6, LoopAssumption DEF TypeInv
    <3>2. Cardinality({}) = 0
      BY FS_EmptySet
    <3> QED
      BY <2>2, <3>1, <3>2 DEF CountOf
  <2>5. BooksOf(t)'
    BY <1>2, <2>1, <2>2 DEF BooksOf, Busy
  <2> QED
    BY <2>3, <2>4, <2>5 DEF KeyInv
<1> QED
  BY <1>1, <1>6, <1>7, <1>10, <1>11, Untouched DEF LoopInv

LEMMA AnsweredAboveKeeps ==
  ASSUME LoopInv, NEW t \in Keys, AnsweredAbove(t)
  PROVE  LoopInv'
<1>1. TypeInv /\ FrameInv /\ OneTurnEach /\ Apart(parked) /\ (\A k \in Keys : KeyInv(k))
  BY DEF LoopInv
<1>2. /\ Idle /\ t \notin asked /\ asked' = asked \cup {t} /\ stack' = stack
      /\ ridSeq' = ridSeq + 1 /\ ridOf' = [ridOf EXCEPT ![t] = ridSeq + 1]
      /\ loops' = loops \ {t} /\ late' = IsLate(t)
      /\ \/ finals' = [finals EXCEPT ![t] = @ + 1] /\ errs' = errs
         \/ errs' = [errs EXCEPT ![t] = @ + 1] /\ finals' = finals
      /\ owner' = owner /\ live' = live /\ calls' = calls /\ depth' = depth /\ next' = next
      /\ waiting' = waiting /\ parked' = parked /\ due' = due /\ cancelled' = cancelled
  BY DEF AnsweredAbove, EmitFinal, EmitError, turnVars
<1>3. /\ CallsOf(t) /\ PhaseOf(t) /\ CountOf(t) /\ BooksOf(t)
      /\ finals[t] = 0 /\ errs[t] = 0 /\ ~Busy(t)
  BY <1>1, <1>2 DEF KeyInv, BooksOf
<1>4. late' = late
  BY <1>2, <1>3 DEF IsLate
<1>5. /\ finals' \in [Keys -> Nat] /\ errs' \in [Keys -> Nat]
      /\ finals'[t] + errs'[t] = 1
  <2>1. finals \in [Keys -> Nat] /\ errs \in [Keys -> Nat]
    BY <1>1 DEF TypeInv
  <2> QED
    BY <1>2, <1>3, <2>1
<1>6. TypeInv'
  <2>1. ridSeq + 1 \in Nat
    BY <1>1 DEF TypeInv
  <2> QED
    BY <1>1, <1>2, <1>4, <1>5, <2>1 DEF TypeInv
<1>7. FrameInv' /\ OneTurnEach' /\ Apart(parked)'
  BY <1>1, <1>2 DEF FrameInv, StackOK, OneTurnEach, InEngine, Running, Top, Idle
<1>8. \A k \in Keys : /\ Held(parked, k)' = Held(parked, k) /\ Turns(k)' = Turns(k)
                      /\ (Streams(k)' <=> Streams(k)) /\ (Waits(k)' <=> Waits(k))
                      /\ (Starts(k)' <=> Starts(k)) /\ ToRun(k)' = ToRun(k)
  BY <1>2 DEF Turns, Streams, Waits, Starts, ToRun, Running, Top
<1>9. ASSUME NEW k \in Keys \ {t}
      PROVE  Same(k)
  <2>1. ridOf'[k] = ridOf[k] /\ finals'[k] = finals[k] /\ errs'[k] = errs[k]
    BY <1>1, <1>2 DEF TypeInv
  <2> QED
    BY <1>2, <1>4, <1>8, <2>1 DEF Same
<1>10. KeyInv(t)'
  <2>1. CallsOf(t)' /\ PhaseOf(t)' /\ CountOf(t)'
    BY <1>2, <1>3, <1>8 DEF CallsOf, PhaseOf, CountOf
  <2>2. BooksOf(t)'
    BY <1>2, <1>3, <1>4, <1>5, <1>8 DEF BooksOf, Busy
  <2> QED
    BY <2>1, <2>2 DEF KeyInv
<1> QED
  BY <1>1, <1>6, <1>7, <1>9, <1>10, Untouched DEF LoopInv

(* A cancel settles the label that owns the request its id names, if that  *)
(* is live, and the label asked for when nothing has settled it yet.       *)
LEMMA CancelKeeps ==
  ASSUME LoopInv, NEW t \in Keys, Cancel(t)
  PROVE  LoopInv'
<1>1. TypeInv /\ FrameInv /\ OneTurnEach /\ Apart(parked) /\ (\A k \in Keys : KeyInv(k))
  BY DEF LoopInv
<1>2. PICK id, H, S : id = ridOf[t] /\ H = Hit(t) /\ S = Settled(t)
  OBVIOUS
<1>3. /\ Idle /\ id # 0
      /\ cancelled' = cancelled \cup {t} /\ live' = live \ {id}
      /\ loops' = loops \ ({t} \cup S)
      /\ calls' = [j \in Keys |-> IF j \in H THEN <<>> ELSE calls[j]]
      /\ finals' = [j \in Keys |-> IF j \in S THEN finals[j] + 1 ELSE finals[j]]
      /\ late' = late \cup {j \in S : finals[j] + errs[j] > 0}
      /\ stack' = stack /\ ridOf' = ridOf /\ ridSeq' = ridSeq /\ owner' = owner
      /\ depth' = depth /\ next' = next /\ waiting' = waiting /\ parked' = parked
      /\ due' = due /\ asked' = asked /\ errs' = errs
  BY <1>2 DEF Cancel
<1>4. H = (IF id \in live THEN {owner[id]} ELSE {}) /\ H \subseteq S /\ S \subseteq H \cup {t}
  BY <1>2 DEF Hit, Settled
<1>5. H \subseteq Keys /\ S \subseteq Keys
  <2>1. \A a \in live : owner[a] \in Keys
    BY <1>1, ElementOfSeq, LenProperties DEF TypeInv
  <2> QED
    BY <1>4, <2>1
<1>6. /\ NothingStarts /\ NothingStarts' /\ ~InEngine' /\ ~Running("call")'
  <2>1. NothingStarts
    BY <1>1, <1>3, IdleRests DEF FrameInv
  <2> QED
    BY <1>3, <2>1 DEF NothingStarts, Starts, ToRun, InEngine, Running, Top, Idle
<1>7. calls' \in [Keys -> Seq(Kinds)] /\ finals' \in [Keys -> Nat]
  <2>1. calls \in [Keys -> Seq(Kinds)] /\ finals \in [Keys -> Nat] /\ <<>> \in Seq(Kinds)
    BY <1>1, EmptySeq DEF TypeInv
  <2>2. \A j \in Keys : calls[j] \in Seq(Kinds) /\ finals[j] \in Nat /\ finals[j] + 1 \in Nat
    BY <2>1
  <2> QED
    BY <1>3, <2>1, <2>2
<1>8. TypeInv'
  BY <1>1, <1>3, <1>5, <1>7 DEF TypeInv
<1>9. FrameInv' /\ OneTurnEach' /\ Apart(parked)'
  BY <1>1, <1>3, <1>6 DEF FrameInv, StackOK, OneTurnEach
<1>10. t \in asked
  BY <1>1, <1>2, <1>3 DEF KeyInv, BooksOf
<1>11. ASSUME NEW j \in H
       PROVE  KeyInv(j)'
  <2>1. j \in Keys /\ j \in S /\ id \in live /\ owner[id] = j
    BY <1>4, <1>5, <1>11
  <2>2. finals[j] \in Nat /\ errs[j] \in Nat
    BY <1>1, <2>1 DEF TypeInv
  <2>3. /\ finals'[j] + errs'[j] = finals[j] + errs[j] + 1
        /\ j \in late' => j \in late \/ finals[j] + errs[j] > 0
        /\ calls'[j] = <<>> /\ j \notin loops'
    BY <1>3, <1>11, <2>1, <2>2
  <2> QED
    BY <1>1, <1>3, <1>6, <2>1, <2>3, LabelSettles
<1>12. ASSUME NEW j \in Keys \ H
       PROVE  (Streams(j)' <=> Streams(j)) /\ Turns(j)' = Turns(j) /\ calls'[j] = calls[j]
  <2>1. CASE id \in live
    <3>1. owner[id] # j
      BY <1>4, <1>12, <2>1
    <3> QED
      BY <1>1, <1>3, <1>12, <2>1, <3>1, OthersStream
  <2>2. CASE id \notin live
    <3>1. live' = live
      BY <1>3, <2>2
    <3> QED
      BY <1>3, <1>12, <3>1 DEF Streams, Turns
  <2> QED
    BY <2>1, <2>2
<1>13. ASSUME NEW j \in Keys \ (H \cup {t})
       PROVE  Same(j)
  <2>1. /\ finals'[j] = finals[j] /\ (j \in late' <=> j \in late)
        /\ (j \in loops' <=> j \in loops) /\ (j \in cancelled' <=> j \in cancelled)
    BY <1>3, <1>4, <1>13
  <2> QED
    BY <1>3, <1>6, <1>12, <2>1 DEF Same, NothingStarts
<1>14. ASSUME t \notin H
       PROVE  KeyInv(t)'
  <2>1. CallsOf(t) /\ PhaseOf(t) /\ CountOf(t) /\ BooksOf(t)
    BY <1>1 DEF KeyInv
  <2>2. /\ (Streams(t)' <=> Streams(t)) /\ Turns(t)' = Turns(t) /\ calls'[t] = calls[t]
        /\ ToRun(t) = {} /\ ToRun(t)' = {} /\ ~Starts(t) /\ ~Starts(t)'
    BY <1>6, <1>12, <1>14 DEF NothingStarts
  <2>3. CallsOf(t)' /\ PhaseOf(t)' /\ CountOf(t)'
    BY <1>3, <2>1, <2>2 DEF CallsOf, PhaseOf, CountOf, Waits
  <2>4. BooksOf(t)'
    BY <1>3, <1>10 DEF BooksOf
  <2> QED
    BY <2>3, <2>4 DEF KeyInv
<1>15. \A j \in Keys : KeyInv(j)'
  BY <1>1, <1>11, <1>13, <1>14, Untouched
<1> QED
  BY <1>8, <1>9, <1>15 DEF LoopInv

-----------------------------------------------------------------------------
(* The theorems.                                                           *)

LEMMA LoopInit == Init => LoopInv
<1> SUFFICES ASSUME Init
             PROVE  LoopInv
  OBVIOUS
<1>1. /\ stack = <<>> /\ owner = <<>> /\ parked = <<>> /\ DOMAIN stack = {} /\ DOMAIN owner = {}
      /\ DOMAIN parked = {} /\ Len(stack) = 0
  BY DEF Init
<1>2. TypeInv
  <2>1. \A S : <<>> \in Seq(S)
    BY EmptySeq
  <2> QED
    BY <1>1, <2>1, LoopAssumption DEF Init, TypeInv
<1>3. FrameInv /\ OneTurnEach /\ Apart(parked)
  <2>1. StackOK(stack)
    BY <1>1, EmptySeq DEF Init, StackOK
  <2> QED
    BY <1>1, <2>1 DEF Init, FrameInv, OneTurnEach, Apart, InEngine, Running
<1>4. ASSUME NEW k \in Keys
      PROVE  KeyInv(k)
  <2>1. /\ ~Streams(k) /\ ~Waits(k) /\ ~Starts(k) /\ Turns(k) = {} /\ ToRun(k) = {}
        /\ Held(parked, k) = {} /\ waiting[k] = {}
    BY <1>1 DEF Init, Streams, Waits, Starts, Turns, ToRun, Held, Running
  <2>2. Cardinality(Turns(k)) = 0 /\ depth[k] = 0
    BY <2>1, FS_EmptySet DEF Init
  <2> QED
    BY <2>1, <2>2 DEF Init, KeyInv, CallsOf, PhaseOf, CountOf, BooksOf, Busy
<1> QED
  BY <1>2, <1>3, <1>4 DEF LoopInv

LEMMA LoopStep == LoopInv /\ [Next]_vars => LoopInv'
<1> SUFFICES ASSUME LoopInv, [Next]_vars
             PROVE  LoopInv'
  OBVIOUS
<1>1. PICK t, id, n : t = Top.key /\ id = Top.id /\ n = Len(owner) + 1
  OBVIOUS
<1>2. CASE Run
  <2>1. CASE StartTurn
    BY <1>1, <2>1, StartTurnKeeps
  <2>2. CASE EmitToken
    BY <2>2, EmitTokenKeeps
  <2>3. CASE \E kind \in Kinds : CollectTool(kind)
    BY <2>3, CollectToolKeeps
  <2>4. CASE Pause
    BY <2>4, PauseKeeps
  <2>5. CASE EngineFails \/ TurnAnswers \/ TooDeep
    BY <2>5, TurnEndsKeep
  <2>6. CASE DispatchTools
    BY <1>1, <2>6, DispatchToolsKeeps
  <2>7. CASE Return
    BY <2>7, ReturnKeeps
  <2>8. CASE RunGroup
    BY <1>1, <2>8, RunGroupKeeps
  <2>9. CASE RunTool
    BY <1>1, <2>9, RunToolKeeps
  <2>10. CASE ParkTool
    BY <1>1, <2>10, ParkToolKeeps
  <2>11. CASE TimeOut
    BY <2>11, TimeOutKeeps
  <2>12. CASE TickReturns
    BY <2>12, TickReturnsKeeps
  <2> QED
    BY <1>2, <2>1, <2>2, <2>3, <2>4, <2>5, <2>6, <2>7, <2>8, <2>9, <2>10, <2>11, <2>12 DEF Run
<1>3. CASE Ask
  BY <1>3, CompletionKeeps, AnsweredAboveKeeps, CancelKeeps, ResyncKeeps DEF Ask
<1>4. CASE \E i \in DOMAIN parked : Approve(i) \/ Deny(i)
  BY <1>4, ApproveKeeps, DenyKeeps
<1>5. CASE \E ripe \in SUBSET ToSet(parked) : Tick(ripe)
  BY <1>5, TickKeeps
<1>6. CASE UNCHANGED vars
  <2>1. /\ stack' = stack /\ ridOf' = ridOf /\ ridSeq' = ridSeq /\ owner' = owner /\ live' = live
        /\ loops' = loops /\ calls' = calls /\ depth' = depth /\ next' = next
        /\ waiting' = waiting /\ parked' = parked /\ due' = due /\ late' = late
        /\ asked' = asked /\ cancelled' = cancelled /\ finals' = finals /\ errs' = errs
    BY <1>6 DEF vars, idVars, turnVars, seenVars
  <2>2. TypeInv' /\ FrameInv' /\ OneTurnEach' /\ Apart(parked)'
    BY <2>1 DEF LoopInv, TypeInv, FrameInv, StackOK, OneTurnEach, InEngine, Running, Top
  <2>3. \A k \in Keys : Same(k)
    BY <2>1 DEF Same, ToRun, Turns, Streams, Starts, Running, Top
  <2> QED
    BY <2>2, <2>3, Untouched DEF LoopInv
<1> QED
  BY <1>2, <1>3, <1>4, <1>5, <1>6 DEF Next

LEMMA LoopAlways == Spec => []LoopInv
<1> QED
  BY LoopInit, LoopStep, PTL DEF Spec

(* Parked calls, as the properties name them. *)
LEMMA HeldIsParked ==
  ASSUME NEW k
  PROVE  Held(parked, k) = {p.call : p \in {q \in ToSet(parked) : q.key = k}}
BY DEF Held, ToSet

(* A label never has two turns of the engine at once, nor a turn and a     *)
(* parked tool, and the depth cap bounds its turns: nothing is held while  *)
(* an approval waits (host.ts #turn, #park; engine.ts #settle).            *)
THEOREM OneTurnAtATime == Spec => []TurnsDoNotOverlap
<1>1. LoopInv => TurnsDoNotOverlap
  <2> SUFFICES ASSUME LoopInv
               PROVE  TurnsDoNotOverlap
    OBVIOUS
  <2>1. TypeInv /\ OneTurnEach /\ \A k \in Keys : KeyInv(k)
    BY DEF LoopInv
  <2>2. ASSUME NEW k \in Keys
        PROVE  Cardinality(Turns(k)) <= DepthCap + 1
    <3>1. CountOf(k) /\ depth[k] \in 0 .. DepthCap /\ DepthCap \in Nat
      BY <2>1, LoopAssumption DEF KeyInv, TypeInv
    <3>2. Cardinality(Turns(k)) \in Nat
      <4>1. Turns(k) \in SUBSET (1 .. Len(owner)) /\ Len(owner) \in Nat
        BY <2>1, LenProperties DEF Turns, TypeInv
      <4>2. IsFiniteSet(1 .. Len(owner))
        BY <4>1, FS_Interval
      <4> QED
        BY <4>1, <4>2, FS_Subset, FS_CardinalityType
    <3> QED
      BY <3>1, <3>2 DEF CountOf
  <2>3. ASSUME NEW a \in live
        PROVE  waiting[owner[a]] = {}
    <3>1. owner[a] \in Keys
      BY <2>1, ElementOfSeq, LenProperties DEF TypeInv
    <3> QED
      BY <2>1, <3>1 DEF KeyInv, PhaseOf, Streams, Waits
  <2>4. ASSUME NEW i \in DOMAIN parked
        PROVE  Turns(parked[i].key) \cap live = {}
    <3>1. parked[i].key \in Keys /\ parked[i].call \in Held(parked, parked[i].key)
      <4>1. parked \in Seq(Park) /\ parked[i] \in Park
        BY <2>1, LenProperties DEF TypeInv
      <4> QED
        BY <4>1 DEF Park, Held
    <3>2. ~Streams(parked[i].key)
      BY <2>1, <3>1 DEF KeyInv, CallsOf, PhaseOf, Waits
    <3> QED
      BY <3>2 DEF Streams, Turns
  <2> QED
    BY <2>1, <2>2, <2>3, <2>4 DEF TurnsDoNotOverlap, OneTurnEach
<1> QED
  BY <1>1, LoopAlways, PTL

(* A mutating call runs, or waits for its approval, with no other call of  *)
(* its turn beside it (host.ts #groups).                                   *)
THEOREM MutationsAreSerial == Spec => []MutatingRunsAlone
<1>1. LoopInv => MutatingRunsAlone
  BY DEF LoopInv, KeyInv, CallsOf, MutatingRunsAlone
<1> QED
  BY <1>1, LoopAlways, PTL

(* No call is lost and none is answered twice: when nothing runs, the      *)
(* calls without an answer are the parked ones (host.ts #dispatchTools).   *)
THEOREM NoCallIsLost == Spec => []UnansweredIsParked
<1>1. LoopInv => UnansweredIsParked
  <2> SUFFICES ASSUME LoopInv, Idle
               PROVE  UnansweredIsParked
    BY DEF UnansweredIsParked
  <2>1. Apart(parked) /\ \A k \in Keys : waiting[k] = Held(parked, k) \cup ToRun(k)
    BY DEF LoopInv, KeyInv, CallsOf
  <2>2. \A k \in Keys : ToRun(k) = {}
    BY DEF ToRun, Running, Idle
  <2> QED
    BY <2>1, <2>2, HeldIsParked DEF UnansweredIsParked, Apart
<1> QED
  BY <1>1, LoopAlways, PTL

(* No loop is stranded: one that is not over and that nobody cancelled     *)
(* waits for a parked tool or in a turn of the engine, and one that is     *)
(* over ended with exactly one terminal event or error, its last.          *)
THEOREM NoLoopIsStranded == Spec => []LoopIsHeldOrSettled
<1>1. LoopInv => LoopIsHeldOrSettled
  <2> SUFFICES ASSUME LoopInv, Idle, NEW k \in asked \ cancelled
               PROVE  IF k \in loops
                      THEN \/ \E p \in ToSet(parked) : p.key = k
                           \/ Turns(k) \cap live # {}
                      ELSE finals[k] + errs[k] = 1 /\ k \notin late
    BY DEF LoopIsHeldOrSettled
  <2>1. k \in Keys /\ live \subseteq DOMAIN owner /\ CallsOf(k) /\ BooksOf(k)
    BY DEF LoopInv, TypeInv, KeyInv
  <2>2. ToRun(k) = {} /\ ~Starts(k)
    BY DEF ToRun, Starts, Running, Idle
  <2>3. CASE k \in loops
    <3>1. Streams(k) \/ Waits(k)
      BY <2>1, <2>2, <2>3 DEF BooksOf, Busy
    <3>2. Streams(k) => Turns(k) \cap live # {}
      BY <2>1 DEF Streams, Turns
    <3>3. Waits(k) => \E p \in ToSet(parked) : p.key = k
      BY <2>1, <2>2, HeldIsParked DEF CallsOf, Waits
    <3> QED
      BY <2>3, <3>1, <3>2, <3>3
  <2>4. CASE k \notin loops
    BY <2>1, <2>4 DEF BooksOf
  <2> QED
    BY <2>3, <2>4
<1> QED
  BY <1>1, LoopAlways, PTL
=============================================================================
