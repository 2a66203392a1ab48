-------------------------- MODULE SinkLedger_proofs --------------------------
(* Theorems about SinkLedger, for every number of threads, addresses and   *)
(* requests.                                                               *)
EXTENDS SinkLedger, FiniteSetTheorems, TLAPS

-----------------------------------------------------------------------------
(* Types.                                                                  *)

Doings == {"idle", "open", "entered", "closing", "sweep"}
Lives  == {"new", "live", "refused", "settled", "dropped"}
Calls  == [token : Tokens \cup {None}, final : BOOLEAN, bound : BOOLEAN]

DriverTypes ==
  /\ pc \in [Drivers -> Doings]
  /\ ctx \in [Drivers -> Addresses \cup {NoCtx}]
  /\ entered \in [Drivers -> Tokens \cup {None}]

LedgerTypes ==
  /\ sinks \in [Tokens -> Addresses \cup {NoCtx}]
  /\ nextToken \in 1 .. MaxTokens + 1
  /\ listenerRefs \in Int
  /\ ref \in [Tokens -> {"none", "held", "deleted"}]

WorkerTypes ==
  /\ owner \in [Tokens -> Drivers \cup {Nobody}]
  /\ life \in [Tokens -> Lives]
  /\ serving \in [Drivers -> Tokens \cup {None}]
  /\ call \in [Drivers -> Calls]
  /\ attached \in [Drivers -> BOOLEAN]

TypeInv == DriverTypes /\ LedgerTypes /\ WorkerTypes

-----------------------------------------------------------------------------
(* Who holds what.  The first two parts hold whatever the allocator does.  *)

(* The tokens handed out are those below nextToken; a driver in the middle *)
(* of a request has handed out the one it is submitting (request).         *)
TokensInOrder ==
  /\ \A t \in Tokens : t < nextToken => owner[t] \in Drivers
  /\ \A t \in Tokens : t >= nextToken => life[t] = "new" /\ sinks[t] = NoCtx /\ ref[t] = "none"
  /\ \A d \in Drivers :
       /\ pc[d] = "entered" <=> entered[d] # None
       /\ pc[d] = "entered" => entered[d] < nextToken /\ owner[entered[d]] = d

(* A driver drives a context unless it is idle. *)
DrivesContext == \A d \in Drivers : ctx[d] = NoCtx <=> pc[d] = "idle"

(* A sink names the context of the driver that entered it. *)
SinksAreOwned ==
  \A t \in LiveSinks : t < nextToken /\ sinks[t] = ctx[owner[t]]

(* What another's sweep took was entered and is no longer in the ledger;   *)
(* nothing else is missed.                                                 *)
TakenAreGone ==
  /\ taken \subseteq Tokens \ LiveSinks
  /\ \A t \in taken : t < nextToken
  /\ missed \subseteq taken

(* A request not yet answered is still being submitted and has its sink,   *)
(* unless another's sweep took it; so has an accepted one, whose context   *)
(* is not past its close, and which its worker is serving once the close   *)
(* has begun.  A refused one has none.                                     *)
LifeOfRequest ==
  \A t \in Tokens : t < nextToken =>
    /\ life[t] = "new" => entered[owner[t]] = t /\ t \in LiveSinks \cup taken
    /\ life[t] = "live" =>
         /\ t \in LiveSinks \cup taken
         /\ pc[owner[t]] \in {"open", "entered", "closing"}
         /\ pc[owner[t]] = "closing" => serving[owner[t]] = t
    /\ life[t] = "refused" => t \notin LiveSinks

(* A worker serves its own driver's request, live or just settled, while   *)
(* the context is there.                                                   *)
ServesOwn ==
  \A d \in Drivers : serving[d] # None =>
    /\ serving[d] < nextToken /\ owner[serving[d]] = d
    /\ life[serving[d]] \in {"live", "settled"}
    /\ pc[d] \in {"open", "entered", "closing"}

(* A delivery is of the request its worker serves, whose sink is there or  *)
(* was taken by another's sweep; its event is the terminal one exactly     *)
(* when the request has settled; and a listener is called on an attached   *)
(* thread.                                                                 *)
CallsWhatItServes ==
  \A d \in Drivers : call[d] # NoCall =>
    /\ call[d].token = serving[d] /\ serving[d] # None
    /\ serving[d] \in LiveSinks \cup taken
    /\ call[d].final <=> life[serving[d]] = "settled"
    /\ call[d].bound => attached[d]

(* A thread attached here is in the middle of a request, or lost an event. *)
AttachedServes ==
  \A d \in Drivers : attached[d] =>
    \/ serving[d] # None /\ (life[serving[d]] = "live" \/ call[d] # NoCall)
    \/ \E t \in missed : owner[t] = d

(* The inductive invariant. *)
BaseInv == TypeInv /\ LedgerBalances /\ TokensInOrder /\ DrivesContext

SinksInv ==
  /\ SinksAreOwned /\ TakenAreGone
  /\ LifeOfRequest /\ ServesOwn /\ CallsWhatItServes /\ AttachedServes
  /\ OnlyUnfinishedHold

LedgerInv == BaseInv /\ SinksInv

-----------------------------------------------------------------------------
(* The ledger keeps its balance.                                           *)

LEMMA LiveIsFinite == IsFiniteSet(LiveSinks) /\ Cardinality(LiveSinks) \in Nat
<1>1. IsFiniteSet(Tokens)
  <2>1. 1 \in Int /\ MaxTokens \in Int
    BY LedgerAssumption
  <2> QED
    BY <2>1, FS_Interval DEF Tokens
<1>2. LiveSinks \in SUBSET Tokens
  BY DEF LiveSinks
<1>3. IsFiniteSet(LiveSinks)
  BY <1>1, <1>2, FS_Subset
<1> QED
  BY <1>3, FS_CardinalityType

(* Retiring takes exactly the tokens named out of the ledger, with their   *)
(* references.                                                             *)
LEMMA RetireBalances ==
  ASSUME LedgerTypes, LedgerBalances, NEW tokens, Retire(tokens), nextToken' = nextToken
  PROVE  /\ LedgerTypes' /\ LedgerBalances'
         /\ LiveSinks' = LiveSinks \ tokens
         /\ \A t \in LiveSinks' : sinks'[t] = sinks[t]
         /\ \A t \in Tokens : ref[t] = "none" => ref'[t] = "none"
<1> DEFINE gone == tokens \cap LiveSinks
<1>1. LiveSinks' = LiveSinks \ gone
  BY DEF Retire, LiveSinks, LedgerTypes
<1>2. \A t \in Tokens : ref'[t] = IF t \in gone THEN "deleted" ELSE ref[t]
  BY DEF Retire
<1>3. LiveSinks' = {t \in Tokens : ref'[t] = "held"}
  BY <1>1, <1>2 DEF LedgerBalances, LiveSinks
<1>4. Cardinality(LiveSinks \ gone) = Cardinality(LiveSinks) - Cardinality(gone)
  <2>1. LiveSinks \cap gone = gone
    OBVIOUS
  <2> QED
    BY <2>1, LiveIsFinite, FS_Difference
<1>5. listenerRefs' = Cardinality(LiveSinks')
  BY <1>1, <1>4 DEF Retire, LedgerBalances
<1>6. LedgerTypes'
  <2>1. Cardinality(gone) \in Nat
    BY LiveIsFinite, FS_Subset, FS_CardinalityType
  <2> QED
    BY <2>1 DEF LedgerTypes, Retire
<1>7. \A t \in LiveSinks' : sinks'[t] = sinks[t]
  BY <1>1 DEF Retire, LiveSinks
<1>8. \A t \in Tokens : ref[t] = "none" => ref'[t] = "none"
  BY <1>2, <1>3 DEF LedgerBalances, LiveSinks
<1> QED
  BY <1>1, <1>3, <1>5, <1>6, <1>7, <1>8 DEF LedgerBalances

(* Entering a request adds one sink and one reference. *)
LEMMA EnterBalances ==
  ASSUME TypeInv, LedgerBalances, TokensInOrder, DrivesContext, NEW d \in Drivers, Enter(d)
  PROVE  /\ TypeInv' /\ LedgerBalances'
         /\ nextToken \in Tokens /\ nextToken \notin LiveSinks
         /\ LiveSinks' = LiveSinks \cup {nextToken}
<1> USE DEF TypeInv, LedgerTypes
<1>1. nextToken \in Tokens /\ ctx[d] \in Addresses
  <2>1. ctx[d] \in Addresses \cup {NoCtx} /\ ctx[d] # NoCtx
    BY DEF Enter, DrivesContext, DriverTypes
  <2> QED
    BY <2>1, LedgerAssumption DEF Enter, Tokens
<1>2. nextToken \notin LiveSinks
  BY <1>1, LedgerAssumption DEF TokensInOrder, LiveSinks, Tokens
<1>3. LiveSinks' = LiveSinks \cup {nextToken}
  BY <1>1, LedgerAssumption DEF Enter, LiveSinks
<1>4. Cardinality(LiveSinks') = Cardinality(LiveSinks) + 1
  BY <1>2, <1>3, LiveIsFinite, FS_AddElement
<1>5. LiveSinks' = {t \in Tokens : ref'[t] = "held"}
  BY <1>1, <1>3 DEF Enter, LedgerBalances
<1>6. DriverTypes' /\ WorkerTypes'
  BY <1>1 DEF Enter, DriverTypes, WorkerTypes, Doings, engineVars
<1>7. LedgerTypes'
  BY <1>1, LedgerAssumption DEF Enter, Tokens
<1> QED
  BY <1>1, <1>2, <1>3, <1>4, <1>5, <1>6, <1>7 DEF LedgerBalances, Enter

-----------------------------------------------------------------------------
(* What holds whatever the allocator does with addresses.                  *)

LEMMA BaseInit == Init => BaseInv
<1> SUFFICES ASSUME Init
             PROVE  BaseInv
  OBVIOUS
<1> USE LedgerAssumption DEF Init
<1>1. TypeInv
  BY DEF TypeInv, DriverTypes, LedgerTypes, WorkerTypes, Doings, Lives, Calls, NoCall, None
<1>2. LedgerBalances
  <2>1. LiveSinks = {} /\ {t \in Tokens : ref[t] = "held"} = {}
    BY DEF LiveSinks
  <2> QED
    BY <2>1, FS_EmptySet DEF LedgerBalances
<1>3. TokensInOrder
  BY DEF TokensInOrder, Tokens
<1>4. DrivesContext
  BY DEF DrivesContext
<1> QED
  BY <1>1, <1>2, <1>3, <1>4 DEF BaseInv

(* A step that leaves the ledger alone leaves its balance alone. *)
LEMMA LedgerKept ==
  ASSUME LedgerTypes, LedgerBalances, UNCHANGED ledgerVars
  PROVE  LedgerTypes' /\ LedgerBalances' /\ LiveSinks' = LiveSinks
BY DEF ledgerVars, LedgerTypes, LedgerBalances, LiveSinks

LEMMA DriverKeepsBase ==
  ASSUME BaseInv, NEW d \in Drivers, Driver(d)
  PROVE  BaseInv'
<1> USE DEF BaseInv, TypeInv
<1>1. CASE Open(d)
  <2>1. LedgerTypes' /\ LedgerBalances'
    BY <1>1, LedgerKept DEF Open
  <2>2. DriverTypes' /\ WorkerTypes'
    BY <1>1 DEF Open, DriverTypes, WorkerTypes, Doings, engineVars
  <2>3. TokensInOrder'
    BY <1>1 DEF Open, TokensInOrder, DriverTypes, ledgerVars, engineVars
  <2>4. DrivesContext'
    BY <1>1, LedgerAssumption DEF Open, DrivesContext, DriverTypes
  <2> QED
    BY <2>1, <2>2, <2>3, <2>4
<1>2. CASE Enter(d)
  <2>1. TypeInv' /\ LedgerBalances' /\ nextToken \in Tokens
    BY <1>2, EnterBalances
  <2>2. TokensInOrder'
    <3>1. /\ \A t \in Tokens : t < nextToken' <=> t < nextToken \/ t = nextToken
          /\ \A t \in Tokens : t >= nextToken' => t >= nextToken /\ t # nextToken
          /\ nextToken < nextToken' /\ nextToken # None
      BY <1>2, <2>1 DEF Enter, Tokens, None
    <3>2. \A t \in Tokens : t < nextToken' => owner'[t] \in Drivers
      BY <1>2, <3>1 DEF Enter, TokensInOrder, WorkerTypes
    <3>3. \A t \in Tokens : t >= nextToken' =>
            life'[t] = "new" /\ sinks'[t] = NoCtx /\ ref'[t] = "none"
      BY <1>2, <3>1 DEF Enter, TokensInOrder, LedgerTypes, engineVars
    <3>4. ASSUME NEW e \in Drivers
          PROVE  /\ pc'[e] = "entered" <=> entered'[e] # None
                 /\ pc'[e] = "entered" => entered'[e] < nextToken' /\ owner'[entered'[e]] = e
      <4>1. CASE e = d
        BY <1>2, <2>1, <3>1, <4>1 DEF Enter, DriverTypes, WorkerTypes
      <4>2. CASE e # d
        <5>1. pc'[e] = pc[e] /\ entered'[e] = entered[e]
          BY <1>2, <4>2 DEF Enter
        <5>2. pc[e] = "entered" => entered[e] \in Tokens /\ entered[e] < nextToken
          BY DEF TokensInOrder, DriverTypes
        <5> QED
          BY <1>2, <2>1, <3>1, <5>1, <5>2 DEF Enter, TokensInOrder, Tokens
      <4> QED
        BY <4>1, <4>2
    <3> QED
      BY <3>2, <3>3, <3>4 DEF TokensInOrder
  <2>3. DrivesContext'
    BY <1>2 DEF Enter, DrivesContext, DriverTypes
  <2> QED
    BY <2>1, <2>2, <2>3
<1>3. CASE Accepted(d)
  <2>1. LedgerTypes' /\ LedgerBalances'
    BY <1>3, LedgerKept DEF Accepted
  <2>2. DriverTypes' /\ WorkerTypes'
    BY <1>3 DEF Accepted, DriverTypes, WorkerTypes, Lives
  <2>3. TokensInOrder' /\ DrivesContext'
    BY <1>3 DEF Accepted, TokensInOrder, DrivesContext, DriverTypes, WorkerTypes, LedgerTypes,
                ledgerVars, Tokens, None
  <2> QED
    BY <2>1, <2>2, <2>3
<1>4. CASE Returns(d)
  <2>1. LedgerTypes' /\ LedgerBalances'
    BY <1>4, LedgerKept DEF Returns
  <2>2. DriverTypes' /\ WorkerTypes'
    BY <1>4 DEF Returns, DriverTypes, WorkerTypes, Doings, engineVars
  <2>3. TokensInOrder' /\ DrivesContext'
    BY <1>4 DEF Returns, TokensInOrder, DrivesContext, DriverTypes, ledgerVars, engineVars
  <2> QED
    BY <2>1, <2>2, <2>3
<1>5. CASE Refused(d)
  <2>1. /\ LedgerTypes' /\ LedgerBalances' /\ LiveSinks' = LiveSinks \ {entered[d]}
        /\ \A t \in Tokens : ref[t] = "none" => ref'[t] = "none"
    BY <1>5, RetireBalances DEF Refused
  <2>2. DriverTypes' /\ WorkerTypes'
    <3>1. DriverTypes'
      BY <1>5 DEF Refused, DriverTypes, Doings
    <3>2. WorkerTypes'
      BY <1>5 DEF Refused, DriverTypes, WorkerTypes, Lives
    <3> QED
      BY <3>1, <3>2
  <2>3. TokensInOrder'
    BY <1>5, <2>1, SMTT(20)
    DEF Refused, TokensInOrder, DriverTypes, WorkerTypes, LedgerTypes, LiveSinks, Tokens, None
  <2>4. DrivesContext'
    BY <1>5 DEF Refused, DrivesContext, DriverTypes
  <2> QED
    BY <2>1, <2>2, <2>3, <2>4
<1>6. CASE Close(d)
  <2>1. LedgerTypes' /\ LedgerBalances'
    BY <1>6, LedgerKept DEF Close
  <2>2. DriverTypes' /\ WorkerTypes'
    BY <1>6 DEF Close, DriverTypes, WorkerTypes, Doings, Lives
  <2>3. TokensInOrder' /\ DrivesContext'
    BY <1>6 DEF Close, TokensInOrder, DrivesContext, DriverTypes, ledgerVars
  <2> QED
    BY <2>1, <2>2, <2>3
<1>7. CASE Joined(d)
  <2>1. LedgerTypes' /\ LedgerBalances'
    BY <1>7, LedgerKept DEF Joined
  <2>2. DriverTypes' /\ WorkerTypes'
    BY <1>7 DEF Joined, DriverTypes, WorkerTypes, Doings, engineVars
  <2>3. TokensInOrder' /\ DrivesContext'
    BY <1>7 DEF Joined, TokensInOrder, DrivesContext, DriverTypes, ledgerVars, engineVars
  <2> QED
    BY <2>1, <2>2, <2>3
<1>8. CASE Sweep(d)
  <2> DEFINE mine == {t \in Tokens : sinks[t] = ctx[d]}
  <2>1. /\ LedgerTypes' /\ LedgerBalances' /\ LiveSinks' = LiveSinks \ mine
        /\ \A t \in Tokens : ref[t] = "none" => ref'[t] = "none"
    BY <1>8, RetireBalances DEF Sweep
  <2>2. DriverTypes' /\ WorkerTypes'
    BY <1>8 DEF Sweep, DriverTypes, WorkerTypes, Doings, engineVars
  <2>3. TokensInOrder'
    BY <1>8, <2>1 DEF Sweep, TokensInOrder, DriverTypes, LiveSinks, engineVars
  <2>4. DrivesContext'
    BY <1>8 DEF Sweep, DrivesContext, DriverTypes
  <2> QED
    BY <2>1, <2>2, <2>3, <2>4
<1> QED
  BY <1>1, <1>2, <1>3, <1>4, <1>5, <1>6, <1>7, <1>8 DEF Driver

LEMMA WorkerKeepsBase ==
  ASSUME BaseInv, NEW d \in Drivers, WorkerOf(d)
  PROVE  BaseInv'
<1> USE DEF BaseInv, TypeInv
<1>1. ASSUME NEW t \in Tokens, Take(d, t)
      PROVE  BaseInv'
  <2>1. LedgerTypes' /\ LedgerBalances'
    BY <1>1, LedgerKept DEF Take
  <2>2. DriverTypes' /\ WorkerTypes'
    BY <1>1 DEF Take, DriverTypes, WorkerTypes
  <2>3. TokensInOrder' /\ DrivesContext'
    BY <1>1 DEF Take, TokensInOrder, DrivesContext, ledgerVars
  <2> QED
    BY <2>1, <2>2, <2>3
<1>2. ASSUME NEW final \in BOOLEAN, Emit(d, final)
      PROVE  BaseInv'
  <2>1. LedgerTypes' /\ LedgerBalances'
    BY <1>2, LedgerKept DEF Emit
  <2>2. DriverTypes'
    BY <1>2 DEF Emit, DriverTypes
  <2>3. WorkerTypes'
    <3>1. life' \in [Tokens -> Lives]
      BY <1>2 DEF Emit, WorkerTypes, Lives
    <3>2. call' \in [Drivers -> Calls]
      <4>1. [token |-> serving[d], final |-> final, bound |-> FALSE] \in Calls
        BY <1>2 DEF Emit, WorkerTypes, Calls
      <4> QED
        BY <1>2, <4>1 DEF Emit, WorkerTypes
    <3> QED
      BY <1>2, <3>1, <3>2 DEF Emit, WorkerTypes
  <2>4. TokensInOrder' /\ DrivesContext'
    BY <1>2 DEF Emit, TokensInOrder, DrivesContext, WorkerTypes, ledgerVars
  <2> QED
    BY <2>1, <2>2, <2>3, <2>4
<1>3. CASE Attach(d) \/ AttachFails(d)
  <2>1. LedgerTypes' /\ LedgerBalances'
    BY <1>3, LedgerKept DEF Attach, AttachFails
  <2>2. DriverTypes' /\ attached' \in [Drivers -> BOOLEAN]
    BY <1>3 DEF Attach, AttachFails, DriverTypes, WorkerTypes
  <2>3. call' \in [Drivers -> Calls]
    <3>1. [call[d] EXCEPT !.bound = TRUE] \in Calls /\ NoCall \in Calls
      BY DEF WorkerTypes, Calls, NoCall, None
    <3> QED
      BY <1>3, <3>1 DEF Attach, AttachFails, WorkerTypes
  <2>4. WorkerTypes'
    BY <1>3, <2>2, <2>3 DEF Attach, AttachFails, WorkerTypes, engineVars
  <2>5. TokensInOrder' /\ DrivesContext'
    BY <1>3 DEF Attach, AttachFails, TokensInOrder, DrivesContext, ledgerVars, engineVars
  <2> QED
    BY <2>1, <2>2, <2>4, <2>5
<1>4. CASE Delivered(d)
  <2>1. /\ LedgerTypes' /\ LedgerBalances'
        /\ \A t \in Tokens : ref[t] = "none" => ref'[t] = "none"
        /\ \A t \in Tokens : sinks[t] = NoCtx => sinks'[t] = NoCtx
    <3>1. CASE call[d].final
      BY <1>4, <3>1, RetireBalances DEF Delivered, LiveSinks
    <3>2. CASE ~call[d].final
      BY <1>4, <3>2, LedgerKept DEF Delivered, ledgerVars
    <3> QED
      BY <3>1, <3>2
  <2>2. DriverTypes' /\ WorkerTypes'
    BY <1>4 DEF Delivered, DriverTypes, WorkerTypes, Calls, NoCall, None, engineVars
  <2>3. TokensInOrder' /\ DrivesContext'
    BY <1>4, <2>1 DEF Delivered, TokensInOrder, DrivesContext, engineVars
  <2> QED
    BY <2>1, <2>2, <2>3
<1>5. CASE Done(d)
  <2>1. LedgerTypes' /\ LedgerBalances'
    BY <1>5, LedgerKept DEF Done
  <2>2. DriverTypes' /\ WorkerTypes'
    BY <1>5 DEF Done, DriverTypes, WorkerTypes, None
  <2>3. TokensInOrder' /\ DrivesContext'
    BY <1>5 DEF Done, TokensInOrder, DrivesContext, ledgerVars
  <2> QED
    BY <2>1, <2>2, <2>3
<1> QED
  BY <1>1, <1>2, <1>3, <1>4, <1>5 DEF WorkerOf

LEMMA BaseStep == BaseInv /\ [Next]_vars => BaseInv'
<1>1. ASSUME BaseInv, UNCHANGED vars
      PROVE  BaseInv'
  BY <1>1 DEF vars, ledgerVars, engineVars, BaseInv, TypeInv, DriverTypes, LedgerTypes, WorkerTypes,
              LedgerBalances, LiveSinks, TokensInOrder, DrivesContext
<1> QED
  BY <1>1, DriverKeepsBase, WorkerKeepsBase DEF Next

(* The ledger's two counts never part, however many threads open and close *)
(* contexts, and wherever the allocator puts them: a sink and its global   *)
(* reference go in and out together (request, retire, sweepContext).       *)
THEOREM LedgerCounts == Spec => []LedgerBalances
<1>1. Init => BaseInv
  BY BaseInit
<1>2. BaseInv /\ [Next]_vars => BaseInv'
  BY BaseStep
<1>3. BaseInv => LedgerBalances
  BY DEF BaseInv
<1> QED
  BY <1>1, <1>2, <1>3, PTL DEF Spec

-----------------------------------------------------------------------------
(* Whose sinks are in the ledger, and what is served from them.            *)

LEMMA DriverKeepsSinks ==
  ASSUME LedgerInv, NEW d \in Drivers, Driver(d)
  PROVE  SinksInv'
<1> USE DEF LedgerInv, BaseInv, TypeInv, SinksInv
<1>1. CASE Open(d)
  <2>0. LiveSinks' = LiveSinks
    BY <1>1 DEF Open, LiveSinks, ledgerVars
  <2>2. SinksAreOwned'
    BY <1>1, <2>0
       DEF Open, SinksAreOwned, LiveSinks, DriverTypes, ledgerVars, TokensInOrder, DrivesContext
  <2>3. LifeOfRequest'
    BY <1>1, <2>0 DEF Open, LifeOfRequest, ledgerVars, engineVars
  <2>4. ServesOwn'
    BY <1>1 DEF Open, ServesOwn, ledgerVars, engineVars
  <2>5. CallsWhatItServes'
    BY <1>1, <2>0 DEF Open, CallsWhatItServes, engineVars
  <2>6. AttachedServes'
    BY <1>1 DEF Open, AttachedServes, engineVars
  <2>7. TakenAreGone'
    BY <1>1, <2>0 DEF Open, TakenAreGone, ledgerVars
  <2>8. OnlyUnfinishedHold'
    BY <1>1, <2>0 DEF Open, OnlyUnfinishedHold, engineVars
  <2> QED
    BY <2>2, <2>3, <2>4, <2>5, <2>6, <2>7, <2>8
<1>2. CASE Enter(d)
  <2>1. /\ nextToken \in Tokens /\ nextToken \notin LiveSinks
        /\ LiveSinks' = LiveSinks \cup {nextToken}
    BY <1>2, EnterBalances
  <2>2. nextToken # None /\ \A t \in Tokens : t < nextToken' <=> t < nextToken \/ t = nextToken
    BY <1>2, <2>1 DEF Enter, Tokens, None
  <2>3. \A t \in Tokens : t < nextToken =>
          t # nextToken /\ owner'[t] = owner[t] /\ owner[t] \in Drivers
    BY <1>2 DEF Enter, Tokens, TokensInOrder
  <2>5. SinksAreOwned'
    <3>1. \A t \in LiveSinks : t < nextToken /\ sinks'[t] = sinks[t] /\ t \in Tokens
      BY <1>2, <2>1 DEF Enter, SinksAreOwned, LiveSinks
    <3>2. sinks'[nextToken] = ctx[d] /\ owner'[nextToken] = d
      BY <1>2, <2>1 DEF Enter, LedgerTypes, WorkerTypes
    <3> QED
      BY <1>2, <2>1, <2>2, <3>1, <3>2 DEF Enter, SinksAreOwned
  <2>6. LifeOfRequest'
    <3>1. life[nextToken] = "new" /\ owner'[nextToken] = d /\ entered'[d] = nextToken
      BY <1>2, <2>1 DEF Enter, TokensInOrder, DriverTypes, LedgerTypes, WorkerTypes
    <3>2. ASSUME NEW t \in Tokens, t < nextToken
          PROVE  /\ owner[t] # d => /\ pc'[owner[t]] = pc[owner[t]]
                                    /\ entered'[owner[t]] = entered[owner[t]]
                 /\ pc'[d] = "entered" /\ life[t] = "new" => owner[t] # d
      BY <1>2, <3>2 DEF Enter, LifeOfRequest, TokensInOrder, Tokens, None
    <3> QED
      BY <1>2, <2>1, <2>2, <3>1, <3>2 DEF Enter, LifeOfRequest, engineVars, DriverTypes
  <2>7. ServesOwn'
    BY <1>2, <2>2, <2>3 DEF Enter, ServesOwn, engineVars, WorkerTypes
  <2>8. CallsWhatItServes'
    BY <1>2, <2>1 DEF Enter, CallsWhatItServes, engineVars
  <2>11. TakenAreGone'
    <3>1. nextToken \notin taken /\ nextToken < nextToken'
      BY <1>2, <2>1 DEF Enter, TakenAreGone, Tokens
    <3>2. taken' = taken /\ missed' = missed
      BY <1>2 DEF Enter
    <3> QED
      BY <2>1, <2>2, <3>1, <3>2 DEF TakenAreGone
  <2>10. AttachedServes'
    BY <1>2, <2>3 DEF Enter, AttachedServes, TakenAreGone, engineVars
  <2>9. OnlyUnfinishedHold'
    BY <1>2, <2>1 DEF Enter, OnlyUnfinishedHold, TokensInOrder, engineVars, LedgerTypes
  <2> QED
    BY <2>5, <2>6, <2>7, <2>8, <2>9, <2>10, <2>11
<1>3. CASE Accepted(d)
  <2>2. SinksAreOwned'
    BY <1>3 DEF Accepted, SinksAreOwned, LiveSinks, ledgerVars
  <2>3. LifeOfRequest'
    BY <1>3 DEF Accepted, LifeOfRequest, LiveSinks, ledgerVars, TokensInOrder
  <2>4. ServesOwn'
    BY <1>3 DEF Accepted, ServesOwn, ledgerVars
  <2>5. CallsWhatItServes'
    BY <1>3 DEF Accepted, CallsWhatItServes, LiveSinks, ledgerVars
  <2>6. AttachedServes'
    BY <1>3 DEF Accepted, AttachedServes
  <2>7. TakenAreGone'
    BY <1>3 DEF Accepted, TakenAreGone, LiveSinks, ledgerVars
  <2>8. OnlyUnfinishedHold'
    BY <1>3 DEF Accepted, OnlyUnfinishedHold, LiveSinks, ledgerVars
  <2> QED
    BY <2>2, <2>3, <2>4, <2>5, <2>6, <2>7, <2>8
<1>4. CASE Returns(d)
  <2>2. SinksAreOwned'
    BY <1>4 DEF Returns, SinksAreOwned, LiveSinks, ledgerVars
  <2>3. LifeOfRequest'
    BY <1>4 DEF Returns, LifeOfRequest, LiveSinks, ledgerVars, engineVars
  <2>4. ServesOwn'
    BY <1>4 DEF Returns, ServesOwn, ledgerVars, engineVars
  <2>5. CallsWhatItServes'
    BY <1>4 DEF Returns, CallsWhatItServes, LiveSinks, ledgerVars, engineVars
  <2>6. AttachedServes'
    BY <1>4 DEF Returns, AttachedServes, engineVars
  <2>7. TakenAreGone'
    BY <1>4 DEF Returns, TakenAreGone, LiveSinks, ledgerVars
  <2>8. OnlyUnfinishedHold'
    BY <1>4 DEF Returns, OnlyUnfinishedHold, LiveSinks, ledgerVars, engineVars
  <2> QED
    BY <2>2, <2>3, <2>4, <2>5, <2>6, <2>7, <2>8
<1>5. CASE Refused(d)
  <2>0. /\ LiveSinks' = LiveSinks \ {entered[d]}
        /\ \A t \in LiveSinks' : sinks'[t] = sinks[t]
        /\ entered[d] \in Tokens /\ entered[d] # None
        /\ owner[entered[d]] = d /\ life[entered[d]] = "new"
    BY <1>5, RetireBalances DEF Refused, TokensInOrder, DriverTypes
  <2>2. SinksAreOwned'
    BY <1>5, <2>0 DEF Refused, SinksAreOwned
  <2>3. LifeOfRequest'
    BY <1>5, <2>0 DEF Refused, LifeOfRequest, WorkerTypes
  <2>4. ServesOwn'
    BY <1>5 DEF Refused, ServesOwn
  <2>5. CallsWhatItServes'
    BY <1>5, <2>0 DEF Refused, CallsWhatItServes, ServesOwn
  <2>6. AttachedServes'
    BY <1>5 DEF Refused, AttachedServes
  <2>7. TakenAreGone'
    BY <1>5, <2>0 DEF Refused, TakenAreGone
  <2>8. OnlyUnfinishedHold'
    BY <1>5, <2>0 DEF Refused, OnlyUnfinishedHold
  <2> QED
    BY <2>2, <2>3, <2>4, <2>5, <2>6, <2>7, <2>8
<1>6. CASE Close(d)
  <2>2. SinksAreOwned'
    BY <1>6 DEF Close, SinksAreOwned, LiveSinks, ledgerVars
  <2>3. LifeOfRequest'
    BY <1>6 DEF Close, LifeOfRequest, LiveSinks, ledgerVars
  <2>4. ServesOwn'
    BY <1>6 DEF Close, ServesOwn, WorkerTypes, ledgerVars
  <2>5. CallsWhatItServes'
    BY <1>6 DEF Close, CallsWhatItServes, ServesOwn, TakenAreGone, WorkerTypes, LiveSinks, ledgerVars
  <2>6. AttachedServes'
    BY <1>6 DEF Close, AttachedServes, ServesOwn, WorkerTypes
  <2>7. TakenAreGone'
    BY <1>6 DEF Close, TakenAreGone, LiveSinks, ledgerVars
  <2>8. OnlyUnfinishedHold'
    BY <1>6 DEF Close, OnlyUnfinishedHold, DriverTypes, LiveSinks, ledgerVars
  <2> QED
    BY <2>2, <2>3, <2>4, <2>5, <2>6, <2>7, <2>8
<1>7. CASE Joined(d)
  <2>2. SinksAreOwned'
    BY <1>7 DEF Joined, SinksAreOwned, LiveSinks, ledgerVars
  <2>3. LifeOfRequest'
    BY <1>7 DEF Joined, LifeOfRequest, LiveSinks, ledgerVars, engineVars, Tokens, None
  <2>4. ServesOwn'
    BY <1>7 DEF Joined, ServesOwn, ledgerVars, engineVars
  <2>5. CallsWhatItServes'
    BY <1>7 DEF Joined, CallsWhatItServes, LiveSinks, ledgerVars, engineVars
  <2>6. AttachedServes'
    BY <1>7 DEF Joined, AttachedServes, engineVars
  <2>7. TakenAreGone'
    BY <1>7 DEF Joined, TakenAreGone, LiveSinks, ledgerVars
  <2>8. OnlyUnfinishedHold'
    BY <1>7 DEF Joined, OnlyUnfinishedHold, LiveSinks, ledgerVars, engineVars
  <2> QED
    BY <2>2, <2>3, <2>4, <2>5, <2>6, <2>7, <2>8
<1>8. CASE Sweep(d)
  <2> DEFINE mine == {t \in Tokens : sinks[t] = ctx[d]}
  <2>0. /\ LiveSinks' = LiveSinks \ mine
        /\ \A t \in LiveSinks' : sinks'[t] = sinks[t]
        /\ \A t \in LiveSinks' : owner[t] # d
        /\ taken' = taken \cup {t \in LiveSinks : t \in mine /\ owner[t] # d}
    <3>1. LiveSinks' = LiveSinks \ mine /\ \A t \in LiveSinks' : sinks'[t] = sinks[t]
      BY <1>8, RetireBalances DEF Sweep
    <3>2. \A t \in LiveSinks : owner[t] = d => t \in mine
      BY DEF SinksAreOwned, LiveSinks
    <3> QED
      BY <1>8, <3>1, <3>2 DEF Sweep, LiveSinks
  <2>2. SinksAreOwned'
    BY <1>8, <2>0 DEF Sweep, SinksAreOwned
  <2>3. LifeOfRequest'
    <3>1. ASSUME NEW t \in Tokens, t < nextToken, t \in LiveSinks, owner[t] # d
          PROVE  t \in (LiveSinks \cup taken)'
      BY <2>0, <3>1
    <3>2. ASSUME NEW t \in Tokens, t < nextToken, owner[t] = d
          PROVE  life[t] \notin {"new", "live"}
      BY <1>8, <3>2 DEF Sweep, LifeOfRequest, TokensInOrder, Tokens, None
    <3> QED
      BY <1>8, <2>0, <3>1, <3>2 DEF Sweep, LifeOfRequest, engineVars, LiveSinks, DriverTypes
  <2>4. ServesOwn'
    BY <1>8 DEF Sweep, ServesOwn, engineVars
  <2>5. CallsWhatItServes'
    BY <1>8, <2>0 DEF Sweep, CallsWhatItServes, ServesOwn, engineVars
  <2>6. AttachedServes'
    BY <1>8 DEF Sweep, AttachedServes, engineVars
  <2>7. TakenAreGone'
    BY <1>8, <2>0 DEF Sweep, TakenAreGone, SinksAreOwned, LiveSinks
  <2>8. OnlyUnfinishedHold'
    BY <1>8, <2>0 DEF Sweep, OnlyUnfinishedHold, engineVars
  <2> QED
    BY <2>2, <2>3, <2>4, <2>5, <2>6, <2>7, <2>8
<1> QED
  BY <1>1, <1>2, <1>3, <1>4, <1>5, <1>6, <1>7, <1>8 DEF Driver

LEMMA WorkerKeepsSinks ==
  ASSUME LedgerInv, NEW d \in Drivers, WorkerOf(d)
  PROVE  SinksInv'
<1> USE DEF LedgerInv, BaseInv, TypeInv, SinksInv
<1>1. ASSUME NEW t \in Tokens, Take(d, t)
      PROVE  SinksInv'
  <2>2. SinksAreOwned'
    BY <1>1 DEF Take, SinksAreOwned, LiveSinks, ledgerVars
  <2>3. LifeOfRequest'
    BY <1>1 DEF Take, LifeOfRequest, LiveSinks, ledgerVars, TokensInOrder, LedgerTypes, Tokens
  <2>4. ServesOwn'
    BY <1>1 DEF Take, ServesOwn, LifeOfRequest, ledgerVars, TokensInOrder, LedgerTypes, Tokens
  <2>5. CallsWhatItServes'
    BY <1>1 DEF Take, CallsWhatItServes, LiveSinks, ledgerVars
  <2>6. AttachedServes'
    BY <1>1 DEF Take, AttachedServes
  <2>7. TakenAreGone'
    BY <1>1 DEF Take, TakenAreGone, LiveSinks, ledgerVars
  <2>8. OnlyUnfinishedHold'
    BY <1>1 DEF Take, OnlyUnfinishedHold, LiveSinks, ledgerVars
  <2> QED
    BY <2>2, <2>3, <2>4, <2>5, <2>6, <2>7, <2>8
<1>2. ASSUME NEW final \in BOOLEAN, Emit(d, final)
      PROVE  SinksInv'
  <2> DEFINE hit == serving[d] \in LiveSinks
  <2>1. /\ serving[d] \in Tokens /\ serving[d] # None
        /\ serving[d] \in LiveSinks \cup taken
        /\ serving[d] < nextToken /\ owner[serving[d]] = d
    BY <1>2 DEF Emit, ServesOwn, LifeOfRequest, WorkerTypes
  <2>2. /\ UNCHANGED <<pc, ctx, entered, sinks, nextToken, owner, serving, attached, stranded, taken>>
        /\ LiveSinks' = LiveSinks
        /\ missed' = IF hit THEN missed ELSE missed \cup {serving[d]}
    BY <1>2, <2>1 DEF Emit, LiveSinks, ledgerVars
  <2>3. /\ \A t \in Tokens : t # serving[d] => life'[t] = life[t]
        /\ life[serving[d]] = "live"
        /\ life'[serving[d]] = "settled" <=> final
        /\ life'[serving[d]] \in {"live", "settled"}
    BY <1>2 DEF Emit, WorkerTypes
  <2>4. /\ \A e \in Drivers : e # d => call'[e] = call[e]
        /\ call[d] = NoCall
        /\ call'[d] = IF hit THEN [token |-> serving[d], final |-> final, bound |-> FALSE]
                      ELSE NoCall
    BY <1>2, <2>1 DEF Emit, LiveSinks, WorkerTypes
  <2>5. hit => /\ call'[d] # NoCall /\ call'[d].token = serving[d]
               /\ (call'[d].final <=> final) /\ ~call'[d].bound
    BY <2>1, <2>4 DEF NoCall, None, Tokens
  <2>6. \A e \in Drivers : e # d /\ serving[e] # None => serving[e] # serving[d]
    BY DEF ServesOwn
  <2>7. SinksAreOwned' /\ TakenAreGone'
    BY <2>1, <2>2 DEF SinksAreOwned, TakenAreGone
  <2>8. LifeOfRequest' /\ ServesOwn'
    BY <2>2, <2>3 DEF LifeOfRequest, ServesOwn, WorkerTypes
  <2>9. CallsWhatItServes'
    <3> DEFINE Matches(e) == /\ call[e].token = serving[e] /\ serving[e] # None
                             /\ serving[e] \in LiveSinks \cup taken
                             /\ call[e].final <=> life[serving[e]] = "settled"
                             /\ call[e].bound => attached[e]
    <3>1. ASSUME NEW e \in Drivers, e # d, call[e] # NoCall
          PROVE  Matches(e)'
      <4>1. Matches(e) /\ call'[e] = call[e]
        BY <2>4, <3>1 DEF CallsWhatItServes
      <4>2. life'[serving[e]] = life[serving[e]]
        BY <2>3, <2>6, <3>1, <4>1 DEF LiveSinks, WorkerTypes
      <4> QED
        BY <2>2, <4>1, <4>2
    <3>2. hit => Matches(d)'
      BY <2>1, <2>2, <2>3, <2>5
    <3> QED
      BY <2>4, <3>1, <3>2 DEF CallsWhatItServes
  <2>10. AttachedServes'
    <3>1. ASSUME NEW e \in Drivers, e # d, attached[e]
          PROVE  \/ serving[e] # None /\ (life'[serving[e]] = "live" \/ call'[e] # NoCall)
                 \/ \E t \in missed' : owner[t] = e
      BY <2>2, <2>3, <2>4, <2>6, <3>1 DEF AttachedServes, WorkerTypes
    <3>2. hit \/ \E t \in missed' : owner[t] = d
      BY <2>1, <2>2
    <3> QED
      BY <2>1, <2>2, <2>5, <3>1, <3>2 DEF AttachedServes
  <2>11. OnlyUnfinishedHold'
    <3>1. ASSUME NEW t \in LiveSinks, t # serving[d]
          PROVE  call[owner[t]].token = t => owner[t] # d
      BY <2>4 DEF NoCall, None, LiveSinks, Tokens
    <3>2. \A t \in LiveSinks : t \in Tokens /\ owner[t] \in Drivers
      BY DEF LiveSinks, SinksAreOwned, TokensInOrder
    <3> QED
      BY <2>1, <2>2, <2>3, <2>4, <2>5, <3>1, <3>2 DEF OnlyUnfinishedHold
  <2> QED
    BY <2>7, <2>8, <2>9, <2>10, <2>11
<1>3. CASE Attach(d)
  <2>2. SinksAreOwned'
    BY <1>3 DEF Attach, SinksAreOwned, LiveSinks, ledgerVars
  <2>3. LifeOfRequest'
    BY <1>3 DEF Attach, LifeOfRequest, LiveSinks, ledgerVars, engineVars
  <2>4. ServesOwn'
    BY <1>3 DEF Attach, ServesOwn, ledgerVars, engineVars
  <2>5. CallsWhatItServes'
    BY <1>3 DEF Attach, CallsWhatItServes, WorkerTypes, LiveSinks, ledgerVars, engineVars
  <2>6. AttachedServes'
    BY <1>3 DEF Attach, AttachedServes, CallsWhatItServes, engineVars, NoCall, WorkerTypes
  <2>7. TakenAreGone'
    BY <1>3 DEF Attach, TakenAreGone, LiveSinks, ledgerVars
  <2>8. OnlyUnfinishedHold'
    BY <1>3 DEF Attach, OnlyUnfinishedHold, LiveSinks, ledgerVars, engineVars
  <2> QED
    BY <2>2, <2>3, <2>4, <2>5, <2>6, <2>7, <2>8
<1>4. CASE AttachFails(d)
  <2>2. SinksAreOwned'
    BY <1>4 DEF AttachFails, SinksAreOwned, LiveSinks, ledgerVars
  <2>3. LifeOfRequest'
    BY <1>4 DEF AttachFails, LifeOfRequest, LiveSinks, ledgerVars, engineVars
  <2>4. ServesOwn'
    BY <1>4 DEF AttachFails, ServesOwn, ledgerVars, engineVars
  <2>5. CallsWhatItServes'
    BY <1>4 DEF AttachFails, CallsWhatItServes, LiveSinks, ledgerVars, engineVars
  <2>6. AttachedServes'
    BY <1>4 DEF AttachFails, AttachedServes, engineVars
  <2>7. TakenAreGone'
    BY <1>4 DEF AttachFails, TakenAreGone, LiveSinks, ledgerVars
  <2>8. OnlyUnfinishedHold'
    BY <1>4 DEF AttachFails, OnlyUnfinishedHold, CallsWhatItServes, LiveSinks, ledgerVars,
       engineVars
  <2> QED
    BY <2>2, <2>3, <2>4, <2>5, <2>6, <2>7, <2>8
<1>5. CASE Delivered(d)
  <2>0. /\ call[d] # NoCall /\ call[d].token = serving[d]
        /\ serving[d] \in LiveSinks \cup taken /\ owner[serving[d]] = d
    BY <1>5 DEF Delivered, NoCall, CallsWhatItServes, ServesOwn
  <2>R. /\ \A t \in LiveSinks' : t \in LiveSinks /\ sinks'[t] = sinks[t]
        /\ \A t \in LiveSinks : t # serving[d] => t \in LiveSinks'
        /\ ~call[d].final => LiveSinks' = LiveSinks
        /\ call[d].final => LiveSinks' = LiveSinks \ {serving[d]}
    <3>1. CASE call[d].final
      BY <1>5, <2>0, <3>1, RetireBalances DEF Delivered
    <3>2. CASE ~call[d].final
      BY <1>5, <3>2 DEF Delivered, LiveSinks
    <3> QED
      BY <3>1, <3>2
  <2>2. SinksAreOwned'
    BY <1>5, <2>R DEF Delivered, SinksAreOwned
  <2>3. LifeOfRequest'
    BY <1>5, <2>0, <2>R DEF Delivered, LifeOfRequest, CallsWhatItServes, engineVars
  <2>4. ServesOwn'
    BY <1>5 DEF Delivered, ServesOwn, engineVars
  <2>5. CallsWhatItServes'
    BY <1>5, <2>R DEF Delivered, CallsWhatItServes, ServesOwn, engineVars, WorkerTypes
  <2>6. AttachedServes'
    BY <1>5 DEF Delivered, AttachedServes, CallsWhatItServes, ServesOwn, engineVars, WorkerTypes
  <2>7. TakenAreGone'
    BY <1>5, <2>R DEF Delivered, TakenAreGone
  <2>8. OnlyUnfinishedHold'
    BY <1>5, <2>R DEF Delivered, OnlyUnfinishedHold, CallsWhatItServes, engineVars
  <2> QED
    BY <2>2, <2>3, <2>4, <2>5, <2>6, <2>7, <2>8
<1>6. CASE Done(d)
  <2>2. SinksAreOwned'
    BY <1>6 DEF Done, SinksAreOwned, LiveSinks, ledgerVars
  <2>3. LifeOfRequest'
    BY <1>6 DEF Done, LifeOfRequest, LiveSinks, ledgerVars
  <2>4. ServesOwn'
    BY <1>6 DEF Done, ServesOwn, ledgerVars
  <2>5. CallsWhatItServes'
    BY <1>6 DEF Done, CallsWhatItServes, LiveSinks, ledgerVars
  <2>6. AttachedServes'
    BY <1>6 DEF Done, AttachedServes
  <2>7. TakenAreGone'
    BY <1>6 DEF Done, TakenAreGone, LiveSinks, ledgerVars
  <2>8. OnlyUnfinishedHold'
    BY <1>6 DEF Done, OnlyUnfinishedHold, LiveSinks, ledgerVars
  <2> QED
    BY <2>2, <2>3, <2>4, <2>5, <2>6, <2>7, <2>8
<1> QED
  BY <1>1, <1>2, <1>3, <1>4, <1>5, <1>6 DEF WorkerOf

LEMMA SinksInit == Init => SinksInv
BY LedgerAssumption
   DEF Init, SinksInv, SinksAreOwned, LifeOfRequest, ServesOwn, CallsWhatItServes,
       AttachedServes, TakenAreGone, OnlyUnfinishedHold, LiveSinks, Tokens

LEMMA LedgerStep == LedgerInv /\ [Next]_vars => LedgerInv'
<1>1. ASSUME LedgerInv, UNCHANGED vars
      PROVE  SinksInv'
  BY <1>1 DEF vars, ledgerVars, engineVars, LedgerInv, SinksInv, LiveSinks, SinksAreOwned, LifeOfRequest, ServesOwn, CallsWhatItServes, AttachedServes,
              TakenAreGone, OnlyUnfinishedHold
<1>2. ASSUME LedgerInv, Next
      PROVE  SinksInv'
  BY <1>2, DriverKeepsSinks, WorkerKeepsSinks DEF Next
<1> QED
  BY <1>1, <1>2, BaseStep DEF LedgerInv

LEMMA LedgerIsSafe == Spec => []LedgerInv
<1>1. Init => LedgerInv
  BY BaseInit, SinksInit DEF LedgerInv
<1>2. LedgerInv /\ [Next]_vars => LedgerInv'
  BY LedgerStep
<1> QED
  BY <1>1, <1>2, PTL DEF Spec

-----------------------------------------------------------------------------
(* The theorems.  They suppose nothing of the allocator: what a context    *)
(* loses to the sweep of another that had its address is in taken.         *)

(* A worker never calls a listener whose reference has been given back,    *)
(* although it calls it outside the ledger's lock, but for one that the    *)
(* sweep of another context took (deliver, retire, sweepContext).          *)
THEOREM ListenersAreHeld == Spec => []HeldUnlessTaken
<1>1. LedgerInv => HeldUnlessTaken
  BY DEF LedgerInv, BaseInv, LedgerBalances, SinksInv, CallsWhatItServes, HeldUnlessTaken
<1> QED
  BY <1>1, LedgerIsSafe, PTL

(* Every event of an accepted request finds its sink, from before the      *)
(* engine is called until after the terminal event, unless the sweep of    *)
(* another context took it (request, deliver).                             *)
THEOREM NoEventIsMissed == Spec => []MissedOnlyIfTaken
<1>1. LedgerInv => MissedOnlyIfTaken
  BY DEF LedgerInv, SinksInv, TakenAreGone, MissedOnlyIfTaken
<1> QED
  BY <1>1, LedgerIsSafe, PTL

(* A request that was refused or has settled holds no listener, unless its *)
(* terminal event found no JNIEnv; one dropped by close waits for the      *)
(* sweep (request, deliver, close).                                        *)
THEOREM UnfinishedHold == Spec => []OnlyUnfinishedHold
<1>1. LedgerInv => OnlyUnfinishedHold
  BY DEF LedgerInv, SinksInv
<1> QED
  BY <1>1, LedgerIsSafe, PTL

(* A close leaves nothing of the context in the ledger, and its worker was *)
(* detached from the JVM before it was joined, unless an event of its went *)
(* missing (close, sweepContext, detachIfAttachedHere).                    *)
THEOREM CloseReleasesAll == Spec => []ClosedHoldsNothing
<1>1. ASSUME LedgerInv
      PROVE  \A t \in LiveSinks : pc[owner[t]] # "idle"
  BY <1>1 DEF LedgerInv, BaseInv, SinksInv, SinksAreOwned, TokensInOrder, DrivesContext, LiveSinks
<1>2. ASSUME LedgerInv
      PROVE  \A d \in Drivers :
               pc[d] = "sweep" /\ attached[d] => \E t \in missed : owner[t] = d
  BY <1>2 DEF LedgerInv, SinksInv, AttachedServes, ServesOwn
<1>3. LedgerInv => ClosedHoldsNothing
  BY <1>1, <1>2 DEF ClosedHoldsNothing
<1> QED
  BY <1>3, LedgerIsSafe, PTL
=============================================================================
